-------------------------- MODULE MCInstall_proofs ---------------------------
(***************************************************************************)
(* Proofs about what brings the system onto the phone, for every number of *)
(* kernel revisions, faults, runs and lines: what MCInstall's run checks.  *)
(***************************************************************************)
EXTENDS MCInstall, FiniteSetTheorems, FiniteSetsExt, SequenceTheorems, TLAPS

\* Whatever the system does while a program runs is a step of that program.
LEMMA OwnSteps ==
  ASSUME [Next]_vars
  PROVE  /\ running' = running
         /\ running = "build" => [Build!Next]_(Build!vars)
         /\ running = "build by hand" => [ByHand!Next]_(ByHand!vars)
         /\ running = "zip" => [Zip!Next]_(Zip!vars)
         /\ running = "setup" => [Setup!Next]_(Setup!vars)
         /\ running = "shell" => [Shell!Next]_(Shell!vars)
BY DEF Next, vars, buildVars, bootVars, faultsVars, zipVars, setupVars, shellVars,
       Build!vars, ByHand!vars, Zip!vars, Setup!vars, Setup!ivars, Setup!ovars,
       Setup!svars, Shell!vars

-----------------------------------------------------------------------------
(* Build!, ByHand!: BuildPipeline.                                         *)

LEMMA BuildBootStarts == Build!Init => Build!BootIInv
<1> SUFFICES ASSUME Build!Init PROVE Build!BootIInv OBVIOUS
<1>1. clean \in BOOLEAN BY Zenon DEF Build!Init
<1> QED
  BY <1>1, ConstantsAssumption
  DEF ConstantsAssumption, Build!Init, Build!BootIInv, Build!TypeOK, Build!BootNotOlder, Build!Updaters,
      Build!NoZip, Build!NoImage

LEMMA BuildBootSteps ==
  ASSUME Build!BootIInv, [Build!Next]_(Build!vars)
  PROVE  Build!BootIInv'
<1> USE ConstantsAssumption
    DEF ConstantsAssumption, Build!BootIInv, Build!TypeOK, Build!BootNotOlder, Build!Updaters, Build!Fault,
        Build!NoZip, Build!NoImage
<1>1. CASE Build!EditKernel BY <1>1 DEF Build!EditKernel
<1>2. CASE Build!BuildHal BY <1>2 DEF Build!BuildHal
<1>3. CASE Build!BuildRecovery BY <1>3 DEF Build!BuildRecovery
<1>4. CASE Build!InstallClean BY <1>4 DEF Build!InstallClean
<1>5. CASE Build!PackageByHand BY <1>5 DEF Build!PackageByHand
<1>6. CASE Build!BeginPackages BY <1>6 DEF Build!BeginPackages
<1>7. CASE Build!PackageDevice BY <1>7 DEF Build!PackageDevice
<1>8. CASE Build!PackageConfigs BY <1>8 DEF Build!PackageConfigs
<1>9. CASE Build!PackagesFail BY <1>9 DEF Build!PackagesFail
<1>10. CASE Build!BuildImage BY <1>10 DEF Build!BuildImage, Build!Guard
<1>11. CASE Build!Mic BY <1>11 DEF Build!Mic, Build!Recent
<1>12. CASE Build!Ages BY <1>12 DEF Build!Ages, Build!Recent
<1>13. CASE Build!StageBoot BY <1>13 DEF Build!StageBoot
<1>14. CASE Build!Sign BY <1>14 DEF Build!Sign, Build!Zip
<1>15. CASE UNCHANGED Build!vars BY <1>15 DEF Build!vars
<1> QED
  BY <1>1, <1>2, <1>3, <1>4, <1>5, <1>6, <1>7, <1>8, <1>9, <1>10, <1>11, <1>12, <1>13, <1>14, <1>15
  DEF Build!Next

LEMMA ByHandBootStarts == ByHand!Init => ByHand!BootIInv
<1> SUFFICES ASSUME ByHand!Init PROVE ByHand!BootIInv OBVIOUS
<1>1. clean \in BOOLEAN BY Zenon DEF ByHand!Init
<1> QED
  BY <1>1, ConstantsAssumption
  DEF ConstantsAssumption, ByHand!Init, ByHand!BootIInv, ByHand!TypeOK, ByHand!BootNotOlder, ByHand!Updaters,
      ByHand!NoZip, ByHand!NoImage

LEMMA ByHandBootSteps ==
  ASSUME ByHand!BootIInv, [ByHand!Next]_(ByHand!vars)
  PROVE  ByHand!BootIInv'
<1> USE ConstantsAssumption
    DEF ConstantsAssumption, ByHand!BootIInv, ByHand!TypeOK, ByHand!BootNotOlder, ByHand!Updaters, ByHand!Fault,
        ByHand!NoZip, ByHand!NoImage
<1>1. CASE ByHand!EditKernel BY <1>1 DEF ByHand!EditKernel
<1>2. CASE ByHand!BuildHal BY <1>2 DEF ByHand!BuildHal
<1>3. CASE ByHand!BuildRecovery BY <1>3 DEF ByHand!BuildRecovery
<1>4. CASE ByHand!InstallClean BY <1>4 DEF ByHand!InstallClean
<1>5. CASE ByHand!PackageByHand BY <1>5 DEF ByHand!PackageByHand
<1>6. CASE ByHand!BeginPackages BY <1>6 DEF ByHand!BeginPackages
<1>7. CASE ByHand!PackageDevice BY <1>7 DEF ByHand!PackageDevice
<1>8. CASE ByHand!PackageConfigs BY <1>8 DEF ByHand!PackageConfigs
<1>9. CASE ByHand!PackagesFail BY <1>9 DEF ByHand!PackagesFail
<1>10. CASE ByHand!BuildImage BY <1>10 DEF ByHand!BuildImage, ByHand!Guard
<1>11. CASE ByHand!Mic BY <1>11 DEF ByHand!Mic, ByHand!Recent
<1>12. CASE ByHand!Ages BY <1>12 DEF ByHand!Ages, ByHand!Recent
<1>13. CASE ByHand!StageBoot BY <1>13 DEF ByHand!StageBoot
<1>14. CASE ByHand!Sign BY <1>14 DEF ByHand!Sign, ByHand!Zip
<1>15. CASE UNCHANGED ByHand!vars BY <1>15 DEF ByHand!vars
<1> QED
  BY <1>1, <1>2, <1>3, <1>4, <1>5, <1>6, <1>7, <1>8, <1>9, <1>10, <1>11, <1>12, <1>13, <1>14, <1>15
  DEF ByHand!Next

\* The clean updater is in out/ only beside the packages of its kernel.
LEMMA CleanStarts == Build!Init => Build!IInv
BY BuildBootStarts DEF Build!IInv, Build!Init, Build!CleanIsPackaged, Build!NoZip, Build!NoImage

LEMMA CleanSteps ==
  ASSUME Build!IInv, [Build!Next]_(Build!vars)
  PROVE  Build!IInv'
<1>1. Build!BootIInv' BY BuildBootSteps DEF Build!IInv
<1>2. Build!CleanIsPackaged'
  <2> USE DEF Build!IInv, Build!BootIInv, Build!TypeOK, Build!Updaters, Build!CleanIsPackaged, Build!Fault,
              Build!NoZip, Build!NoImage
  <2>1. CASE Build!EditKernel BY <2>1 DEF Build!EditKernel
  <2>2. CASE Build!BuildHal BY <2>2 DEF Build!BuildHal
  <2>3. CASE Build!BuildRecovery BY <2>3 DEF Build!BuildRecovery
  <2>4. CASE Build!InstallClean BY <2>4 DEF Build!InstallClean
  <2>5. CASE Build!PackageByHand BY <2>5 DEF Build!PackageByHand
  <2>6. CASE Build!BeginPackages BY <2>6 DEF Build!BeginPackages
  <2>7. CASE Build!PackageDevice BY <2>7 DEF Build!PackageDevice
  <2>8. CASE Build!PackageConfigs BY <2>8 DEF Build!PackageConfigs
  <2>9. CASE Build!PackagesFail BY <2>9 DEF Build!PackagesFail
  <2>10. CASE Build!BuildImage BY <2>10 DEF Build!BuildImage, Build!Guard
  <2>11. CASE Build!Mic BY <2>11 DEF Build!Mic, Build!Recent
  <2>12. CASE Build!Ages BY <2>12 DEF Build!Ages, Build!Recent
  <2>13. CASE Build!StageBoot BY <2>13 DEF Build!StageBoot
  <2>14. CASE Build!Sign BY <2>14 DEF Build!Sign, Build!Zip
  <2>15. CASE UNCHANGED Build!vars BY <2>15 DEF Build!vars
  <2> QED
    BY <2>1, <2>2, <2>3, <2>4, <2>5, <2>6, <2>7, <2>8, <2>9, <2>10, <2>11, <2>12, <2>13, <2>14, <2>15
    DEF Build!Next
<1> QED BY <1>1, <1>2 DEF Build!IInv

-----------------------------------------------------------------------------
(* Zip!: ZipInstall.                                                       *)

LEMMA ZipStarts == Zip!Init => Zip!IInv
<1> SUFFICES ASSUME Zip!Init PROVE Zip!IInv OBVIOUS
<1>1. mounted \in BOOLEAN BY DEF Zip!Init
<1>2. faults \in 0 .. MaxZipFaults BY ConstantsAssumption DEF Zip!Init, ConstantsAssumption
<1>3. Zip!TypeOK
  BY <1>1, <1>2, Zenon DEF Zip!Init, Zip!TypeOK, Zip!Trees, Zip!Copies, Zip!Images
<1>4. Zip!CheckedTree BY DEF Zip!Init, Zip!CheckedTree
<1> QED BY <1>3, <1>4 DEF Zip!IInv

LEMMA ZipSteps ==
  ASSUME Zip!IInv, [Zip!Next]_(Zip!vars)
  PROVE  Zip!IInv'
<1> USE ConstantsAssumption
    DEF ConstantsAssumption, Zip!IInv, Zip!TypeOK, Zip!CheckedTree, Zip!Tree, Zip!SetTree, Zip!Trees,
        Zip!Copies, Zip!Images, Zip!Fault, Zip!Exit
<1>1. CASE Zip!Start BY <1>1 DEF Zip!Start
<1>2. CASE Zip!Mount
  <2>1. mounted' \in BOOLEAN BY <1>2, Zenon DEF Zip!Mount
  <2>2. faults' \in 0 .. MaxZipFaults BY <1>2 DEF Zip!Mount
  <2>3. pc' = "clear" /\ UNCHANGED <<rc, rootfs, inMemory, tarball, image, boot>>
    BY <1>2 DEF Zip!Mount
  <2> QED BY <2>1, <2>2, <2>3
<1>3. CASE Zip!Clear BY <1>3 DEF Zip!Clear
<1>4. CASE Zip!Unzip BY <1>4 DEF Zip!Unzip
<1>5. CASE Zip!Tar BY <1>5 DEF Zip!Tar
<1>6. CASE Zip!Dd BY <1>6 DEF Zip!Dd
<1>7. CASE Zip!Clean BY <1>7 DEF Zip!Clean
<1>8. CASE Zip!Killed BY <1>8 DEF Zip!Killed
<1>9. CASE UNCHANGED Zip!vars BY <1>9 DEF Zip!vars
<1> QED
  BY <1>1, <1>2, <1>3, <1>4, <1>5, <1>6, <1>7, <1>8, <1>9 DEF Zip!Next

-----------------------------------------------------------------------------
(* Setup!: WaydroidSetup.                                                  *)

LEMMA SetupStarts == Setup!Init => Setup!IInv
<1> SUFFICES ASSUME Setup!Init PROVE Setup!IInv OBVIOUS
<1>1. Setup!ImagesKept BY DEF Setup!Init, Setup!ImagesKept
<1>2. container \in BOOLEAN /\ session \in BOOLEAN /\ early \in BOOLEAN
  BY DEF Setup!Init
<1>3. ~session /\ ~installed /\ opc = "idle" BY DEF Setup!Init
<1> QED BY <1>1, <1>2, <1>3 DEF Setup!IInv, Setup!MergedIsNew

LEMMA SetupSteps ==
  ASSUME Setup!IInv, [Setup!Next]_(Setup!vars)
  PROVE  Setup!IInv'
<1> USE DEF Setup!IInv, Setup!ImagesKept, Setup!MergedIsNew, Setup!ivars, Setup!ovars, Setup!svars
<1>1. CASE Setup!BeginInstall BY <1>1 DEF Setup!BeginInstall
<1>2. CASE Setup!FetchAndInstall BY <1>2 DEF Setup!FetchAndInstall
<1>3. CASE Setup!DropHome BY <1>3 DEF Setup!DropHome
<1>4. CASE Setup!RenameKeep BY <1>4 DEF Setup!RenameKeep
<1>5. CASE Setup!EnableOverlays BY <1>5 DEF Setup!EnableOverlays
<1>6. CASE Setup!InstallStops BY <1>6 DEF Setup!InstallStops
<1>7. CASE Setup!BeginOverlay
  <2>1. Setup!ImagesKept' BY <1>7 DEF Setup!BeginOverlay
  <2>2. opc' = "clear" BY <1>7 DEF Setup!BeginOverlay
  <2>3. installed' = installed /\ overlay' = overlay /\ early' = early /\ rw' = rw
    BY <1>7 DEF Setup!BeginOverlay
  <2>4. \/ container' = FALSE /\ session' = FALSE
        \/ container' = container /\ (session' = FALSE \/ session' = session)
    BY <1>7 DEF Setup!BeginOverlay
  <2>5. container' \in BOOLEAN /\ session' \in BOOLEAN /\ (session' => container')
    <3>1. CASE container' = FALSE /\ session' = FALSE BY <3>1
    <3>2. CASE container' = container /\ session' = FALSE BY <3>2
    <3>3. CASE container' = container /\ session' = session BY <3>3
    <3> QED BY <2>4, <3>1, <3>2, <3>3
  <2> QED BY <2>1, <2>2, <2>3, <2>5
<1>8. CASE Setup!ClearMerged BY <1>8 DEF Setup!ClearMerged
<1>9. CASE Setup!Fetch BY <1>9 DEF Setup!Fetch
<1>10. CASE Setup!MoveIntoPlace BY <1>10 DEF Setup!MoveIntoPlace
<1>11. CASE Setup!OverlayStops BY <1>11 DEF Setup!OverlayStops
<1>12. CASE Setup!StartContainer BY <1>12 DEF Setup!StartContainer
<1>13. CASE Setup!StartSession BY <1>13 DEF Setup!StartSession
<1>14. CASE Setup!StopSession BY <1>14 DEF Setup!StopSession
<1>15. CASE Setup!RemoveFromOverlay BY <1>15 DEF Setup!RemoveFromOverlay
<1>16. CASE UNCHANGED Setup!vars BY <1>16 DEF Setup!vars
<1> QED
  BY <1>1, <1>2, <1>3, <1>4, <1>5, <1>6, <1>7, <1>8, <1>9, <1>10, <1>11, <1>12, <1>13, <1>14, <1>15, <1>16
  DEF Setup!Next

-----------------------------------------------------------------------------
(* Shell!: DevShell.                                                       *)

Lines == {"banner", "echo begin", "echo command", "echo end", "begin", "line", "end"}
\* The four lines before the output.
Typed == <<"echo begin", "echo command", "echo end", "begin">>

\* The elements of a concatenation.
LEMMA Concatenation ==
  ASSUME NEW S, NEW s \in Seq(S), NEW t \in Seq(S)
  PROVE  /\ s \o t \in Seq(S) /\ Len(s \o t) = Len(s) + Len(t)
         /\ \A i \in 1 .. Len(s) : (s \o t)[i] = s[i]
         /\ \A j \in 1 .. Len(t) : (s \o t)[Len(s) + j] = t[j]
  OBVIOUS

\* What the handset prints, line by line.
LineAt(i) ==
  IF i <= late THEN "banner"
  ELSE IF i = late + 1 THEN "echo begin"
  ELSE IF i = late + 2 THEN "echo command"
  ELSE IF i = late + 3 THEN "echo end"
  ELSE IF i = late + 4 THEN "begin"
  ELSE IF i <= late + 4 + length THEN "line"
  ELSE "end"

\* Where the markers stand.
LEMMA MarkersAt ==
  ASSUME length \in Nat, late \in 0 .. 1
  PROVE  /\ LineAt(late + 1) = "echo begin" /\ LineAt(late + 2) = "echo command"
         /\ LineAt(late + 3) = "echo end" /\ LineAt(late + 4) = "begin"
         /\ LineAt(late + 5 + length) = "end"
  BY DEF LineAt

\* Stream is that sequence.
LEMMA StreamShape ==
  ASSUME length \in Nat, late \in 0 .. 1
  PROVE  /\ Shell!Stream \in Seq(Lines)
         /\ Len(Shell!Stream) = late + length + 5
         /\ \A i \in 1 .. late + length + 5 : Shell!Stream[i] = LineAt(i)
<1> DEFINE A == [i \in 1 .. late |-> "banner"]
           B == A \o Typed
           C == B \o Shell!Output(length)
<1>1. A \in Seq(Lines) /\ Len(A) = late /\ \A i \in 1 .. late : A[i] = "banner"
  BY DEF Lines
<1>2. Typed \in Seq(Lines) /\ Len(Typed) = 4 /\ Typed[1] = "echo begin" /\ Typed[2] = "echo command"
      /\ Typed[3] = "echo end" /\ Typed[4] = "begin"
  BY DEF Typed, Lines
<1>3. /\ Shell!Output(length) \in Seq(Lines) /\ Len(Shell!Output(length)) = length
      /\ \A i \in 1 .. length : Shell!Output(length)[i] = "line"
  BY DEF Shell!Output, Lines
<1>4. <<"end">> \in Seq(Lines) /\ Len(<<"end">>) = 1 /\ <<"end">>[1] = "end"
  BY DEF Lines
<1>5. Shell!Stream = C \o <<"end">>
  BY DEF Shell!Stream, Typed
<1> HIDE DEF A
<1>6. /\ B \in Seq(Lines) /\ Len(B) = late + 4
      /\ \A i \in 1 .. late : B[i] = "banner"
      /\ B[late + 1] = "echo begin" /\ B[late + 2] = "echo command"
      /\ B[late + 3] = "echo end" /\ B[late + 4] = "begin"
  <2> HIDE DEF A
  <2>0. A \in Seq(Lines) /\ Typed \in Seq(Lines) BY <1>1, <1>2
  <2>1. /\ B \in Seq(Lines) /\ Len(B) = Len(A) + Len(Typed)
        /\ \A i \in 1 .. Len(A) : B[i] = A[i]
        /\ \A j \in 1 .. Len(Typed) : B[Len(A) + j] = Typed[j]
    BY <2>0, Concatenation
  <2> HIDE DEF B
  <2>2. Len(B) = late + 4 BY <1>1, <1>2, <2>1
  <2>3. \A i \in 1 .. late : B[i] = "banner" BY <1>1, <2>1
  <2>4. \A j \in 1 .. 4 : B[late + j] = Typed[j] BY <1>1, <1>2, <2>1
  <2>5. /\ B[late + 1] = Typed[1] /\ B[late + 2] = Typed[2]
        /\ B[late + 3] = Typed[3] /\ B[late + 4] = Typed[4]
    <3> 1 \in 1 .. 4 /\ 2 \in 1 .. 4 /\ 3 \in 1 .. 4 /\ 4 \in 1 .. 4 OBVIOUS
    <3> QED BY <2>4
  <2> QED BY <1>2, <2>1, <2>2, <2>3, <2>5
<1> HIDE DEF A, B
<1>7. /\ C \in Seq(Lines) /\ Len(C) = late + length + 4
      /\ \A i \in 1 .. late + 4 : C[i] = B[i]
      /\ \A i \in late + 5 .. late + length + 4 : C[i] = "line"
  <2> DEFINE O == Shell!Output(length)
  <2> HIDE DEF O
  <2>0. B \in Seq(Lines) /\ O \in Seq(Lines) BY <1>3, <1>6 DEF O
  <2>1. /\ C \in Seq(Lines) /\ Len(C) = Len(B) + Len(O)
        /\ \A i \in 1 .. Len(B) : C[i] = B[i]
        /\ \A j \in 1 .. Len(O) : C[Len(B) + j] = O[j]
    BY <2>0, Concatenation DEF O
  <2>2. ASSUME NEW i \in late + 5 .. late + length + 4 PROVE C[i] = "line"
    <3>1. PICK j \in 1 .. length : i = late + 4 + j
      <4> WITNESS i - (late + 4) \in 1 .. length
      <4> QED OBVIOUS
    <3> QED BY <2>1, <3>1, <1>3, <1>6 DEF O
  <2> HIDE DEF C
  <2>3. Len(O) = length /\ Len(B) = late + 4 BY <1>3, <1>6 DEF O
  <2>4. Len(C) = late + length + 4 BY <2>1, <2>3
  <2> QED BY <2>1, <2>2, <2>3, <2>4
<1> HIDE DEF C
<1>8. /\ Shell!Stream \in Seq(Lines) /\ Len(Shell!Stream) = Len(C) + 1
      /\ \A i \in 1 .. Len(C) : Shell!Stream[i] = C[i]
      /\ Shell!Stream[Len(C) + 1] = "end"
  BY <1>4, <1>5, <1>7, ConcatProperties
<1>9. ASSUME NEW i \in 1 .. late + length + 5 PROVE Shell!Stream[i] = LineAt(i)
  <2>1. CASE i \in 1 .. late + 4
    <3>1. Shell!Stream[i] = B[i] BY <2>1, <1>7, <1>8
    <3>2. \/ i \in 1 .. late \/ i = late + 1 \/ i = late + 2 \/ i = late + 3 \/ i = late + 4
      BY <2>1
    <3>3. CASE i \in 1 .. late
      <4>1. LineAt(i) = "banner" BY <3>3 DEF LineAt
      <4> QED BY <3>1, <3>3, <4>1, <1>6
    <3>4. CASE i = late + 1 \/ i = late + 2 \/ i = late + 3 \/ i = late + 4
      BY <3>1, <3>4, <1>6, MarkersAt
    <3> QED BY <3>2, <3>3, <3>4
  <2>2. CASE i \in late + 5 .. late + length + 4
    <3>1. Shell!Stream[i] = "line" BY <2>2, <1>7, <1>8
    <3> QED BY <2>2, <3>1 DEF LineAt
  <2>3. CASE i = late + length + 5
    <3>1. Shell!Stream[i] = "end" BY <2>3, <1>7, <1>8
    <3> QED BY <2>3, <3>1 DEF LineAt
  <2> QED BY <2>1, <2>2, <2>3
<1> QED BY <1>7, <1>8, <1>9

\* The last of the lines of m, where there is one and where there is none.
LEMMA LastOfIs ==
  ASSUME NEW s, Len(s) \in Nat, NEW m, NEW k \in 0 .. Len(s),
         k # 0 => s[k] \in m,
         \A i \in k + 1 .. Len(s) : s[i] \notin m
  PROVE  Shell!LastOf(s, m) = k
<1> DEFINE S == {0} \union {i \in 1 .. Len(s) : s[i] \in m}
<1>1. k \in S /\ \A y \in S : k >= y OBVIOUS
<1>2. \A x \in S : x \in Int OBVIOUS
<1>3. \A x \in S : (\A y \in S : x >= y) => x = k BY <1>1, <1>2
<1>4. Max(S) = k BY <1>1, <1>3 DEF Max
<1> QED BY <1>4 DEF Shell!LastOf, Max, Shell!Max

\* A part of a sequence.
LEMMA Part ==
  ASSUME NEW S, NEW q \in Seq(S), NEW m \in Nat \ {0}, NEW n \in Nat,
         m <= n + 1, n <= Len(q)
  PROVE  /\ SubSeq(q, m, n) \in Seq(S)
         /\ Len(SubSeq(q, m, n)) = n - m + 1
         /\ \A i \in 1 .. n - m + 1 : SubSeq(q, m, n)[i] = q[m + i - 1]
  OBVIOUS

\* run() takes for the end marker the one the shell prints last, never an
\* echo: of the lines before it the one that has it is the echo behind which
\* run() looks.
LEMMA EndIsTheLast ==
  ASSUME length \in Nat, late \in 0 .. 1, NEW r \in 0 .. Len(Shell!Stream),
         Shell!EndArrived(SubSeq(Shell!Stream, 1, r))
  PROVE  r = Len(Shell!Stream)
<1> DEFINE q == Shell!Stream
           s == SubSeq(q, 1, r)
           k == IF r >= late + 3 THEN late + 3 ELSE 0
           t == SubSeq(s, k + 1, r)
<1> SUFFICES ASSUME r # late + length + 5 PROVE FALSE
  BY StreamShape
<1>1. r \in 0 .. late + length + 4 /\ q \in Seq(Lines) /\ r <= Len(q)
  BY StreamShape
<1>0. \A i \in 1 .. late + length + 5 : q[i] = LineAt(i) BY StreamShape
<1> HIDE DEF q
<1>2. s \in Seq(Lines) /\ Len(s) = r /\ \A i \in 1 .. r : s[i] = q[i]
  BY <1>1, Part
<1> HIDE DEF s
<1>3. Shell!LastOf(s, {"echo end"}) = k
  <2>1. k \in 0 .. Len(s) BY <1>1, <1>2
  <2>2. k # 0 => s[k] \in {"echo end"}
    <3> SUFFICES ASSUME k # 0 PROVE s[k] = "echo end" OBVIOUS
    <3>1. k = late + 3 /\ k \in 1 .. r BY <1>1
    <3>2. s[k] = LineAt(k) BY <1>1, <1>2, <3>1, <1>0
    <3> QED BY <3>1, <3>2, MarkersAt
  <2>3. \A i \in k + 1 .. Len(s) : s[i] \notin {"echo end"}
    <3> TAKE i \in k + 1 .. Len(s)
    <3>1. i \in 1 .. r /\ i # late + 3 BY <1>1, <1>2
    <3>2. s[i] = LineAt(i) BY <1>1, <1>2, <3>1, <1>0
    <3> QED BY <3>1, <3>2 DEF LineAt
  <2>4. Len(s) \in Nat BY <1>1, <1>2
  <2> HIDE DEF k
  <2> QED BY <2>1, <2>2, <2>3, <2>4, LastOfIs
<1>4. k \in 0 .. r /\ (k = late + 3 \/ (k = 0 /\ r < late + 3)) BY <1>1
<1> HIDE DEF k
<1>5. Len(t) = r - k /\ \A i \in 1 .. r - k : t[i] = s[k + i]
  BY <1>1, <1>2, <1>4, Part
<1> HIDE DEF t
<1>6. \A i \in 1 .. r - k : t[i] \notin Shell!HasEnd
  <2> TAKE i \in 1 .. r - k
  <2>1. k + i \in 1 .. r /\ t[i] = q[k + i]
    <3>1. k + i \in 1 .. r BY <1>1, <1>4
    <3> QED BY <3>1, <1>2, <1>5
  <2>2. q[k + i] = LineAt(k + i) BY <1>0, <1>1, <1>4, <2>1
  <2>3. k + i < late + length + 5 /\ k + i # late + 3 BY <1>1, <1>4, <2>1
  <2>4. LineAt(k + i) \notin {"end", "echo end"} BY <1>4, <2>3 DEF LineAt
  <2> QED BY <2>1, <2>2, <2>4 DEF Shell!HasEnd
<1>7. Shell!LastOf(t, Shell!HasEnd) = 0
  <2>1. Len(t) \in Nat /\ 0 \in 0 .. Len(t) BY <1>1, <1>4, <1>5
  <2>2. \A i \in 0 + 1 .. Len(t) : t[i] \notin Shell!HasEnd BY <1>5, <1>6
  <2> QED BY <2>1, <2>2, LastOfIs
<1> QED BY <1>2, <1>3, <1>7 DEF Shell!EndArrived, Shell!After, s, t, q

\* The instance's Cardinality is the library's.
LEMMA CardinalityIsOne == \A S : Shell!Cardinality(S) = Cardinality(S)
  BY Zenon DEF Shell!Cardinality, Cardinality

\* When all has come, what is cut out is what the command printed.
LEMMA AllIsTheResult ==
  ASSUME length \in Nat, late \in 0 .. 1, received = Len(Shell!Stream)
  PROVE  Shell!Result = Shell!Output(length)
<1> DEFINE q == Shell!Stream
           k == late + 4
           rest == SubSeq(Shell!out, k + 1, Len(Shell!out))
           body == SubSeq(rest, 1, length)
           markers == Shell!HasBegin \union Shell!HasEnd
<1>1. q \in Seq(Lines) /\ Len(q) = late + length + 5 BY StreamShape
<1>0. \A i \in 1 .. late + length + 5 : q[i] = LineAt(i) BY StreamShape
<1> HIDE DEF q
<1>2. /\ Shell!out \in Seq(Lines) /\ Len(Shell!out) = late + length + 5
      /\ \A i \in 1 .. late + length + 5 : Shell!out[i] = q[i]
  BY <1>1, Part DEF Shell!out, q
<1>3. Shell!LastOf(Shell!out, Shell!HasBegin) = k
  <2>1. k \in 0 .. Len(Shell!out) /\ Len(Shell!out) \in Nat BY <1>2
  <2>2. Shell!out[k] \in Shell!HasBegin
    <3>1. Shell!out[k] = LineAt(k) BY <1>0, <1>2
    <3> QED BY <3>1, MarkersAt DEF Shell!HasBegin
  <2>3. \A i \in k + 1 .. Len(Shell!out) : Shell!out[i] \notin Shell!HasBegin
    <3> TAKE i \in k + 1 .. Len(Shell!out)
    <3>1. i \in 1 .. late + length + 5 /\ i > late + 4 BY <1>2
    <3>2. Shell!out[i] = LineAt(i) BY <1>0, <1>2, <3>1
    <3>3. LineAt(i) \in {"line", "end"} BY <3>1 DEF LineAt
    <3> QED BY <3>2, <3>3 DEF Shell!HasBegin
  <2> HIDE DEF k
  <2> QED BY <2>1, <2>2, <2>3, LastOfIs
<1>4. /\ rest \in Seq(Lines) /\ Len(rest) = length + 1
      /\ \A i \in 1 .. length + 1 : rest[i] = Shell!out[k + i]
  BY <1>2, Part
<1> HIDE DEF rest
<1>5. (\A i \in 1 .. length : rest[i] = "line") /\ rest[length + 1] = "end"
  <2>1. \A i \in 1 .. length + 1 : rest[i] = LineAt(k + i) BY <1>0, <1>2, <1>4
  <2>2. \A i \in 1 .. length : LineAt(k + i) = "line" BY DEF LineAt
  <2>3. LineAt(k + (length + 1)) = "end" BY DEF LineAt
  <2> HIDE DEF k
  <2> QED BY <2>1, <2>2, <2>3
<1>6. Shell!LastOf(rest, Shell!HasEnd) = length + 1
  <2>1. length + 1 \in 0 .. Len(rest) /\ Len(rest) \in Nat BY <1>4
  <2>2. rest[length + 1] \in Shell!HasEnd BY <1>5 DEF Shell!HasEnd
  <2>3. \A i \in length + 1 + 1 .. Len(rest) : rest[i] \notin Shell!HasEnd
    BY <1>4
  <2> QED BY <2>1, <2>2, <2>3, LastOfIs
<1>7. body \in Seq(Lines) /\ Len(body) = length /\ \A i \in 1 .. length : body[i] = "line"
  BY <1>4, <1>5, Part
<1> HIDE DEF body
<1>8. Shell!Without(body, markers) = Shell!Output(length)
  <2> DEFINE kept == {i \in DOMAIN body : body[i] \notin markers}
  <2>0. "line" \notin markers BY DEF Shell!HasBegin, Shell!HasEnd
  <2> HIDE DEF markers
  <2>1. kept = 1 .. length BY <1>7, <2>0
  <2>2. \A i \in 0 .. length : Cardinality(1 .. i) = i BY FS_Interval
  <2>3. \A i \in kept : Cardinality({j \in kept : j <= i}) = i
    <3> TAKE i \in kept
    <3>1. {j \in kept : j <= i} = 1 .. i BY <2>1
    <3>2. i \in 0 .. length BY <2>1
    <3>3. Cardinality(1 .. i) = i BY <2>2, <3>2
    <3> QED BY <3>1, <3>3, Zenon
  <2>4. Cardinality(kept) = length
    <3>1. Cardinality(1 .. length) = length BY <2>2
    <3> QED BY <2>1, <3>1
  <2> HIDE DEF kept
  <2>5. \A n \in 1 .. length :
          body[CHOOSE i \in kept : Cardinality({j \in kept : j <= i}) = n] = "line"
    <3> TAKE n \in 1 .. length
    <3>1. (CHOOSE i \in kept : Cardinality({j \in kept : j <= i}) = n) \in kept
      BY <2>1, <2>3
    <3> QED BY <1>7, <2>1, <3>1
  <2> QED BY <2>4, <2>5, CardinalityIsOne DEF kept, markers, Shell!Without, Shell!Output
<1>9. Shell!Result = Shell!Without(body, markers)
  BY <1>3, <1>6 DEF Shell!Result, Shell!After, rest, body
<1> QED BY <1>8, <1>9

LEMMA ShellStarts == Shell!Init => Shell!IInv
<1> SUFFICES ASSUME Shell!Init PROVE Shell!IInv OBVIOUS
<1>1. length \in Nat /\ late \in 0 .. 1
  BY ConstantsAssumption DEF ConstantsAssumption, Shell!Init
<1>2. Len(Shell!Stream) \in Nat BY <1>1, StreamShape
<1> QED BY <1>2 DEF Shell!Init, Shell!IInv, Shell!TypeOK, Shell!EndIsAll

LEMMA ShellSteps ==
  ASSUME Shell!IInv, [Shell!Next]_(Shell!vars)
  PROVE  Shell!IInv'
<1>1. length \in Nat /\ late \in 0 .. 1
  BY ConstantsAssumption DEF ConstantsAssumption, Shell!IInv, Shell!TypeOK
<1>2. Len(Shell!Stream) \in Nat BY <1>1, StreamShape
<1>3. UNCHANGED <<length, late>>
  BY DEF Shell!Next, Shell!vars, Shell!Send, Shell!Receive, Shell!Silence, Shell!GiveUp
<1>4. Shell!Stream' = Shell!Stream BY <1>3 DEF Shell!Stream, Shell!Output
<1> USE DEF Shell!IInv, Shell!TypeOK, Shell!EndIsAll
<1>5. CASE Shell!Send BY <1>2, <1>4, <1>5 DEF Shell!Send
<1>6. CASE Shell!Receive
  <2>1. received' \in 0 .. Len(Shell!Stream) /\ received' <= sent BY <1>2, <1>6 DEF Shell!Receive
  <2>2. Shell!EndArrived(SubSeq(Shell!Stream, 1, received')) => received' = Len(Shell!Stream)
    BY <1>1, <2>1, EndIsTheLast
  <2>3. why' = IF Shell!EndArrived(SubSeq(Shell!Stream, 1, received')) THEN "end" ELSE "reading"
    BY <1>6 DEF Shell!Receive
  <2> HIDE DEF Shell!EndArrived
  <2> QED BY <1>2, <1>3, <1>4, <1>6, <2>1, <2>2, <2>3 DEF Shell!Receive
<1>7. CASE Shell!Silence BY <1>4, <1>7 DEF Shell!Silence
<1>8. CASE Shell!GiveUp BY <1>4, <1>8 DEF Shell!GiveUp
<1>9. CASE UNCHANGED Shell!vars BY <1>4, <1>9 DEF Shell!vars
<1> QED BY <1>5, <1>6, <1>7, <1>8, <1>9 DEF Shell!Next

-----------------------------------------------------------------------------
(* The programs together.                                                  *)

IInv ==
  /\ running = "build" => Build!IInv
  /\ running = "build by hand" => ByHand!BootIInv
  /\ running = "zip" => Zip!IInv
  /\ running = "setup" => Setup!IInv
  /\ running = "shell" => Shell!IInv

\* Every reachable state satisfies the invariant of the program that runs.
THEOREM Invariance == Spec => []IInv
<1>1. Init => IInv
  BY CleanStarts, ByHandBootStarts, ZipStarts, SetupStarts, ShellStarts DEF Init, IInv
<1>2. IInv /\ [Next]_vars => IInv'
  <2> SUFFICES ASSUME IInv, [Next]_vars PROVE IInv'
    OBVIOUS
  <2>1. running = "build" => Build!IInv' BY OwnSteps, CleanSteps DEF IInv
  <2>2. running = "build by hand" => ByHand!BootIInv' BY OwnSteps, ByHandBootSteps DEF IInv
  <2>3. running = "zip" => Zip!IInv' BY OwnSteps, ZipSteps DEF IInv
  <2>4. running = "setup" => Setup!IInv' BY OwnSteps, SetupSteps DEF IInv
  <2>5. running = "shell" => Shell!IInv' BY OwnSteps, ShellSteps DEF IInv
  <2> QED BY <2>1, <2>2, <2>3, <2>4, <2>5, OwnSteps DEF IInv
<1> QED BY <1>1, <1>2, PTL DEF Spec

\* An image is made only of packages that have the modules of the kernel in out/
\* and the clean updater (build-image.sh:31), and the boot image that is served
\* is never older than the rootfs beside it (stage-boot-img.sh:18), over any
\* number of kernel revisions, by hand and with failures too.
THEOREM ImageBelongs == Spec => []ImageIsFromThisBuild
<1>1. IInv => ImageIsFromThisBuild
  BY DEF IInv, ImageIsFromThisBuild, Build!IInv, Build!BootIInv, Build!CleanIsPackaged,
         Build!ImageIsFromThisBuild, ByHand!BootIInv, Build!BootNotOlder, ByHand!BootNotOlder
<1> QED BY <1>1, Invariance, PTL

\* update-binary implements InstallOrder: the boot partition is written only
\* over a tree that was extracted whole, and never together with it.
THEOREM OrderIsKept == Spec => OrderSpec
<1>1. Init => (running = "zip" => Zip!Order!Init)
  BY DEF Init, Zip!Init, Zip!Order!Init, Zip!Tree, Zip!Trees, Zip!Images
<1>2. IInv /\ IInv' /\ [Next]_vars => [running = "zip" => [Zip!Order!Next]_(Zip!Order!ivars)]_vars
  <2> SUFFICES ASSUME IInv, IInv', [Next]_vars, running = "zip"
               PROVE  Zip!Order!Next \/ UNCHANGED Zip!Order!ivars
    OBVIOUS
  <2>1. Zip!IInv /\ Zip!IInv' BY OwnSteps DEF IInv
  <2>2. [Zip!Next]_(Zip!vars) BY OwnSteps
  <2>3. CASE UNCHANGED boot
    <3>1. Zip!Order!Replace BY <2>1, <2>3 DEF Zip!IInv, Zip!TypeOK, Zip!Tree, Zip!Order!Replace
    <3> QED BY <3>1 DEF Zip!Order!Next
  <2>4. CASE Zip!Dd
    <3>1. Zip!Order!Write
      BY <2>1, <2>4 DEF Zip!Dd, Zip!IInv, Zip!TypeOK, Zip!CheckedTree, Zip!Tree, Zip!Order!Write
    <3> QED BY <3>1 DEF Zip!Order!Next
  <2>5. UNCHANGED boot \/ Zip!Dd
    BY <2>2 DEF Zip!Next, Zip!vars, Zip!Start, Zip!Mount, Zip!Clear, Zip!Unzip, Zip!Tar, Zip!Clean,
                Zip!Killed
  <2> QED BY <2>3, <2>4, <2>5
<1> QED BY <1>1, <1>2, Invariance, PTL DEF Spec, OrderSpec

\* When run() stops at the end marker, it returns all the command printed and
\* nothing else (devshell.py:38), however long the output and however it was cut.
THEOREM EndIsAllPrinted == Spec => []EndMeansAll
<1>1. IInv => EndMeansAll
  <2> SUFFICES ASSUME Shell!IInv, why = "end" PROVE Shell!Result = Shell!Output(length)
    BY DEF IInv, EndMeansAll, Shell!EndMeansAll
  <2>1. length \in Nat /\ late \in 0 .. 1 /\ received = Len(Shell!Stream)
    BY ConstantsAssumption DEF ConstantsAssumption, Shell!IInv, Shell!TypeOK, Shell!EndIsAll
  <2> QED BY <2>1, AllIsTheResult
<1> QED BY <1>1, Invariance, PTL

\* A first run of install.sh never loses the preserved images (install.sh:45).
THEOREM ImagesAreKept == Spec => []FirstRunKeepsImages
<1>1. IInv => FirstRunKeepsImages
  BY DEF IInv, FirstRunKeepsImages, Setup!IInv, Setup!ImagesKept, Setup!FirstRunKeepsImages
<1> QED BY <1>1, Invariance, PTL

\* A library that was installed whole is the one the next session runs with,
\* also when the old session could not be stopped, unless one merged the old
\* library while it was being installed (install-hwc-overlay.sh:22-39).
THEOREM NewLibraryIsTaken == Spec => InstalledIsTaken
<1>1. IInv /\ [Next]_vars =>
        [running = "setup" /\ installed /\ overlaysOn /\ ~session /\ session' /\ ~early => lib' = "new"]_vars
  <2> SUFFICES ASSUME IInv, [Next]_vars, running = "setup", installed, overlaysOn, ~session, session', ~early
               PROVE  lib' = "new"
    OBVIOUS
  <2>1. Setup!StartSession
    BY OwnSteps
    DEF Setup!Next, Setup!vars, Setup!BeginInstall, Setup!FetchAndInstall, Setup!DropHome,
        Setup!RenameKeep, Setup!EnableOverlays, Setup!InstallStops, Setup!BeginOverlay,
        Setup!ClearMerged, Setup!Fetch, Setup!MoveIntoPlace, Setup!OverlayStops,
        Setup!StartContainer, Setup!StopSession, Setup!RemoveFromOverlay, Setup!svars
  <2> QED BY <2>1 DEF Setup!StartSession, IInv, Setup!IInv, Setup!MergedIsNew
<1> QED BY <1>1, Invariance, PTL DEF Spec, InstalledIsTaken
=============================================================================
