----------------------------- MODULE LosRecovery ----------------------------
(***************************************************************************)
(* scripts/build-los-recovery.sh: every project that a hybris patch series *)
(* touches is parked at the revision the manifest pins, the recovery and   *)
(* the updater are built and archived, and the recorded heads are put back *)
(* by an EXIT trap.                                                        *)
(*                                                                         *)
(* The projects are visited in the order of a sorted list; here the next   *)
(* project is any one still to do.  git refuses a checkout only in a       *)
(* project with local changes, and then not always.  A run can be          *)
(* interrupted (bash runs the EXIT trap) or killed (it does not), any      *)
(* number of runs follow one another, and between runs the developer       *)
(* works on the tree.                                                      *)
(***************************************************************************)
EXTENDS Integers, FiniteSets, TLAPS

CONSTANTS
  Projects,     \* the directories named by the two patch series
  Commits,      \* revisions a head can be at
  MRef,         \* the revision the manifest pins
  NoSha,        \* no line for the project in the state file
  Disciplined,  \* TRUE: no run is started while a state file is left over
  MaxKills,     \* bound on runs that die without their EXIT trap
  MaxEdits      \* bound on local changes and commits made by the developer

ASSUME ConstantsAssumption ==
  /\ MRef \in Commits
  /\ NoSha \notin Commits
  /\ Disciplined \in BOOLEAN
  /\ MaxKills \in Nat /\ MaxEdits \in Nat

VARIABLES
  head,       \* [Projects -> Commits]: what each project has checked out
  dirty,      \* projects with uncommitted changes to tracked files
  stateFile,  \* $STATE: the recorded head of each project, or NoSha
  pc,         \* where the run is
  todo,       \* projects the loop at pc has still to visit
  rc,         \* exit status of the last command before the trap, then of the run
  failed,     \* restore(): a checkout was refused
  out,        \* the artefacts in out-recovery
  archive,    \* the pair in the archive: [img, updater]
  own,        \* history: the head the developer left in each project
  kills, edits

git    == <<head, dirty, own>>
bounds == <<kills, edits>>
vars   == <<head, dirty, stateFile, pc, todo, rc, failed, out, archive, own,
            kills, edits>>

\* What an artefact was built from.
Build == {"none", "parked", "patched"}

\* Where the run is; "trap" onwards the EXIT trap is armed.
BeforeTrap == {"preflight", "truncate", "record"}
UnderTrap  == {"park", "build", "image", "updater"}
Running    == BeforeTrap \union UnderTrap \union {"restore"}

Recorded == {p \in Projects : stateFile[p] # NoSha}

TypeOK ==
  /\ head \in [Projects -> Commits]
  /\ own \in [Projects -> Commits]
  /\ dirty \in SUBSET Projects
  /\ stateFile \in [Projects -> Commits \union {NoSha}]
  /\ pc \in Running \union {"idle"}
  /\ todo \in SUBSET Projects
  /\ rc \in {0, 1}
  /\ failed \in {0, 1}
  /\ out \in Build
  /\ archive \in [img : Build, updater : Build]
  /\ kills \in 0 .. MaxKills
  /\ edits \in 0 .. MaxEdits

Init ==
  /\ own \in [Projects -> Commits]
  /\ head = own
  /\ dirty = {}
  /\ stateFile = [p \in Projects |-> NoSha]
  /\ pc = "idle"
  /\ todo = {}
  /\ rc = 0
  /\ failed = 0
  /\ out = "none"
  /\ archive = [img |-> "none", updater |-> "none"]
  /\ kills = 0
  /\ edits = 0

-----------------------------------------------------------------------------
(* The run up to the trap: nothing is touched.                             *)

\* The script is started.  It never looks at a state file left over.
Start ==
  /\ pc = "idle"
  /\ Disciplined => Recorded = {}
  /\ pc' = "preflight"
  /\ todo' = Projects
  /\ rc' = 0
  /\ failed' = 0
  /\ UNCHANGED <<git, stateFile, out, archive, bounds>>

\* exit before the trap is armed: no restore.
ExitBeforeTrap ==
  /\ pc' = "idle"
  /\ rc' = 1
  /\ todo' = {}
  /\ UNCHANGED <<git, stateFile, failed, out, archive, bounds>>

Preflight(p) ==
  /\ pc = "preflight" /\ p \in todo
  /\ p \notin dirty
  /\ todo' = todo \ {p}
  /\ UNCHANGED <<git, stateFile, pc, rc, failed, out, archive, bounds>>

\* p has local changes, or is no checkout, or lacks the manifest's revision.
PreflightRefuses(p) ==
  /\ pc = "preflight" /\ p \in todo
  /\ ExitBeforeTrap

\* ": > $STATE"
Truncate ==
  /\ pc = "preflight" /\ todo = {}
  /\ stateFile' = [p \in Projects |-> NoSha]
  /\ pc' = "record"
  /\ todo' = Projects
  /\ UNCHANGED <<git, rc, failed, out, archive, bounds>>

Record(p) ==
  /\ pc = "record" /\ p \in todo
  /\ stateFile' = [stateFile EXCEPT ![p] = head[p]]
  /\ todo' = todo \ {p}
  /\ UNCHANGED <<git, pc, rc, failed, out, archive, bounds>>

ArmTrap ==
  /\ pc = "record" /\ todo = {}
  /\ pc' = "park"
  /\ todo' = Projects
  /\ UNCHANGED <<git, stateFile, rc, failed, out, archive, bounds>>

-----------------------------------------------------------------------------
(* The run under the trap.                                                 *)

\* The shell exits with status s: the EXIT trap starts to restore.
EnterTrap(s) ==
  /\ pc' = "restore"
  /\ rc' = s
  /\ todo' = Recorded
  /\ UNCHANGED <<git, stateFile, failed, bounds>>

Park(p) ==
  /\ pc = "park" /\ p \in todo
  /\ head' = [head EXCEPT ![p] = MRef]
  /\ todo' = todo \ {p}
  /\ UNCHANGED <<dirty, own, stateFile, pc, rc, failed, out, archive, bounds>>

\* Faulty variant: no "set -e", a refused checkout is passed over.
ParkRefusalIgnored(p) ==
  /\ pc = "park" /\ p \in todo
  /\ p \in dirty
  /\ todo' = todo \ {p}
  /\ UNCHANGED <<git, stateFile, pc, rc, failed, out, archive, bounds>>

ParkRefused(p) ==
  /\ pc = "park" /\ p \in todo
  /\ p \in dirty
  /\ EnterTrap(1)
  /\ UNCHANGED <<out, archive>>

\* habuild build-recoveryimage.sh, both artefacts from the tree as it is.
BuildImage ==
  /\ pc = "park" /\ todo = {}
  /\ out' = IF \A p \in Projects : head[p] = MRef THEN "parked" ELSE "patched"
  /\ pc' = "image"
  /\ UNCHANGED <<git, stateFile, todo, rc, failed, archive, bounds>>

BuildFails ==
  /\ pc = "park" /\ todo = {}
  /\ EnterTrap(1)
  /\ UNCHANGED <<out, archive>>

\* Both artefacts exist; recovery.img is copied first.
ArchiveImage ==
  /\ pc = "image"
  /\ archive' = [archive EXCEPT !.img = out]
  /\ pc' = "updater"
  /\ UNCHANGED <<git, stateFile, todo, rc, failed, out, bounds>>

ArchiveUpdater ==
  /\ pc = "updater"
  /\ archive' = [archive EXCEPT !.updater = out]
  /\ EnterTrap(0)
  /\ UNCHANGED out

\* A missing artefact, or a copy that fails.
ArchiveFails ==
  /\ pc \in {"image", "updater"}
  /\ EnterTrap(1)
  /\ UNCHANGED <<out, archive>>

-----------------------------------------------------------------------------
(* restore(), which runs as the EXIT trap.                                 *)

RestoreSkips(p) ==
  /\ pc = "restore" /\ p \in todo
  /\ head[p] = stateFile[p]
  /\ todo' = todo \ {p}
  /\ UNCHANGED <<git, stateFile, pc, rc, failed, out, archive, bounds>>

RestoreOne(p) ==
  /\ pc = "restore" /\ p \in todo
  /\ head[p] # stateFile[p]
  /\ head' = [head EXCEPT ![p] = stateFile[p]]
  /\ todo' = todo \ {p}
  /\ UNCHANGED <<dirty, own, stateFile, pc, rc, failed, out, archive, bounds>>

RestoreRefused(p) ==
  /\ pc = "restore" /\ p \in todo
  /\ head[p] # stateFile[p] /\ p \in dirty
  /\ failed' = 1
  /\ todo' = todo \ {p}
  /\ UNCHANGED <<git, stateFile, pc, rc, out, archive, bounds>>

\* Faulty variant: the record is removed whatever happened.
RestoreDoneForgets ==
  /\ pc = "restore" /\ todo = {}
  /\ stateFile' = [p \in Projects |-> NoSha]
  /\ rc' = IF failed = 0 THEN rc ELSE 1
  /\ pc' = "idle"
  /\ UNCHANGED <<git, todo, failed, out, archive, bounds>>

\* Faulty variant: a refused checkout does not reach the exit status.
RestoreDoneKeepsStatus ==
  /\ pc = "restore" /\ todo = {}
  /\ stateFile' = IF failed = 0 THEN [p \in Projects |-> NoSha] ELSE stateFile
  /\ pc' = "idle"
  /\ UNCHANGED <<git, todo, rc, failed, out, archive, bounds>>

\* The record goes only if every project is back; the run's status is that
\* of the command that ended it, or 1 if the tree is left partly parked.
RestoreDone ==
  /\ pc = "restore" /\ todo = {}
  /\ IF failed = 0
       THEN stateFile' = [p \in Projects |-> NoSha] /\ UNCHANGED rc
       ELSE rc' = 1 /\ UNCHANGED stateFile
  /\ pc' = "idle"
  /\ UNCHANGED <<git, todo, failed, out, archive, bounds>>

-----------------------------------------------------------------------------
(* What the script does not control.                                       *)

\* Faulty variant: a shell that skips the EXIT trap when a signal ends it.
InterruptWithoutTrap == pc \in BeforeTrap \union UnderTrap /\ ExitBeforeTrap

\* SIGINT, SIGTERM or SIGHUP: bash runs the EXIT trap, if it is armed.
Interrupt ==
  \/ pc \in BeforeTrap /\ ExitBeforeTrap
  \/ pc \in UnderTrap /\ EnterTrap(1) /\ UNCHANGED <<out, archive>>

\* SIGKILL, a lost terminal in the middle of restore(), or a power cut.
Kill ==
  /\ pc # "idle" /\ kills < MaxKills
  /\ kills' = kills + 1
  /\ pc' = "idle"
  /\ rc' = 1
  /\ todo' = {}
  /\ UNCHANGED <<git, stateFile, failed, out, archive, edits>>

\* Local changes appear at any time: the developer's, or the build's own.
Edit(p) ==
  /\ edits < MaxEdits
  /\ edits' = edits + 1
  /\ dirty' = dirty \union {p}
  /\ UNCHANGED <<head, own, stateFile, pc, todo, rc, failed, out, archive, kills>>

\* Between runs the developer drops the changes, or commits and moves on.
Discard(p) ==
  /\ pc = "idle" /\ p \in dirty
  /\ dirty' = dirty \ {p}
  /\ UNCHANGED <<head, own, stateFile, pc, todo, rc, failed, out, archive, bounds>>

Commit(p, c) ==
  /\ pc = "idle" /\ Recorded = {} /\ edits < MaxEdits
  /\ edits' = edits + 1
  /\ head' = [head EXCEPT ![p] = c]
  /\ own' = [own EXCEPT ![p] = c]
  /\ UNCHANGED <<dirty, stateFile, pc, todo, rc, failed, out, archive, kills>>

\* "heads are in $STATE": the operator checks out what the file records.
RestoreByHand(p) ==
  /\ pc = "idle" /\ p \in Recorded /\ p \notin dirty
  /\ head' = [head EXCEPT ![p] = stateFile[p]]
  /\ UNCHANGED <<dirty, own, stateFile, pc, todo, rc, failed, out, archive, bounds>>

\* The file is removed once every head it records is checked out again.
RemoveByHand ==
  /\ pc = "idle" /\ Recorded # {}
  /\ \A p \in Recorded : head[p] = stateFile[p]
  /\ stateFile' = [p \in Projects |-> NoSha]
  /\ UNCHANGED <<git, pc, todo, rc, failed, out, archive, bounds>>

-----------------------------------------------------------------------------
ScriptStep ==
  \/ Truncate \/ ArmTrap \/ BuildImage \/ BuildFails
  \/ ArchiveImage \/ ArchiveUpdater \/ ArchiveFails \/ RestoreDone
  \/ \E p \in Projects :
       \/ Preflight(p) \/ PreflightRefuses(p) \/ Record(p)
       \/ Park(p) \/ ParkRefused(p)
       \/ RestoreSkips(p) \/ RestoreOne(p) \/ RestoreRefused(p)

Environment ==
  \/ Start \/ Interrupt \/ Kill \/ RemoveByHand
  \/ \E p \in Projects :
       \/ Edit(p) \/ Discard(p) \/ RestoreByHand(p)
       \/ \E c \in Commits : Commit(p, c)

Next == ScriptStep \/ Environment

Spec == Init /\ [][Next]_vars

\* A run that is not killed goes on to its next command; nobody has to start
\* one, edit, interrupt or kill.
FairSpec == Spec /\ WF_vars(ScriptStep)

-----------------------------------------------------------------------------
(* Properties.                                                             *)

Home == \A p \in Projects : head[p] = own[p]

\* The patched heads are never lost: at every instant of a run, and after
\* any death of it, each project is either where the developer left it or
\* has that very commit on record (lines 25, 64-67, 72-74).
Recoverable ==
  \A p \in Projects : head[p] = own[p] \/ stateFile[p] = own[p]

\* A run that reports success has put every project back, whatever failed
\* on the way (restore()'s return value, lines 26-48).
SuccessMeansHome == pc = "idle" /\ rc = 0 => Home

\* Neither half of the archived pair is ever built from a tree in which some
\* project still carries a patch series (lines 4-6, 72-89).
ArchivedFromParkedTree ==
  /\ archive.img # "patched"
  /\ archive.updater # "patched"

\* "No exit path may leave the tree parked" (line 69): once the trap is
\* armed, a run that is not killed ends with the tree home; where git
\* refused a checkout it ends in failure, with the record kept (line 44).
RunBringsTreeHome ==
  pc \in UnderTrap ~>
    \/ pc = "idle" /\ failed = 0 /\ Home /\ Recorded = {}
    \/ pc = "idle" /\ failed = 1 /\ rc # 0 /\ Recorded = Projects
    \/ kills > 0

\* The run keeps the promise of ParkedTree: away only while on record.
Parked == INSTANCE ParkedTree WITH
  away     <- {p \in Projects : head[p] # own[p]},
  onRecord <- {p \in Projects : stateFile[p] = own[p]}

ParkedSpec == Parked!Spec

-----------------------------------------------------------------------------
(* The inductive invariant behind Recoverable and its companions.          *)

\* A line of the state file is never about another commit than the one the
\* developer left.
RecordIsTrue == \A p \in Projects : stateFile[p] \in {NoSha, own[p]}

HomeBeforeTrap == pc \in BeforeTrap => Home

RecordGrows ==
  pc = "record" => \A p \in Projects \ todo : stateFile[p] = own[p]

RecordComplete ==
  pc \in UnderTrap \union {"restore"} =>
    \A p \in Projects : stateFile[p] = own[p]

ParkProgress ==
  pc = "park" => \A p \in Projects \ todo : head[p] = MRef

BuiltFromParkedTree == pc \in {"image", "updater"} => out # "patched"

RestoreProgress ==
  pc = "restore" /\ failed = 0 =>
    \A p \in Projects \ todo : head[p] = own[p]

IInv ==
  /\ TypeOK
  /\ Recoverable
  /\ RecordIsTrue
  /\ HomeBeforeTrap
  /\ RecordGrows
  /\ RecordComplete
  /\ ParkProgress
  /\ BuiltFromParkedTree
  /\ RestoreProgress
  /\ SuccessMeansHome
  /\ ArchivedFromParkedTree

-----------------------------------------------------------------------------
(* The proofs: the safety properties for every set of projects and commits *)
(* and any number of runs, kills and edits, when no run is started over a  *)
(* state file that is left over.                                           *)

USE DEF Recorded, Home, BeforeTrap, UnderTrap, Running, git, bounds

\* The initial tree is home and nothing is recorded.
LEMMA InitHolds == ASSUME ConstantsAssumption PROVE Init => IInv
  BY DEF ConstantsAssumption, Init, IInv, TypeOK, Build, Recoverable, RecordIsTrue,
         HomeBeforeTrap, RecordGrows, RecordComplete, ParkProgress,
         BuiltFromParkedTree, RestoreProgress, SuccessMeansHome,
         ArchivedFromParkedTree

\* Every conjunct of the invariant but TypeOK.
Facts ==
  /\ Recoverable /\ RecordIsTrue /\ HomeBeforeTrap /\ RecordGrows
  /\ RecordComplete /\ ParkProgress /\ BuiltFromParkedTree
  /\ RestoreProgress /\ SuccessMeansHome /\ ArchivedFromParkedTree

\* Each step keeps every variable in its set.
LEMMA TypeKept ==
  ASSUME ConstantsAssumption, TypeOK, RecordComplete, [Next]_vars PROVE TypeOK'
<1> USE ConstantsAssumption DEF ConstantsAssumption, TypeOK, Build
<1>1. CASE Start BY <1>1 DEF Start
<1>2. CASE Interrupt BY <1>2 DEF Interrupt, ExitBeforeTrap, EnterTrap
<1>3. CASE Kill BY <1>3 DEF Kill
<1>4. CASE RemoveByHand BY <1>4 DEF RemoveByHand
<1>5. CASE Truncate BY <1>5 DEF Truncate
<1>6. CASE ArmTrap BY <1>6 DEF ArmTrap
<1>7. CASE BuildImage BY <1>7 DEF BuildImage
<1>8. CASE BuildFails BY <1>8 DEF BuildFails, EnterTrap
<1>9. CASE ArchiveImage BY <1>9 DEF ArchiveImage
<1>10. CASE ArchiveUpdater BY <1>10 DEF ArchiveUpdater, EnterTrap
<1>11. CASE ArchiveFails BY <1>11 DEF ArchiveFails, EnterTrap
<1>12. CASE RestoreDone BY <1>12 DEF RestoreDone
<1>13. ASSUME NEW p \in Projects, Edit(p) \/ Discard(p) \/ RestoreByHand(p)
       PROVE TypeOK'
  BY <1>13 DEF Edit, Discard, RestoreByHand
<1>14. ASSUME NEW p \in Projects, NEW c \in Commits, Commit(p, c) PROVE TypeOK'
  BY <1>14 DEF Commit
<1>15. ASSUME NEW p \in Projects,
              Preflight(p) \/ PreflightRefuses(p) \/ Record(p) \/ Park(p)
       PROVE TypeOK'
  BY <1>15 DEF Preflight, PreflightRefuses, ExitBeforeTrap, Record, Park
<1>16. ASSUME NEW p \in Projects,
              ParkRefused(p) \/ RestoreSkips(p) \/ RestoreRefused(p)
       PROVE TypeOK'
  BY <1>16 DEF ParkRefused, EnterTrap, RestoreSkips, RestoreRefused
<1>17. ASSUME NEW p \in Projects, RestoreOne(p) PROVE TypeOK'
  BY <1>17 DEF RestoreOne, RecordComplete
<1>18. CASE UNCHANGED vars BY <1>18 DEF vars
<1> QED
  BY <1>1, <1>2, <1>3, <1>4, <1>5, <1>6, <1>7, <1>8, <1>9, <1>10, <1>11, <1>12,
     <1>13, <1>14, <1>15, <1>16, <1>17, <1>18 DEF Next, ScriptStep, Environment

\* A commit a project can be at is never the mark of a missing line.
LEMMA OwnIsRecorded ==
  ASSUME ConstantsAssumption, TypeOK, NEW p \in Projects PROVE own[p] # NoSha
  BY DEF ConstantsAssumption, TypeOK

\* Each step keeps the other conjuncts.  They are proved together because a
\* step through the program hands what one of them says to the next.
LEMMA FactsKept ==
  ASSUME ConstantsAssumption, Disciplined, TypeOK, TypeOK', Facts, [Next]_vars
  PROVE  Facts'
<1> USE ConstantsAssumption, OwnIsRecorded
<1> USE DEF Facts, Recoverable, RecordIsTrue, HomeBeforeTrap, RecordGrows,
            RecordComplete, ParkProgress, BuiltFromParkedTree,
            RestoreProgress, SuccessMeansHome, ArchivedFromParkedTree
\* Disciplined: nothing is recorded, so every project is at its own head.
<1>1. CASE Start BY <1>1, Disciplined DEF Start, TypeOK
<1>2. CASE Interrupt
  <2>1. CASE pc \in BeforeTrap /\ ExitBeforeTrap
    BY <2>1 DEF ExitBeforeTrap, TypeOK
  <2>2. CASE pc \in UnderTrap /\ EnterTrap(1)
                /\ UNCHANGED <<out, archive>>
    BY <2>2 DEF EnterTrap, TypeOK
  <2> QED BY <1>2, <2>1, <2>2 DEF Interrupt
<1>3. CASE Kill BY <1>3 DEF Kill, TypeOK
<1>4. CASE RemoveByHand BY <1>4 DEF RemoveByHand, TypeOK
<1>5. CASE Truncate BY <1>5 DEF Truncate, TypeOK
<1>6. CASE ArmTrap BY <1>6 DEF ArmTrap, TypeOK
<1>7. CASE BuildImage BY <1>7 DEF BuildImage, TypeOK
<1>8. CASE BuildFails BY <1>8 DEF BuildFails, EnterTrap, TypeOK
<1>9. CASE ArchiveImage BY <1>9 DEF ArchiveImage, TypeOK
<1>10. CASE ArchiveUpdater BY <1>10 DEF ArchiveUpdater, EnterTrap, TypeOK
<1>11. CASE ArchiveFails BY <1>11 DEF ArchiveFails, EnterTrap, TypeOK
<1>12. CASE RestoreDone
  <2>1. CASE failed = 0 BY <1>12, <2>1 DEF RestoreDone, TypeOK
  <2>2. CASE failed # 0 BY <1>12, <2>2 DEF RestoreDone, TypeOK
  <2> QED BY <2>1, <2>2
<1>13. ASSUME NEW p \in Projects, Edit(p) \/ Discard(p) PROVE Facts'
  BY <1>13 DEF Edit, Discard, TypeOK
<1>14. ASSUME NEW p \in Projects, NEW c \in Commits, Commit(p, c) PROVE Facts'
  BY <1>14 DEF Commit, TypeOK
<1>15. ASSUME NEW p \in Projects, RestoreByHand(p) PROVE Facts'
  BY <1>15 DEF RestoreByHand, TypeOK
<1>16. ASSUME NEW p \in Projects, Preflight(p) \/ PreflightRefuses(p)
       PROVE Facts'
  BY <1>16 DEF Preflight, PreflightRefuses, ExitBeforeTrap, TypeOK
<1>17. ASSUME NEW p \in Projects, Record(p) PROVE Facts'
  BY <1>17 DEF Record, TypeOK
<1>18. ASSUME NEW p \in Projects, Park(p) PROVE Facts'
  BY <1>18 DEF Park, TypeOK
<1>19. ASSUME NEW p \in Projects, ParkRefused(p) PROVE Facts'
  BY <1>19 DEF ParkRefused, EnterTrap, TypeOK
<1>20. ASSUME NEW p \in Projects, RestoreSkips(p) PROVE Facts'
  BY <1>20 DEF RestoreSkips, TypeOK
<1>21. ASSUME NEW p \in Projects, RestoreOne(p) PROVE Facts'
  BY <1>21 DEF RestoreOne, TypeOK
<1>22. ASSUME NEW p \in Projects, RestoreRefused(p) PROVE Facts'
  BY <1>22 DEF RestoreRefused, TypeOK
<1>23. CASE UNCHANGED vars BY <1>23 DEF vars
<1> QED
  BY <1>1, <1>2, <1>3, <1>4, <1>5, <1>6, <1>7, <1>8, <1>9, <1>10, <1>11, <1>12,
     <1>13, <1>14, <1>15, <1>16, <1>17, <1>18, <1>19, <1>20, <1>21, <1>22, <1>23
     DEF Next, ScriptStep, Environment

-----------------------------------------------------------------------------
\* Every reachable state satisfies the inductive invariant.
THEOREM Invariance ==
  ASSUME ConstantsAssumption, Disciplined PROVE Spec => []IInv
<1>1. Init => IInv BY InitHolds
<1>2. IInv /\ [Next]_vars => IInv'
  <2> SUFFICES ASSUME IInv, [Next]_vars PROVE IInv' OBVIOUS
  <2>1. TypeOK /\ Facts BY DEF IInv, Facts
  <2>2. TypeOK' BY <2>1, TypeKept DEF Facts
  <2>3. Facts' BY <2>1, <2>2, FactsKept
  <2> QED BY <2>2, <2>3 DEF IInv, Facts
<1> QED BY <1>1, <1>2, PTL DEF Spec

\* Type correctness of LosRecovery.
THEOREM TypeCorrect ==
  ASSUME ConstantsAssumption, Disciplined PROVE Spec => []TypeOK
<1>1. IInv => TypeOK BY DEF IInv
<1> QED BY <1>1, Invariance, PTL

\* The patched heads are never lost, whatever is refused, interrupted or
\* killed: each project is at the head its developer left, or has it on
\* record (build-los-recovery.sh, lines 25 and 64-74).
THEOREM HeadsAreNeverLost ==
  ASSUME ConstantsAssumption, Disciplined PROVE Spec => []Recoverable
<1>1. IInv => Recoverable BY DEF IInv
<1> QED BY <1>1, Invariance, PTL

\* A run that exits with 0 has left every project where it found it
\* (restore(), lines 26-48).
THEOREM SuccessIsHome ==
  ASSUME ConstantsAssumption, Disciplined PROVE Spec => []SuccessMeansHome
<1>1. IInv => SuccessMeansHome BY DEF IInv
<1> QED BY <1>1, Invariance, PTL

\* What the archive holds was built with every project parked (lines 4-6).
THEOREM ArchiveIsClean ==
  ASSUME ConstantsAssumption, Disciplined PROVE Spec => []ArchivedFromParkedTree
<1>1. IInv => ArchivedFromParkedTree BY DEF IInv
<1> QED BY <1>1, Invariance, PTL
-----------------------------------------------------------------------------
(* The script implements ParkedTree.                                       *)

\* The heads stay: whatever happens to the record is a Rewrite.
LEMMA HeadsStay ==
  ASSUME IInv', UNCHANGED <<head, own>> PROVE Parked!Next
<1>1. Parked!Rewrite BY DEF IInv, Recoverable, Parked!Rewrite
<1> QED BY <1>1 DEF Parked!Next

\* One head moves and the record stays: the project is parked or returns.
LEMMA OneHeadMoves ==
  ASSUME IInv, IInv', NEW p \in Projects, NEW c \in Commits,
         head' = [head EXCEPT ![p] = c], UNCHANGED <<own, stateFile>>
  PROVE  Parked!Next
<1> USE DEF IInv, TypeOK, Recoverable
<1>1. CASE c = own[p]
  <2>1. Parked!Return(p) BY <1>1 DEF Parked!Return
  <2> QED BY <2>1 DEF Parked!Next
<1>2. CASE c # own[p]
  <2>1. stateFile[p] = own[p] BY <1>2
  <2>2. Parked!Park(p) BY <1>2, <2>1 DEF Parked!Park
  <2> QED BY <2>2 DEF Parked!Next
<1> QED BY <1>1, <1>2

\* The developer moves a head only when nothing is recorded: all are home.
LEMMA CommitIsInvisible ==
  ASSUME ConstantsAssumption, IInv, NEW p \in Projects, NEW c \in Commits,
         Commit(p, c)
  PROVE  UNCHANGED Parked!pvars
<1> USE DEF ConstantsAssumption, IInv, TypeOK
<1>1. /\ \A q \in Projects : stateFile[q] = NoSha
      /\ \A q \in Projects : head[q] = own[q]
  BY DEF Commit, Recoverable
<1>2. /\ \A q \in Projects : head'[q] = own'[q]
      /\ \A q \in Projects : stateFile'[q] # own'[q]
  BY <1>1 DEF Commit
<1>3. \A q \in Projects : stateFile[q] # own[q] BY <1>1
<1> QED BY <1>1, <1>2, <1>3 DEF Parked!pvars

\* A project is away from the head its developer left only while that head
\* is on record: the abstract promise of build-los-recovery.sh.
THEOREM LeaseIsKept ==
  ASSUME ConstantsAssumption, Disciplined PROVE Spec => ParkedSpec
<1>1. Init => Parked!Init
  BY DEF ConstantsAssumption, Init, Parked!Init
<1>2. IInv /\ IInv' /\ [Next]_vars => [Parked!Next]_(Parked!pvars)
  <2> SUFFICES ASSUME IInv, IInv', [Next]_vars
               PROVE  Parked!Next \/ UNCHANGED Parked!pvars
    OBVIOUS
  <2>1. CASE UNCHANGED <<head, own>> BY <2>1, HeadsStay
  <2>2. ASSUME NEW p \in Projects, Park(p) PROVE Parked!Next
    <3>1. MRef \in Commits BY DEF ConstantsAssumption
    <3> QED BY <2>2, <3>1, OneHeadMoves DEF Park
  <2>3. ASSUME NEW p \in Projects, RestoreOne(p) \/ RestoreByHand(p)
        PROVE Parked!Next
    <3>1. stateFile[p] \in Commits
      BY <2>3 DEF RestoreOne, RestoreByHand, IInv, TypeOK, RecordComplete
    <3> QED BY <2>3, <3>1, OneHeadMoves DEF RestoreOne, RestoreByHand
  <2>4. ASSUME NEW p \in Projects, NEW c \in Commits, Commit(p, c)
        PROVE UNCHANGED Parked!pvars
    BY <2>4, CommitIsInvisible
  <2>5. \/ UNCHANGED <<head, own>>
        \/ \E p \in Projects : Park(p) \/ RestoreOne(p) \/ RestoreByHand(p)
        \/ \E p \in Projects, c \in Commits : Commit(p, c)
    BY DEF Next, ScriptStep, Environment, vars, Start, Interrupt, Kill,
           RemoveByHand, Truncate, ArmTrap, BuildImage, BuildFails, ArchiveImage,
           ArchiveUpdater, ArchiveFails, RestoreDone, Edit, Discard, Preflight,
           PreflightRefuses, Record, ParkRefused, RestoreSkips, RestoreRefused,
           ExitBeforeTrap, EnterTrap
  <2> QED BY <2>1, <2>2, <2>3, <2>4, <2>5
<1> QED BY <1>1, <1>2, Invariance, PTL DEF Spec, ParkedSpec, Parked!Spec
=============================================================================
