-------------------------- MODULE MCConfigs_proofs ---------------------------
(***************************************************************************)
(* Proofs about the carrier-config scripts, for versions, bytes and items  *)
(* in any number: the invariants and action properties that MCConfigs'     *)
(* run checks, but for the listings' (ReportsDisagreement).                *)
(***************************************************************************)
EXTENDS MCConfigs, FiniteSetTheorems, TLAPS

\* Whatever the system does while a program runs is a step of that program.
LEMMA OwnSteps ==
  ASSUME [Next]_vars
  PROVE  /\ running' = running
         /\ running = "stage" => [Stage!Next]_(Stage!vars)
         /\ running = "edit" => [Edit!Next]_(Edit!vars)
         /\ running = "raw" => [Raw!Next]_(Raw!vars)
         /\ running = "align" => [Align!Next]_(Align!vars)
BY DEF Next, vars, stageVars, activeVars, pcVars, editVars, rawVars, alignVars, sweepVars,
       listingVars, Stage!vars, Edit!vars, Raw!vars, Align!vars

-----------------------------------------------------------------------------
(* Stage!: McfgStage.                                                      *)

(* What stands in for a file of the vendor image is an edited file, and    *)
(* restore-row.sh replaces row alone.                                      *)
LEMMA StageReplacements ==
  /\ \A j \in Stage!Jobs : \A n \in DOMAIN Stage!Replace[j] : Stage!Replace[j][n] \in Stage!Edited
  /\ DOMAIN Stage!Replace["restore"] = {"row"}
  /\ Stage!Replace["restore"]["row"] = "row_v61"
BY DEF Stage!Jobs, Stage!Replace, Stage!RjilReplace, Stage!RetargetedReplace, Stage!RestoreReplace, Stage!Edited

(* The copy loop looks at the files of the vendor image.                   *)
LEMMA StageFilesAreNames ==
  ASSUME NEW i \in 1..(Len(Stage!Files) + 1), i <= Len(Stage!Files) PROVE Stage!Files[i] \in Stage!Names
BY DEF Stage!Files, Stage!Names

(* Each step keeps every variable in its set.                              *)
LEMMA StageTypeSteps == ASSUME Stage!TypeOK, [Stage!Next]_(Stage!vars) PROVE Stage!TypeOK'
<1> USE DEF Stage!TypeOK
<1>1. ASSUME NEW j \in Stage!Jobs, Stage!Start(j) PROVE Stage!TypeOK'
  BY <1>1 DEF Stage!Start, Stage!Files
<1>2. CASE Stage!Remove BY <1>2 DEF Stage!Remove
<1>3. CASE Stage!CopyFile
  <2>1. Stage!Files[next] \in Stage!Names BY <1>3, StageFilesAreNames DEF Stage!CopyFile
  <2>2. staged' \in [Stage!Names -> Stage!IsSw \union Stage!Edited \union {Stage!Absent}]
    BY <1>3, <2>1, StageReplacements DEF Stage!CopyFile
  <2>3. next' \in 1..(Len(Stage!Files) + 1) BY <1>3 DEF Stage!CopyFile, Stage!Files
  <2> QED BY <1>3, <2>2, <2>3 DEF Stage!CopyFile
<1>4. CASE Stage!CopyDies BY <1>4 DEF Stage!CopyDies
<1>5. CASE Stage!CopyEnds BY <1>5 DEF Stage!CopyEnds
<1>6. CASE Stage!RestartRild BY <1>6 DEF Stage!RestartRild
<1>7. CASE Stage!Report BY <1>7 DEF Stage!Report
<1>8. CASE Stage!Select
  <2>1. table' \subseteq Stage!Names \X {"bsnl", "wild"} BY <1>8 DEF Stage!Select, Stage!StagedRows
  <2>2. PICK r \in Stage!Names \X {"bsnl", "wild"} :
          /\ staged[r[1]] # Stage!Absent /\ active' = staged[r[1]] /\ picked' = staged[r[1]]
    BY <1>8, <2>1 DEF Stage!Select, Stage!StagedRows
  <2>3. staged[r[1]] \in Stage!Names \union Stage!Edited BY <2>2 DEF Stage!IsSw
  <2> QED BY <1>8, <2>1, <2>2, <2>3 DEF Stage!Select
<1>9. CASE Stage!SelectNothing BY <1>9 DEF Stage!SelectNothing, Stage!StagedRows
<1>10. CASE Stage!Boot BY <1>10 DEF Stage!Boot, Stage!PristineRows, Stage!Names
<1>11. CASE UNCHANGED Stage!vars BY <1>11 DEF Stage!vars
<1> QED
  BY <1>1, <1>2, <1>3, <1>4, <1>5, <1>6, <1>7, <1>8, <1>9, <1>10, <1>11 DEF Stage!Next

(* Of what restore-row.sh stages, only row can claim this SIM, and only as *)
(* the wildcard.                                                           *)
LEMMA StageOnlyRowClaims ==
  ASSUME Stage!IInv, since \subseteq {"restore"}, "row_v61" \in home
  PROVE  Stage!StagedRows \subseteq Stage!PristineRows
<1> SUFFICES ASSUME NEW r \in Stage!StagedRows PROVE r \in Stage!PristineRows
  OBVIOUS
<1>1. r \in Stage!Names \X {"bsnl", "wild"} /\ staged[r[1]] # Stage!Absent /\ Stage!Claim(staged[r[1]]) = r[2]
  BY DEF Stage!StagedRows
<1>2. staged[r[1]] = (IF r[1] = "row" THEN "row_v61" ELSE r[1])
  BY <1>1 DEF Stage!IInv, Stage!OnlyRestored
<1>3. r[1] = "row" /\ r[2] = "wild" BY <1>1, <1>2 DEF Stage!Claim, Stage!Names
<1> QED BY <1>1, <1>3 DEF Stage!PristineRows

(* Each step keeps the directory and the tables as a lone restore-row.sh   *)
(* leaves them.                                                            *)
LEMMA StageFactSteps == ASSUME Stage!IInv, [Stage!Next]_(Stage!vars) PROVE Stage!StagedSince' /\ Stage!OnlyRestored'
<1> USE DEF Stage!IInv, Stage!TypeOK, Stage!StagedSince, Stage!OnlyRestored
<1>1. ASSUME NEW j \in Stage!Jobs, Stage!Start(j) PROVE Stage!StagedSince' /\ Stage!OnlyRestored'
  BY <1>1 DEF Stage!Start
<1>2. CASE Stage!Remove BY <1>2 DEF Stage!Remove, Stage!Names
<1>3. CASE Stage!CopyFile
  <2>1. Stage!Files[next] \in Stage!Names BY <1>3, StageFilesAreNames DEF Stage!CopyFile
  <2>2. CASE since \subseteq {"restore"} /\ "row_v61" \in home
    <3>1. job = "restore" BY <1>3, <2>2 DEF Stage!CopyFile
    <3>2. staged' = [staged EXCEPT ![Stage!Files[next]] = staged'[Stage!Files[next]]]
      BY <1>3, <2>1 DEF Stage!CopyFile
    <3>3. staged'[Stage!Files[next]] \in {Stage!Absent, IF Stage!Files[next] = "row" THEN "row_v61" ELSE Stage!Files[next]}
      BY <1>3, <2>1, <2>2, <3>1, StageReplacements DEF Stage!CopyFile
    <3>4. staged'["mba"] = Stage!Absent
      BY <1>3, <2>1, <2>2, <3>1, StageReplacements DEF Stage!CopyFile, Stage!IsSw, Stage!Names
    <3> QED BY <1>3, <2>1, <2>2, <3>2, <3>3, <3>4 DEF Stage!CopyFile
  <2> QED BY <1>3, <2>2 DEF Stage!CopyFile
<1>4. CASE Stage!CopyDies BY <1>4 DEF Stage!CopyDies
<1>5. CASE Stage!CopyEnds BY <1>5 DEF Stage!CopyEnds
<1>6. CASE Stage!RestartRild BY <1>6 DEF Stage!RestartRild
<1>7. CASE Stage!Report BY <1>7 DEF Stage!Report
<1>8. CASE Stage!Select
  <2>1. CASE since \subseteq {"restore"} /\ "row_v61" \in home
    <3>1. table \union Stage!StagedRows = Stage!PristineRows BY <2>1, StageOnlyRowClaims
    <3>2. picked' = staged["row"] BY <1>8, <3>1 DEF Stage!Select, Stage!PristineRows
    <3>3. staged["row"] # Stage!Absent BY <1>8, <3>1 DEF Stage!Select, Stage!PristineRows
    <3> QED BY <1>8, <2>1, <3>1, <3>2, <3>3 DEF Stage!Select, Stage!Names
  <2> QED BY <1>8, <2>1 DEF Stage!Select
<1>9. CASE Stage!SelectNothing
  <2>1. CASE since \subseteq {"restore"} /\ "row_v61" \in home
    BY <1>9, <2>1, StageOnlyRowClaims DEF Stage!SelectNothing
  <2> QED BY <1>9, <2>1 DEF Stage!SelectNothing
<1>10. CASE Stage!Boot BY <1>10 DEF Stage!Boot, Stage!Names
<1>11. CASE UNCHANGED Stage!vars BY <1>11 DEF Stage!vars
<1> QED
  BY <1>1, <1>2, <1>3, <1>4, <1>5, <1>6, <1>7, <1>8, <1>9, <1>10, <1>11 DEF Stage!Next

LEMMA StageStarts == Stage!Init => Stage!IInv
BY DEF Stage!Init, Stage!IInv, Stage!TypeOK, Stage!StagedSince, Stage!OnlyRestored, Stage!PristineRows,
       Stage!Names, Stage!Edited, Stage!Jobs, Stage!Files

-----------------------------------------------------------------------------
\* A byte that is not the largest one is still a byte when it is raised.
LEMMA Raised == ASSUME NEW n \in Nat, NEW x \in 0 .. n, x # n PROVE x + 1 \in 0 .. n
OBVIOUS

\* The positions where an occurrence may start are finitely many.
LEMMA OneToTen == IsFiniteSet(1 .. 10)
<1>1. 1 \in Int /\ 10 \in Int OBVIOUS
<1>2. \A a, b \in Int : IsFiniteSet(a .. b) BY FS_Interval
<1> QED BY <1>1, <1>2

-----------------------------------------------------------------------------
(* Edit!: McfgEdit.                                                        *)

LEMMA EditStarts == Edit!Init => Edit!IInv
<1> SUFFICES ASSUME Edit!Init PROVE Edit!IInv OBVIOUS
<1> USE ConstantsAssumption
    DEF ConstantsAssumption, Edit!Init, Edit!TypeOK, Edit!Config, Edit!NoConfig, Edit!Stock, Edit!Paths, Edit!Items,
        Edit!Values, Edit!Copies, Edit!None, Edit!Requests, Edit!NoPromise
<1>1. Edit!Stock \in Edit!Config /\ Edit!NoConfig \in Edit!Config OBVIOUS
<1>2. request \in Edit!Requests OBVIOUS
<1>3. wrote \in [Edit!Paths -> UNION {[S -> Edit!Values] : S \in SUBSET Edit!Items}]
  <2>1. Edit!NoPromise \in [{} -> Edit!Values] OBVIOUS
  <2> HIDE DEF Edit!NoPromise, Edit!Values, Edit!Items
  <2> QED BY <2>1
<1>4. Edit!TypeOK BY <1>1, <1>2, <1>3
<1> QED BY <1>4 DEF Edit!IInv, Edit!Extracted, Edit!Ahead, Edit!WrittenIsIntended, Edit!LatestOutranks

\* Each step keeps every variable in its set.
LEMMA EditTypeSteps ==
  ASSUME Edit!IInv, [Edit!Next]_(Edit!vars)
  PROVE  Edit!TypeOK'
<1> USE ConstantsAssumption
    DEF ConstantsAssumption, Edit!IInv, Edit!TypeOK
<1>1. ASSUME NEW in \in Edit!Paths, NEW o \in Edit!Paths \ {"stock"}, NEW r \in Edit!Requests,
             Edit!Extract(in, o, r)
      PROVE  Edit!TypeOK'
  BY <1>1 DEF Edit!Extract, Edit!Config, Edit!Items
<1>2. CASE Edit!EditPatch
  <2>1. request.want \subseteq {"profile"} BY <1>2 DEF Edit!EditPatch, Edit!Requests
  <2>2. files' \in [Edit!Items -> Edit!Values]
    BY <1>2, <2>1 DEF Edit!EditPatch, Edit!DonorItems, Edit!Values, Edit!Items
  <2>3. "ims_flags" \in entries BY <1>2 DEF Edit!EditPatch, Edit!Extracted, Edit!Items
  <2> QED BY <1>2, <2>1, <2>2, <2>3 DEF Edit!EditPatch, Edit!Items
<1>3. CASE Edit!EditImport
  <2>1. request.want \subseteq {"profile", "reg_config"} BY <1>3 DEF Edit!EditImport, Edit!Requests
  <2>2. files' \in [Edit!Items -> Edit!Values]
    BY <1>3, <2>1 DEF Edit!EditImport, Edit!AddFromDonor, Edit!DonorItems, Edit!Values, Edit!Items
  <2> QED BY <1>3, <2>1, <2>2 DEF Edit!EditImport, Edit!AddFromDonor, Edit!Items
<1>4. CASE Edit!EditRegOnMode
  <2>1. request.want \subseteq {"poweron", "oncall"} BY <1>4 DEF Edit!EditRegOnMode, Edit!Requests
  <2>2. files' \in [Edit!Items -> Edit!Values]
    BY <1>4, <2>1 DEF Edit!EditRegOnMode, Edit!Values, Edit!Items
  <2>3. "reg_config" \in entries BY <1>4 DEF Edit!EditRegOnMode, Edit!Extracted, Edit!Items
  <2> QED BY <1>4, <2>2, <2>3 DEF Edit!EditRegOnMode
<1>5. CASE Edit!Bump
  <2>1. \A c \in Edit!Copies : minor[c] \in 0 .. MaxMinor /\ minor[c] # MaxMinor BY <1>5 DEF Edit!Bump
  <2>2. \A c \in Edit!Copies : minor[c] + 1 \in 0 .. MaxMinor
    BY <2>1, Raised DEF ConstantsAssumption
  <2>3. minor' = [c \in Edit!Copies |-> minor[c] + 1] BY <1>5 DEF Edit!Bump
  <2>4. minor' \in [Edit!Copies -> 0 .. MaxMinor] BY <2>2, <2>3
  <2> QED BY <1>5, <2>4 DEF Edit!Bump
<1>6. CASE Edit!Pack
  <2>1. PICK lost \in {{}} \union {{i} : i \in Edit!Items} :
          disk' = [disk EXCEPT ![out] =
                    [items |-> [i \in Edit!Items |-> IF i \in entries \ lost THEN files[i] ELSE Edit!None],
                     minor |-> minor]]
    BY <1>6 DEF Edit!Pack
  <2>2. disk' \in [Edit!Paths -> Edit!Config] BY <2>1 DEF Edit!Config, Edit!Values, Edit!None
  <2>3. wrote' \in [Edit!Paths -> UNION {[S -> Edit!Values] : S \in SUBSET Edit!Items}]
    <3>1. Edit!NoPromise \in [{} -> Edit!Values] BY DEF Edit!NoPromise
    <3> QED BY <1>6, <3>1 DEF Edit!Pack
  <2> QED BY <1>6, <2>2, <2>3 DEF Edit!Pack, Edit!work
<1>7. CASE Edit!Verify
  <2>1. wrote' \in [Edit!Paths -> UNION {[S -> Edit!Values] : S \in SUBSET Edit!Items}]
    <3>1. [i \in asked |-> files[i]] \in [asked -> Edit!Values] OBVIOUS
    <3> QED BY <1>7, <3>1 DEF Edit!Verify
  <2> QED
    BY <1>7, <2>1
    DEF Edit!Verify, Edit!Cleanup, Edit!Stock, Edit!Items, Edit!Values, Edit!None, Edit!Requests, Edit!Paths
<1>8. CASE Edit!Fail
  BY <1>8
  DEF Edit!Fail, Edit!Cleanup, Edit!Stock, Edit!Items, Edit!Values, Edit!None, Edit!Requests, Edit!Paths
<1>9. CASE Edit!Load BY <1>9 DEF Edit!Load, Edit!work
<1>10. CASE UNCHANGED Edit!vars BY <1>10 DEF Edit!vars
<1> QED
  BY <1>1, <1>2, <1>3, <1>4, <1>5, <1>6, <1>7, <1>8, <1>9, <1>10 DEF Edit!Next

\* Each step keeps the versions in order, and what was promised in the files.
LEMMA EditFactSteps ==
  ASSUME Edit!IInv, [Edit!Next]_(Edit!vars)
  PROVE  Edit!Extracted' /\ Edit!Ahead' /\ Edit!WrittenIsIntended' /\ Edit!LatestOutranks'
<1> USE DEF Edit!IInv, Edit!TypeOK, Edit!Extracted, Edit!Ahead, Edit!WrittenIsIntended, Edit!LatestOutranks, Edit!Config
<1>0. "meta" \in Edit!Copies /\ \A m \in [Edit!Copies -> 0 .. MaxMinor] : m["meta"] \in Int
  BY ConstantsAssumption DEF ConstantsAssumption, Edit!Copies
<1>1. ASSUME NEW in \in Edit!Paths, NEW o \in Edit!Paths \ {"stock"}, NEW r \in Edit!Requests,
             Edit!Extract(in, o, r)
      PROVE  Edit!Extracted' /\ Edit!Ahead' /\ Edit!WrittenIsIntended' /\ Edit!LatestOutranks'
  BY <1>0, <1>1 DEF Edit!Extract, Edit!InputIsLatest
<1>2. CASE Edit!EditPatch BY <1>2 DEF Edit!EditPatch
<1>3. CASE Edit!EditImport BY <1>3 DEF Edit!EditImport
<1>4. CASE Edit!EditRegOnMode BY <1>4 DEF Edit!EditRegOnMode
<1>5. CASE Edit!Bump BY <1>0, <1>5 DEF Edit!Bump
<1>6. CASE Edit!Pack
  <2>1. disk'[out].minor = minor /\ wrote'[out] = Edit!NoPromise
    BY <1>6 DEF Edit!Pack
  <2>2. \A p \in Edit!Paths \ {out} : disk'[p] = disk[p] /\ wrote'[p] = wrote[p]
    BY <1>6 DEF Edit!Pack
  <2>3. pc = "pack" /\ pc' = "verify" /\ UNCHANGED <<active, request, out, files, entries, minor, asked, latest>>
    BY <1>6 DEF Edit!Pack, Edit!work
  <2>4. Edit!Extracted' /\ Edit!Ahead' BY <2>1, <2>3
  <2>5. Edit!WrittenIsIntended' BY <2>1, <2>2, <2>3 DEF Edit!NoPromise
  <2>6. Edit!LatestOutranks'
    <3>1. CASE latest = out BY <2>1, <2>3, <3>1
    <3>2. CASE latest # out BY <2>2, <2>3, <3>2
    <3> QED BY <3>1, <3>2
  <2> QED BY <2>4, <2>5, <2>6
<1>7. CASE Edit!Verify
  <2>1. \A i \in asked : disk[out].items[i] = files[i]
    BY <1>7 DEF Edit!Verify, Edit!ReadBack, Edit!ReadBackItems
  <2>2. Edit!WrittenIsIntended' BY <1>7, <2>1 DEF Edit!Verify
  <2>3. Edit!LatestOutranks' BY <1>7 DEF Edit!Verify
  <2>4. Edit!Extracted' /\ Edit!Ahead' BY <1>7 DEF Edit!Verify, Edit!Cleanup, Edit!Stock
  <2> QED BY <2>2, <2>3, <2>4
<1>8. CASE Edit!Fail BY <1>8 DEF Edit!Fail, Edit!Cleanup, Edit!Stock
<1>9. CASE Edit!Load BY <1>9 DEF Edit!Load, Edit!work
<1>10. CASE UNCHANGED Edit!vars BY <1>10 DEF Edit!vars
<1> QED
  BY <1>1, <1>2, <1>3, <1>4, <1>5, <1>6, <1>7, <1>8, <1>9, <1>10 DEF Edit!Next

-----------------------------------------------------------------------------
(* Raw!: McfgRaw.                                                          *)

LEMMA RawStarts == Raw!Init => Raw!IInv
<1> SUFFICES ASSUME Raw!Init PROVE Raw!IInv OBVIOUS
<1>1. PICK m, f, a, b, c, d, e \in Raw!Byte :
        m # f /\ source = <<m, f, a, b, c, d, m, f, e, m, f>>
  BY DEF Raw!Init
<1>2. source \in [1 .. Raw!PayloadLength -> Raw!Byte] BY <1>1 DEF Raw!PayloadLength
<1>3. Raw!TypeOK BY <1>2 DEF Raw!Init, Raw!TypeOK
<1>4. Raw!VersionStands BY <1>1 DEF Raw!VersionStands, Raw!CopyAt
<1>5. Raw!StepByStep BY DEF Raw!Init, Raw!StepByStep
<1> QED BY <1>3, <1>4, <1>5 DEF Raw!IInv

\* The library's and the instance's cardinality are the same.
LEMMA RawCardinality == \A S : Raw!Cardinality(S) = Cardinality(S)
BY Zenon DEF Raw!Cardinality, Cardinality

\* Where exactly three occurrences are found, they are the version's own.
LEMMA OccurrencesAreCopies ==
  ASSUME Raw!IInv, pc = "bump",
         Raw!Cardinality(Raw!Occurrences(payload, payload[1], payload[2])) = 3
  PROVE  Raw!Occurrences(payload, payload[1], payload[2]) = Raw!CopyAt
<1> DEFINE at == Raw!Occurrences(payload, payload[1], payload[2])
<1>1. payload \in [1 .. 11 -> Raw!Byte] BY DEF Raw!IInv, Raw!TypeOK, Raw!PayloadLength
<1>2. Len(payload) = 11 BY <1>1
<1>3. \A i \in {1, 2, 7, 8, 10, 11} : payload[i] = source[i]
  BY DEF Raw!IInv, Raw!StepByStep, Raw!Edited, Raw!FieldAt, Raw!PayloadLength
<1>4. /\ source[7] = source[1] /\ source[8] = source[2]
      /\ source[10] = source[1] /\ source[11] = source[2]
  BY DEF Raw!IInv, Raw!VersionStands, Raw!CopyAt
<1>5. 1 \in at /\ 7 \in at /\ 10 \in at BY <1>2, <1>3, <1>4 DEF Raw!Occurrences
<1>6. Raw!CopyAt \subseteq at BY <1>5 DEF Raw!CopyAt
<1>7. at \subseteq 1 .. 10 BY <1>2 DEF Raw!Occurrences
<1>8. IsFiniteSet(at) /\ Cardinality(at) = 3
  <2>1. IsFiniteSet(1 .. 10) BY OneToTen
  <2>2. IsFiniteSet(at) BY <1>7, <2>1, FS_Subset
  <2> QED BY <2>2, RawCardinality
<1>9. Cardinality(Raw!CopyAt) = 3
  <2>1. IsFiniteSet({}) /\ Cardinality({}) = 0 BY FS_EmptySet
  <2>2. IsFiniteSet({1}) /\ Cardinality({1}) = 1 BY FS_Singleton
  <2>3. IsFiniteSet({1} \union {7}) /\ Cardinality({1} \union {7}) = 2 BY <2>2, FS_AddElement
  <2>4. Cardinality(({1} \union {7}) \union {10}) = 3 BY <2>3, FS_AddElement
  <2>5. Raw!CopyAt = ({1} \union {7}) \union {10} BY DEF Raw!CopyAt
  <2> QED BY <2>4, <2>5
<1> QED BY <1>6, <1>8, <1>9, FS_Subset

LEMMA RawSteps ==
  ASSUME Raw!IInv, [Raw!Next]_(Raw!vars)
  PROVE  Raw!IInv'
<1> USE DEF Raw!IInv, Raw!TypeOK, Raw!VersionStands, Raw!StepByStep, Raw!FieldAt, Raw!PayloadLength
<1>0. value[1] \in Raw!Byte /\ value[2] \in Raw!Byte OBVIOUS
<1>1. CASE Raw!EditItem BY <1>0, <1>1 DEF Raw!EditItem, Raw!Edited
<1>2. CASE Raw!EditTrailer BY <1>0, <1>2 DEF Raw!EditTrailer, Raw!Edited
<1>3. CASE Raw!Bump
  <2> DEFINE at == Raw!Occurrences(payload, payload[1], payload[2])
  <2>1. CASE payload[1] # Top /\ Raw!Cardinality(at) = 3
    <3>1. at = Raw!CopyAt BY <1>3, <2>1, OccurrencesAreCopies DEF Raw!Bump
    <3>2. payload' = [i \in 1 .. 11 |-> IF i \in Raw!CopyAt THEN payload[i] + 1 ELSE payload[i]]
      BY <1>3, <2>1, <3>1 DEF Raw!Bump
    <3>3. \A i \in 1 .. 11 : payload[i] = Raw!Edited(i) BY <1>3 DEF Raw!Bump
    <3>4. \A i \in Raw!CopyAt : payload[i] = payload[1] /\ payload[i] = source[i]
      BY <3>3 DEF Raw!Edited, Raw!CopyAt
    <3>5. \A i \in 1 .. 11 : payload'[i] = Raw!Asked(i)
      BY <3>2, <3>3, <3>4 DEF Raw!Asked, Raw!Edited, Raw!CopyAt
    <3>6. payload' \in [1 .. 11 -> Raw!Byte]
      <4>1. payload \in [1 .. 11 -> Raw!Byte] OBVIOUS
      <4>2. payload[1] \in Raw!Byte BY <4>1
      <4>3. payload[1] + 1 \in Raw!Byte
        BY <2>1, <4>2, Raised, ConstantsAssumption DEF ConstantsAssumption, Raw!Byte
      <4>4. \A i \in 1 .. 11 : (IF i \in Raw!CopyAt THEN payload[i] + 1 ELSE payload[i]) \in Raw!Byte
        BY <3>4, <4>1, <4>3
      <4> QED BY <3>2, <4>4
    <3>7. \A i \in 1 .. 11 : Raw!Asked(i)' = Raw!Asked(i) BY <1>3 DEF Raw!Bump, Raw!Asked
    <3> QED BY <1>3, <2>1, <3>5, <3>6, <3>7 DEF Raw!Bump
  <2>2. CASE ~(payload[1] # Top /\ Raw!Cardinality(at) = 3) BY <1>3, <2>2 DEF Raw!Bump
  <2> QED BY <2>1, <2>2
<1>4. CASE Raw!Write
  <2>1. \A i \in 1 .. 11 : Raw!Asked(i)' = Raw!Asked(i) BY <1>4 DEF Raw!Write, Raw!Asked
  <2> QED BY <1>4, <2>1 DEF Raw!Write
<1>5. CASE UNCHANGED Raw!vars BY <1>5 DEF Raw!vars, Raw!Asked, Raw!Edited
<1> QED BY <1>1, <1>2, <1>3, <1>4, <1>5 DEF Raw!Next

-----------------------------------------------------------------------------
(* Align!: BatchAlign.                                                     *)

\* Every item a program gets to is one of the items.
LEMMA AlignLastIsAnItem ==
  ASSUME Align!TypeOK
  PROVE  Align!Last \in Nat /\ 1 .. Align!Last \subseteq Align!Items
BY ConstantsAssumption
   DEF ConstantsAssumption, Align!TypeOK, Align!Aligners, Align!Last, Align!Count, Align!Items

\* The initial states satisfy the invariant.
LEMMA AlignStarts == ASSUME Align!Init PROVE Align!IInv
<1> USE ConstantsAssumption DEF ConstantsAssumption
<1>1. 1 \in Align!Items /\ Align!Last \in Nat BY DEF Align!Init, Align!Items, Align!Last, Align!Count, Align!Aligners
<1>2. Align!TypeOK BY <1>1 DEF Align!Init, Align!TypeOK, Align!Whole
<1> QED BY <1>2 DEF Align!Init, Align!Reversible, Align!IInv, Align!HeldIsRead, Align!NothingGrows, Align!RecordedFirst

\* Each step keeps every variable in its set.
LEMMA AlignTypeSteps == ASSUME Align!IInv, [Align!Next]_(Align!vars) PROVE Align!TypeOK'
<1> USE DEF Align!IInv, Align!TypeOK
<1>1. Align!Last \in Nat /\ 1 .. Align!Last \subseteq Align!Items /\ item \in Nat
  BY AlignLastIsAnItem
<1>2. UNCHANGED <<aligner, disturbed>> => Align!Last' = Align!Last /\ Align!Items' = Align!Items
  BY DEF Align!Last, Align!Items, Align!Count
<1>3. item \in Align!Items => nv[item] \in Align!Whole OBVIOUS
<1>4. CASE Align!Run BY <1>1, <1>2, <1>4 DEF Align!Run
<1>5. CASE Align!Skip BY <1>1, <1>2, <1>5 DEF Align!Skip, Align!NextItem
<1>6. CASE Align!Read
  <2>1. item \in Align!Items BY <1>1, <1>6 DEF Align!Read
  <2>2. before' \in Align!Whole \union {"short"} BY <1>3, <1>6, <2>1 DEF Align!Read, Align!ReadOf
  <2> QED BY <1>1, <1>2, <1>6, <2>2 DEF Align!Read
<1>7. CASE Align!CheckLength BY <1>1, <1>2, <1>7 DEF Align!CheckLength, Align!NextItem, Align!RecordedFirst
<1>8. CASE Align!Save
  <2>1. item \in Align!Items BY <1>1, <1>8 DEF Align!Save, Align!RecordedFirst
  <2>2. buffer' \subseteq Align!Items \X (Align!Whole \union {"short"}) BY <2>1, <1>8 DEF Align!Save
  <2> QED BY <1>1, <1>2, <1>8, <2>2 DEF Align!Save, Align!NextItem, Align!RecordedFirst
<1>9. CASE Align!WriteItem
  <2>1. nv' \in [Align!Items -> Align!Whole] BY <1>1, <1>3, <1>9 DEF Align!WriteItem, Align!Written, Align!NothingGrows, Align!Whole
  <2> QED BY <1>1, <1>2, <1>9, <2>1 DEF Align!WriteItem, Align!NextItem, Align!RecordedFirst
<1>10. CASE Align!WriteBlindly
  <2>1. nv' \in [Align!Items -> Align!Whole] BY <1>1, <1>3, <1>10 DEF Align!WriteBlindly, Align!Written, Align!NothingGrows, Align!Whole
  <2> QED BY <1>1, <1>2, <1>10, <2>1 DEF Align!WriteBlindly
<1>11. CASE Align!Verify BY <1>1, <1>2, <1>11 DEF Align!Verify, Align!NextItem, Align!RecordedFirst
<1>12. CASE Align!Dies BY <1>1, <1>2, <1>12 DEF Align!Dies
<1>13. CASE Align!Close BY <1>1, <1>2, <1>13 DEF Align!Close
<1>14. CASE Align!Kill
  <2>1. nv' \in [Align!Items -> Align!Whole] BY <1>14 DEF Align!Kill, Align!Whole
  <2> QED BY <1>1, <1>2, <1>14, <2>1 DEF Align!Kill
<1>15. CASE UNCHANGED Align!vars BY <1>2, <1>15 DEF Align!vars
<1> QED
  BY <1>4, <1>5, <1>6, <1>7, <1>8, <1>9, <1>10, <1>11, <1>12, <1>13, <1>14,
     <1>15 DEF Align!Next

\* Each step keeps what is known of the item in hand.
LEMMA AlignFactSteps ==
  ASSUME Align!IInv, [Align!Next]_(Align!vars)
  PROVE  Align!HeldIsRead' /\ Align!NothingGrows' /\ Align!RecordedFirst'
<1> USE DEF Align!IInv, Align!HeldIsRead, Align!NothingGrows, Align!RecordedFirst, Align!ReadOf
<1>1. Align!Last \in Nat /\ 1 .. Align!Last \subseteq Align!Items /\ item \in Nat
  BY AlignLastIsAnItem DEF Align!TypeOK
<1>2. UNCHANGED <<aligner, disturbed>> => Align!Last' = Align!Last /\ Align!Items' = Align!Items
  BY DEF Align!Last, Align!Items, Align!Count
<1>3. CASE Align!Run BY <1>2, <1>3 DEF Align!Run
<1>4. CASE Align!Skip BY <1>2, <1>4 DEF Align!Skip, Align!NextItem
<1>5. CASE Align!Read BY <1>2, <1>5 DEF Align!Read
<1>6. CASE Align!CheckLength BY <1>2, <1>6 DEF Align!CheckLength, Align!NextItem, Align!Blanks
<1>7. CASE Align!Save BY <1>2, <1>7 DEF Align!Save, Align!NextItem
<1>8. CASE Align!WriteItem BY <1>2, <1>8 DEF Align!WriteItem, Align!NextItem
<1>9. CASE Align!WriteBlindly BY <1>2, <1>9 DEF Align!WriteBlindly
<1>10. CASE Align!Verify BY <1>2, <1>10 DEF Align!Verify, Align!NextItem
<1>11. CASE Align!Dies BY <1>2, <1>11 DEF Align!Dies
<1>12. CASE Align!Close BY <1>2, <1>12 DEF Align!Close
<1>13. CASE Align!Kill BY <1>2, <1>13 DEF Align!Kill
<1>14. CASE UNCHANGED Align!vars BY <1>2, <1>14 DEF Align!vars
<1> QED
  BY <1>3, <1>4, <1>5, <1>6, <1>7, <1>8, <1>9, <1>10, <1>11, <1>12, <1>13,
     <1>14 DEF Align!Next

\* While reads are whole and nobody kills the program, what an item was stays
\* on record once it is changed.
LEMMA AlignReversibleSteps ==
  ASSUME Align!IInv, [Align!Next]_(Align!vars)
  PROVE  Align!Reversible'
<1> USE DEF Align!IInv, Align!TypeOK
<1>1. UNCHANGED <<aligner, disturbed>> /\ Align!Items' = Align!Items
  BY DEF Align!Next, Align!Run, Align!Skip, Align!Read, Align!CheckLength, Align!Save, Align!WriteItem,
         Align!WriteBlindly, Align!Verify, Align!Dies, Align!Close, Align!Kill, Align!vars, Align!Items,
         Align!Count
<1> SUFFICES ASSUME ~disturbed, NEW i \in Align!Items, nv'[i] # Align!Original
             PROVE  <<i, Align!Original>> \in saved' \union buffer'
  BY <1>1 DEF Align!Reversible
<1>2. saved \union buffer \subseteq saved' \union buffer'
  BY DEF Align!Next, Align!Run, Align!Skip, Align!Read, Align!CheckLength, Align!Save, Align!WriteItem,
         Align!WriteBlindly, Align!Verify, Align!Dies, Align!Close, Align!Kill, Align!vars
<1>3. CASE nv[i] # Align!Original BY <1>2, <1>3 DEF Align!Reversible
<1>4. CASE nv[i] = Align!Original
  <2>1. pc = "write" /\ i = item
    BY <1>4 DEF Align!Next, Align!Run, Align!Skip, Align!Read, Align!CheckLength, Align!Save,
         Align!WriteItem, Align!WriteBlindly, Align!Verify, Align!Dies, Align!Close, Align!Kill, Align!vars
  <2>2. before = Align!Original BY <1>4, <2>1 DEF Align!HeldIsRead, Align!ReadOf
  <2> QED BY <1>2, <2>1, <2>2 DEF Align!RecordedFirst
<1> QED BY <1>3, <1>4

-----------------------------------------------------------------------------
(* The programs together.                                                  *)

IInv ==
  /\ running = "stage" => Stage!IInv
  /\ running = "edit" => Edit!IInv
  /\ running = "raw" => Raw!IInv
  /\ running = "align" => Align!IInv

\* Every state that the scripts, qcril, the modem and reboots can reach
\* satisfies the invariant of the program that runs.
THEOREM Invariance == Spec => []IInv
<1>1. Init => IInv BY StageStarts, EditStarts, RawStarts, AlignStarts DEF Init, IInv
<1>2. IInv /\ [Next]_vars => IInv'
  <2> SUFFICES ASSUME IInv, [Next]_vars PROVE IInv'
    OBVIOUS
  <2>1. running = "stage" => Stage!IInv'
    BY OwnSteps, StageTypeSteps, StageFactSteps DEF IInv, Stage!IInv
  <2>2. running = "edit" => Edit!IInv'
    BY OwnSteps, EditTypeSteps, EditFactSteps DEF IInv, Edit!IInv
  <2>3. running = "raw" => Raw!IInv' BY OwnSteps, RawSteps DEF IInv
  <2>4. running = "align" => Align!IInv'
    BY OwnSteps, AlignTypeSteps, AlignFactSteps, AlignReversibleSteps DEF IInv, Align!IInv
  <2> QED BY <2>1, <2>2, <2>3, <2>4, OwnSteps DEF IInv
<1> QED BY <1>1, <1>2, PTL DEF Spec

\* Every variable stays in its set: no file but a software config is staged
\* (stage-rjil.sh), no version copy exceeds its byte (patch-mbn-ims.sh:113), no
\* item ever gets longer (batchalign.py:98).
THEOREM TypeCorrect == Spec => []TypeOK
<1>1. IInv => TypeOK BY DEF IInv, TypeOK, Stage!IInv, Edit!IInv, Raw!IInv, Align!IInv
<1> QED BY <1>1, Invariance, PTL

\* After a reboot, when no other script has staged, restore-row.sh gets the
\* patched row.mbn picked or nothing (restore-row.sh:12).
THEOREM RestorePicksRow == Spec => []RestoreAfterRebootPicksRow
<1>1. IInv => RestoreAfterRebootPicksRow
  BY DEF IInv, RestoreAfterRebootPicksRow, Stage!IInv, Stage!OnlyRestored,
         Stage!RestoreAfterRebootPicksRow
<1> QED BY <1>1, Invariance, PTL

\* What was reported as written is in the file, with version copies that agree
\* (patch-mbn-ims.sh:142-174); patchitem.py and retarget.py change the value
\* asked for and the three version copies, and no other byte.
THEOREM WrittenIsWhatWasAsked == Spec => []WrittenIsAsked
<1>1. IInv => WrittenIsAsked
  BY DEF IInv, WrittenIsAsked, Edit!IInv, Raw!IInv, Raw!StepByStep, Raw!WritesWhatWasAsked
<1> QED BY <1>1, Invariance, PTL

\* No edit is silently ignored while the scripts are fed their own output
\* (patch-mbn-ims.sh:114-117), over any number of edits, failures and loads.
THEOREM LatestIsLoaded == Spec => []LatestOutranks
<1>1. IInv => LatestOutranks BY DEF IInv, LatestOutranks, Edit!IInv
<1> QED BY <1>1, Invariance, PTL

\* While reads are whole and nobody kills the program, the original of every
\* item that was changed, in however many runs, is in the backup
\* (batchalign.py:22-23).
THEOREM OriginalsAreKept == Spec => []Reversible
<1>1. IInv => Reversible BY DEF IInv, Reversible, Align!IInv
<1> QED BY <1>1, Invariance, PTL

\* An item is overwritten only when what was read of it is on record, and a
\* record that has reached the file stays there, through short reads, torn
\* writes, kills and reruns.
THEOREM RecordsAreKept == Spec => KeepsRecords
<1>1. IInv /\ [Next]_vars => [running = "align" => Align!KeepsRecordsStep]_vars
  <2> SUFFICES ASSUME Align!IInv, [Align!Next]_(Align!vars) PROVE Align!KeepsRecordsStep
    BY OwnSteps DEF IInv
  <2>1. saved \subseteq saved'
    BY DEF Align!Next, Align!Run, Align!Skip, Align!Read, Align!CheckLength, Align!Save, Align!WriteItem,
           Align!WriteBlindly, Align!Verify, Align!Dies, Align!Close, Align!Kill, Align!vars
  <2>2. nv' = nv \/ (pc = "write" /\ \E v \in Align!Whole \union {"grown"} : nv' = [nv EXCEPT ![item] = v])
    <3>1. CASE Align!WriteItem \/ Align!WriteBlindly
      <4>1. item \in Align!Items => nv[item] \in Align!Whole BY DEF Align!IInv, Align!TypeOK
      <4>2. item \notin Align!Items => nv' = nv
        BY <3>1 DEF Align!WriteItem, Align!WriteBlindly, Align!IInv, Align!TypeOK
      <4> QED BY <3>1, <4>1, <4>2 DEF Align!WriteItem, Align!WriteBlindly, Align!Written, Align!Whole
    <3>2. CASE Align!Kill BY <3>2 DEF Align!Kill, Align!Whole
    <3> QED
      BY <3>1, <3>2
      DEF Align!Next, Align!Run, Align!Skip, Align!Read, Align!CheckLength, Align!Save, Align!Verify,
          Align!Dies, Align!Close, Align!vars
  <2>3. ASSUME NEW i \in Align!Items, nv'[i] # nv[i]
        PROVE  \E v \in Align!ReadOf(i) : <<i, v>> \in saved \union buffer
    <3>1. pc = "write" /\ i = item BY <2>2, <2>3 DEF Align!IInv, Align!TypeOK
    <3> QED BY <3>1 DEF Align!IInv, Align!HeldIsRead, Align!RecordedFirst
  <2> QED BY <2>1, <2>3 DEF Align!KeepsRecordsStep
<1> QED BY <1>1, Invariance, PTL DEF Spec, KeepsRecords
=============================================================================
