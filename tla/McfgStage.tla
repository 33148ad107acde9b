------------------------------ MODULE McfgStage ------------------------------
(***************************************************************************)
(* Choosing the carrier config of the BSNL SIM: scripts/mcfg/stage-rjil.sh,*)
(* stage-retargeted.sh and restore-row.sh.  Each empties the directory     *)
(* qcril reads configs from, refills it from the vendor image with some    *)
(* files replaced by edited ones from /home/defaultuser, clears            *)
(* sw_mbn_loaded and restarts rild.  qcril then picks a config by the      *)
(* tables of its database, whose rows outlive a rild restart and are       *)
(* rebuilt only at boot (restore-row.sh:5-12).  The phone may reboot at    *)
(* any moment.                                                             *)
(***************************************************************************)
EXTENDS Naturals, Sequences

(* The .mbn files of the vendor image in the order os.listdir is sorted;   *)
(* the stock contents of a file have the file's name.  "mba" is not a      *)
(* carrier config.                                                         *)
Files == <<"3uk", "mba", "rjil", "row">>
Names == {"3uk", "mba", "rjil", "row"}
IsSw == Names \ {"mba"}
Edited == {"rjil_bsnl", "uk_bsnl", "row_v61"}
Absent == "absent"
Jobs == {"rjil", "retargeted", "restore"}

(* What each script puts in the place of a file of the vendor image.       *)
RjilReplace == [rjil |-> "rjil_bsnl"]
RetargetedReplace == [n \in {"row", "3uk"} |-> IF n = "row" THEN "row_v61" ELSE "uk_bsnl"]
RestoreReplace == [row |-> "row_v61"]
Replace == [rjil |-> RjilReplace, retargeted |-> RetargetedReplace,
            restore |-> RestoreReplace]

(* The SIMs a config claims: the BSNL SIM by its PLMN or IIN after a       *)
(* retarget, every unmatched SIM (an empty tag 6), or others only.         *)
Claim(c) == IF c \in {"rjil_bsnl", "uk_bsnl"} THEN "bsnl"
            ELSE IF c \in {"row", "row_v61"} THEN "wild" ELSE "other"
PristineRows == {<<"row", "wild">>}

VARIABLES
  home,       \* the edited files present in /home/defaultuser
  staged,     \* contents of DST by file name
  table,      \* rows of qcril's selection tables that bear on this SIM
  active,     \* contents of the config the modem has active
  loaded,     \* persist.vendor.radio.sw_mbn_loaded
  rild,       \* "idle" or "selecting"
  picked,     \* contents picked since the last restart of rild, if any
  job, pc,    \* the script running and its next step
  next,       \* position in Files of the copy loop
  since       \* history: the scripts that staged files since the boot

vars == <<home, staged, table, active, loaded, rild, picked, job, pc, next, since>>

TypeOK ==
  /\ home \subseteq Edited
  /\ staged \in [Names -> IsSw \union Edited \union {Absent}]
  /\ table \subseteq Names \X {"bsnl", "wild"}
  /\ active \in Names \union Edited
  /\ loaded \in BOOLEAN
  /\ rild \in {"idle", "selecting"}
  /\ picked \in Names \union Edited \union {Absent}
  /\ job \in Jobs
  /\ pc \in {"idle", "remove", "copy", "restart", "wait"}
  /\ next \in 1..(Len(Files) + 1)
  /\ since \subseteq Jobs

Init ==
  /\ home \in SUBSET Edited
  /\ staged = [n \in Names |-> Absent]
  /\ table = PristineRows
  /\ active \in {"row", "row_v61"}
  /\ loaded = TRUE
  /\ rild = "idle" /\ picked = Absent
  /\ job = "restore" /\ pc = "idle" /\ next = 1
  /\ since = {}

Start(j) ==
  /\ pc = "idle"
  /\ job' = j /\ pc' = "remove" /\ next' = 1
  /\ UNCHANGED <<home, staged, table, active, loaded, rild, picked, since>>

Remove ==
  /\ pc = "remove"
  /\ pc' = "copy"
  /\ staged' = [n \in Names |-> Absent]
  /\ since' = since \union {job}
  /\ UNCHANGED <<home, table, active, loaded, rild, picked, job, next>>

\* Faulty variant: every .mbn without a replacement is staged.
CopyUnchecked ==
  LET n == Files[next] IN
  /\ pc = "copy" /\ next <= Len(Files)
  /\ n \in DOMAIN Replace[job] => Replace[job][n] \in home
  /\ staged' = [staged EXCEPT ![n] = IF n \in DOMAIN Replace[job]
                                     THEN Replace[job][n] ELSE n]
  /\ next' = next + 1
  /\ UNCHANGED <<home, table, active, loaded, rild, picked, job, pc, since>>

(* One turn of the copy loop: the replacement if the file has one, else    *)
(* the vendor's own bytes when they are a software config.                 *)
CopyFile ==
  LET n == Files[next] IN
  /\ pc = "copy" /\ next <= Len(Files)
  /\ n \in DOMAIN Replace[job] => Replace[job][n] \in home
  /\ staged' = IF n \in DOMAIN Replace[job]
               THEN [staged EXCEPT ![n] = Replace[job][n]]
               ELSE IF n \in IsSw THEN [staged EXCEPT ![n] = n] ELSE staged
  /\ next' = next + 1
  /\ UNCHANGED <<home, table, active, loaded, rild, picked, job, pc, since>>

(* The replacement is not on the phone: the Python part dies at its open() *)
(* and the shell, which runs without -e, goes on with what was copied.     *)
CopyDies ==
  /\ pc = "copy" /\ next <= Len(Files)
  /\ Files[next] \in DOMAIN Replace[job]
  /\ Replace[job][Files[next]] \notin home
  /\ pc' = "restart"
  /\ UNCHANGED <<home, staged, table, active, loaded, rild, picked, job, next, since>>

CopyEnds ==
  /\ pc = "copy" /\ next > Len(Files)
  /\ pc' = "restart"
  /\ UNCHANGED <<home, staged, table, active, loaded, rild, picked, job, next, since>>

(* The properties are set, sw_mbn_loaded to 0 among them, and rild is      *)
(* restarted.                                                              *)
RestartRild ==
  /\ pc = "restart"
  /\ loaded' = FALSE
  /\ rild' = "selecting" /\ picked' = Absent
  /\ pc' = "wait"
  /\ UNCHANGED <<home, staged, table, active, job, next, since>>

(* The fixed sleep is over; the script prints what the log shows so far.   *)
Report ==
  /\ pc = "wait"
  /\ pc' = "idle"
  /\ UNCHANGED <<home, staged, table, active, loaded, rild, picked, job, next, since>>

(* External: qcril adds the staged configs to its tables, picks a row that *)
(* names this SIM, else the wildcard row, and has the modem activate the   *)
(* file of that row.                                                       *)
StagedRows ==
  {r \in Names \X {"bsnl", "wild"} : staged[r[1]] # Absent /\ Claim(staged[r[1]]) = r[2]}

Select ==
  LET rows == table \union StagedRows
      named == {r \in rows : r[2] = "bsnl"} IN
  /\ rild = "selecting" /\ ~loaded
  /\ \E r \in IF named # {} THEN named ELSE rows :
       /\ staged[r[1]] # Absent
       /\ active' = staged[r[1]]
       /\ picked' = staged[r[1]]
  /\ table' = rows
  /\ loaded' = TRUE
  /\ rild' = "idle"
  /\ UNCHANGED <<home, staged, job, pc, next, since>>

(* External: no file to load, or the SIM's identity changed under the      *)
(* selection and qcril cancelled it; nothing is activated.                 *)
SelectNothing ==
  /\ rild = "selecting"
  /\ rild' = "idle"
  /\ table' = table \union StagedRows
  /\ UNCHANGED <<home, staged, active, loaded, picked, job, pc, next, since>>

\* Faulty variant: a boot keeps the rows of the selection tables.
BootKeepsRows ==
  /\ staged' = [n \in Names |-> Absent]
  /\ rild' = "selecting" /\ picked' = Absent
  /\ pc' = "idle" /\ since' = {}
  /\ UNCHANGED <<home, table, active, loaded, job, next>>

(* External: the phone reboots, whatever was running.  init.qcom.sh wipes  *)
(* the staging directory and the tables are rebuilt from the vendor's      *)
(* pristine configs; the modem keeps its active config.                    *)
Boot ==
  /\ staged' = [n \in Names |-> Absent]
  /\ table' = PristineRows
  /\ rild' = "selecting" /\ picked' = Absent
  /\ pc' = "idle" /\ since' = {}
  /\ UNCHANGED <<home, active, loaded, job, next>>

Next ==
  \/ \E j \in Jobs : Start(j)
  \/ Remove
  \/ CopyFile
  \/ CopyDies
  \/ CopyEnds
  \/ RestartRild
  \/ Report
  \/ Select
  \/ SelectNothing
  \/ Boot

Spec == Init /\ [][Next]_vars

(* "reboot the handset first, then run this script" (restore-row.sh:12):   *)
(* when no other script has staged since the boot, whatever restore-row makes *)
(* qcril pick is the patched row.mbn, whichever retarget was active before.*)
RestoreAfterRebootPicksRow ==
  since = {"restore"} /\ "row_v61" \in home => picked \in {Absent, "row_v61"}

-----------------------------------------------------------------------------
(* The inductive invariant (MCConfigs_proofs).                             *)

(* A script that copies has emptied the directory since the boot.          *)
StagedSince == pc = "copy" => job \in since

(* While nothing but restore-row.sh has staged since the boot: what is     *)
(* staged is a vendor file under its own name or row_v61 as row, the       *)
(* tables are the vendor's, and what was picked came from row.             *)
OnlyRestored ==
  since \subseteq {"restore"} /\ "row_v61" \in home =>
    /\ \A n \in Names : staged[n] \in {Absent, IF n = "row" THEN "row_v61" ELSE n}
    /\ staged["mba"] = Absent
    /\ table = PristineRows
    /\ picked \in {Absent, "row_v61"}

IInv == TypeOK /\ StagedSince /\ OnlyRestored
=============================================================================
