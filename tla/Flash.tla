-------------------------------- MODULE Flash -------------------------------
(***************************************************************************)
(* scripts/flash.sh: the recovery is live-booted, its installer shell is   *)
(* reached (bouncing the phone through fastboot if it went on into an      *)
(* installed system), the image directory is served over HTTP, and a list  *)
(* of commands is driven over that shell.                                  *)
(*                                                                         *)
(* A command is sent, runs on the phone and reports; its exit status is    *)
(* never looked at, only what it prints.  The phone, the link and the      *)
(* transfers fail MaxFaults times in all; a failed run may be repeated.    *)
(***************************************************************************)
EXTENDS Integers, TLAPS

CONSTANTS
  Addresses,   \* addresses the host end of the USB link comes up with
  NoAddress,   \* the link is down
  MaxFaults,   \* bound on failures of phone, link and transfers
  MaxKills     \* bound on runs that die without their EXIT trap

ASSUME ConstantsAssumption ==
  /\ Addresses # {} /\ NoAddress \notin Addresses
  /\ MaxFaults \in Nat /\ MaxKills \in Nat

VARIABLES
  pc,      \* where the script is
  result,  \* outcome of the latest run
  hostIp,  \* $HOST_IP
  server,  \* the HTTP server: "none", "ours", or "orphan" of a dead run
  linkIp,  \* the host's address on the link now
  mode,    \* what the phone runs
  flag,    \* init_enter_debug is in the installed root file system
  mounts,  \* where userdata is mounted in the recovery
  rootfs,  \* /data/.stowaways/sailfishos
  staged,  \* /data/hybris-boot.img
  boot,    \* what the boot partition holds
  source,  \* src_md5, as the content it is the sum of, or "unknown"
  faults, kills

hostvars  == <<pc, result, hostIp, server, source>>
phonevars == <<linkIp, mode, flag, mounts>>
diskvars  == <<rootfs, staged, boot>>
bounds    == <<faults, kills>>
vars      == <<hostvars, phonevars, diskvars, bounds>>

\* The live-booted recovery stops in its installer shell (port 23) or goes
\* on into the installed system (port 2323).
Modes == {"off", "fastboot", "halted", "installed"}

\* "bare" lacks one of bin, etc, usr, var, lib; "cut" has them and not the
\* rest of the tarball; "old" is an earlier installation.
Trees == {"old", "empty", "bare", "cut", "complete"}
LooksSane == {"old", "cut", "complete"}

\* Contents: the whole image, a prefix of whole 512-byte blocks, a prefix
\* that ends inside a block, no byte; and what was there before.
Copies == {"whole", "blocks", "ragged", "empty"}
Images == {"before", "torn", "whole", "blocks", "ragged"}

Start0  == {"idle"}
Reach   == {"fastboot", "link", "shell", "bounce", "port", "serve", "arm"}
Drive   == {"mount", "umount", "clear", "extract", "verify", "fetch", "list",
            "sum", "write", "readback", "finish"}

TypeOK ==
  /\ pc \in Start0 \union Reach \union Drive
  /\ result \in {"none", "ok", "failed"}
  /\ hostIp \in Addresses \union {NoAddress}
  /\ server \in {"none", "ours", "orphan"}
  /\ linkIp \in Addresses \union {NoAddress}
  /\ mode \in Modes
  /\ flag \in {"clear", "set"}
  /\ mounts \in SUBSET {"/data", "/target"}
  /\ rootfs \in Trees
  /\ staged \in Copies \union {"absent"}
  /\ boot \in Images
  /\ source \in Copies \union {"unknown"}
  /\ faults \in 0 .. MaxFaults
  /\ kills \in 0 .. MaxKills

Init ==
  /\ pc = "idle" /\ result = "none"
  /\ hostIp = NoAddress /\ server = "none" /\ source = "unknown"
  /\ linkIp = NoAddress /\ mode = "off" /\ mounts = {}
  /\ rootfs \in {"old", "empty"} /\ flag = "clear"
  /\ staged = "absent" /\ boot = "before"
  /\ faults = 0 /\ kills = 0

-----------------------------------------------------------------------------
\* The script goes on to s.
Goto(s) == pc' = s /\ UNCHANGED <<result, kills>>

Fault == faults < MaxFaults /\ faults' = faults + 1

\* Faulty variant: the trap does not kill the server.
DieWithoutReaping ==
  /\ pc' = "idle" /\ result' = "failed"
  /\ UNCHANGED <<server, kills>>

\* die, SystemExit or a signal: the EXIT trap reaps the server.
Die ==
  /\ pc' = "idle" /\ result' = "failed"
  /\ server' = IF server = "ours" THEN "none" ELSE server
  /\ UNCHANGED kills

\* The phone boots the hybris initramfs, from the recovery image or from its
\* boot partition.  With the flag set, or no system to switch to, init stops
\* in the recovery shell, and /target may be left mounted.
Boots ==
  /\ linkIp' \in Addresses
  /\ \/ /\ flag' = "set" \/ rootfs \notin {"old", "complete"}
        /\ mode' = "halted"
        /\ mounts' \in {{"/data"}, {"/data", "/target"}}
     \/ /\ flag' = "clear" /\ rootfs # "empty"
        /\ mode' = "installed" /\ mounts' = {}

\* fastboot boot "$RECOVERY_IMG"
LiveBoot ==
  /\ pc = "fastboot" /\ mode = "fastboot"
  /\ UNCHANGED flag /\ Boots
  /\ Goto("link")
  /\ UNCHANGED <<hostIp, server, source, faults, diskvars>>

\* The link answers; the address facing it is derived a first time.
LinkUp ==
  /\ pc = "link" /\ linkIp # NoAddress
  /\ hostIp' = linkIp
  /\ Goto("shell")
  /\ UNCHANGED <<server, source, faults, phonevars, diskvars>>

ShellAnswers ==
  /\ pc \in {"shell", "port"} /\ mode = "halted"
  /\ Goto("serve")
  /\ UNCHANGED <<hostIp, server, source, faults, phonevars, diskvars>>

\* Port 23 closed and 2323 open: set the flag in the installed system and
\* reboot it to the bootloader.
SetFlag ==
  /\ pc = "shell" /\ mode = "installed"
  /\ flag' = "set"
  /\ mode' = "fastboot" /\ linkIp' = NoAddress /\ mounts' = {}
  /\ Goto("bounce")
  /\ UNCHANGED <<hostIp, server, source, faults, diskvars>>

\* The flag is or is not written, and "reboot -f" boots what is on flash.
SetFlagGoesWrong ==
  /\ pc = "shell" /\ mode = "installed" /\ Fault
  /\ flag' \in {flag, "set"} /\ Boots
  /\ Goto("bounce")
  /\ UNCHANGED <<hostIp, server, source, diskvars>>

LiveBootAgain ==
  /\ pc = "bounce" /\ mode = "fastboot"
  /\ UNCHANGED flag /\ Boots
  /\ Goto("port")
  /\ UNCHANGED <<hostIp, server, source, faults, diskvars>>

\* Faulty variant: the address derived before the bounce is still used.
ServeWithoutRederiving ==
  /\ pc = "serve" /\ server = "none"
  /\ server' = IF hostIp = linkIp THEN "ours" ELSE "none"
  /\ Goto("arm")
  /\ UNCHANGED <<hostIp, source, faults, phonevars, diskvars>>

\* The address is derived again, and the server bound to it.
Serve ==
  /\ pc = "serve" /\ server = "none"
  /\ linkIp # NoAddress
  /\ hostIp' = linkIp
  /\ \/ server' = "ours" /\ UNCHANGED faults
     \/ server' = "none" /\ Fault
  /\ Goto("arm")
  /\ UNCHANGED <<source, phonevars, diskvars>>

\* trap cleanup EXIT; the server is alive; the shell is connected to.
Arm ==
  /\ pc = "arm" /\ server = "ours"
  /\ Goto("mount")
  /\ UNCHANGED <<hostIp, server, source, faults, phonevars, diskvars>>

\* Any die on the way here: no phone, no link, no shell, the port in use by
\* the server of an earlier run, or a server that did not start.
GivesUp ==
  /\ \/ pc = "bounce" /\ mode # "fastboot"
     \/ pc = "link" /\ linkIp = NoAddress
     \/ pc = "shell" /\ mode \notin {"halted", "installed"}
     \/ pc = "port" /\ mode # "halted"
     \/ pc = "serve" /\ (server # "none" \/ linkIp = NoAddress)
     \/ pc = "arm" /\ server # "ours"
  /\ Die
  /\ UNCHANGED <<hostIp, source, faults, phonevars, diskvars>>

-----------------------------------------------------------------------------
(* The commands driven over the recovery shell.                            *)

\* The shell the script is connected to still answers.
Session == mode = "halted" /\ linkIp = hostIp

At(s) == pc = s /\ Session

\* mount | grep -c mmcblk0p54
CheckMount ==
  /\ At("mount")
  /\ IF mounts # {} THEN Goto("umount") /\ UNCHANGED server ELSE Die
  /\ UNCHANGED <<hostIp, source, faults, phonevars, diskvars>>

\* Faulty variant: leftover mounts are left alone.
UmountNothing ==
  /\ At("umount")
  /\ Goto("clear")
  /\ UNCHANGED <<hostIp, server, source, faults, phonevars, diskvars>>

\* umount /target/data; umount /target; true
UmountTarget ==
  /\ At("umount")
  /\ \/ mounts' = mounts \ {"/target"} /\ UNCHANGED faults
     \/ Fault /\ UNCHANGED mounts
  /\ Goto("clear")
  /\ UNCHANGED <<hostIp, server, source, linkIp, mode, flag, diskvars>>

\* rm -rf, mkdir -p.  A busy mount point is what the script looks for; any
\* other failure of rm leaves part of the old tree and is not seen.
Clear ==
  /\ At("clear")
  /\ UNCHANGED <<hostIp, source, linkIp, mode, mounts, staged, boot>>
  /\ \/ /\ "/target" \notin mounts
        /\ rootfs' = "empty" /\ flag' = "clear"
        /\ Goto("extract")
        /\ UNCHANGED <<server, faults>>
     \/ /\ "/target" \notin mounts /\ Fault
        /\ rootfs' \in {rootfs, "bare"} /\ flag' \in {flag, "clear"}
        /\ Goto("extract")
        /\ UNCHANGED server
     \/ /\ "/target" \in mounts
        /\ rootfs' = "bare" /\ flag' \in {flag, "clear"}
        /\ Die
        /\ UNCHANGED faults

\* wget -O - | tar -xj: what a failed or cut transfer leaves behind.
Extract ==
  /\ At("extract")
  /\ \/ rootfs' = "complete" /\ UNCHANGED faults
     \/ /\ Fault
        /\ rootfs' \in IF rootfs \in LooksSane THEN {rootfs, "cut"}
                       ELSE {rootfs, "bare", "cut"}
  /\ Goto("verify")
  /\ UNCHANGED <<hostIp, server, source, phonevars, staged, boot>>

\* Faulty variant: the listing is printed, not compared.
VerifyAccepts ==
  /\ At("verify")
  /\ Goto("fetch")
  /\ UNCHANGED <<hostIp, server, source, faults, phonevars, diskvars>>

\* ls -1: the five directories must be there.
Verify ==
  /\ At("verify")
  /\ IF rootfs \in LooksSane THEN Goto("fetch") /\ UNCHANGED server ELSE Die
  /\ UNCHANGED <<hostIp, source, faults, phonevars, diskvars>>

\* wget -O /data/hybris-boot.img; a file of an earlier run may be there.
Fetch ==
  /\ At("fetch")
  /\ \/ staged' = "whole" /\ UNCHANGED faults
     \/ Fault /\ staged' \in {staged} \union Copies
  /\ Goto("list")
  /\ UNCHANGED <<hostIp, server, source, phonevars, rootfs, boot>>

List ==
  /\ At("list")
  /\ IF staged # "absent" THEN Goto("sum") /\ UNCHANGED server ELSE Die
  /\ UNCHANGED <<hostIp, source, faults, phonevars, diskvars>>

\* md5sum of the copy on the phone, or None if it prints no sum.
Sum ==
  /\ At("sum")
  /\ \/ source' = staged /\ UNCHANGED faults
     \/ Fault /\ source' = "unknown"
  /\ Goto("write")
  /\ UNCHANGED <<hostIp, server, phonevars, diskvars>>

\* dd bs=512; sync.  It can fail without a word.
Write ==
  /\ At("write")
  /\ \/ /\ boot' = IF staged = "empty" THEN boot ELSE staged
        /\ UNCHANGED faults
     \/ Fault /\ boot' \in {boot, "torn"}
  /\ Goto("readback")
  /\ UNCHANGED <<hostIp, server, source, phonevars, rootfs, staged>>

\* The sum of as many whole blocks of the partition as the file has is
\* compared with the sum of the file.
ReadbackMatches == source # "ragged" /\ boot = source

\* Faulty variant: only a partition that could not be read is an error.
ReadbackAccepts ==
  /\ At("readback")
  /\ Goto("finish")
  /\ UNCHANGED <<hostIp, server, source, faults, phonevars, diskvars>>

\* No sum, or a size of no whole block: nothing is compared.
Readback ==
  /\ At("readback")
  /\ IF source \in {"unknown", "empty"} \/ ReadbackMatches
       THEN Goto("finish") /\ UNCHANGED server
       ELSE Die
  /\ UNCHANGED <<hostIp, source, faults, phonevars, diskvars>>

\* The size is not printed: nothing is compared.
ReadbackSkipped ==
  /\ At("readback") /\ Fault
  /\ source' = "unknown"
  /\ Goto("finish")
  /\ UNCHANGED <<hostIp, server, phonevars, diskvars>>

\* What the phone boots into a system from.
Bootable == boot \in {"before", "whole"}

\* rm, sync, reboot: the shell is closed and the script ends.
Finish ==
  /\ At("finish")
  /\ staged' = "absent"
  /\ pc' = "idle" /\ result' = "ok" /\ server' = "none"
  /\ linkIp' = NoAddress /\ mounts' = {}
  /\ mode' = IF Bootable /\ flag = "clear" THEN "installed" ELSE "off"
  /\ UNCHANGED <<hostIp, source, faults, kills, flag, rootfs, boot>>

\* The connection is gone, so the sentinel never comes and run() gives up;
\* or its reply is cut after the marker and cannot be split.
RunFails ==
  /\ pc \in Drive
  /\ IF Session THEN Fault ELSE UNCHANGED faults
  /\ Die
  /\ UNCHANGED <<hostIp, source, phonevars, diskvars>>

-----------------------------------------------------------------------------
(* The operator, the phone and the link.                                   *)

\* A run, with --skip-fastboot when the recovery is already up.  A system
\* from an earlier run counts as the old one.
Start ==
  /\ pc = "idle" /\ result # "ok"
  /\ \/ mode = "fastboot" /\ pc' = "fastboot"
     \/ mode \in {"halted", "installed"} /\ pc' = "link"
  /\ source' = "unknown"
  /\ UNCHANGED <<result, hostIp, server, phonevars, diskvars, bounds>>

\* Power key and volume down.  Pulled out from under a running script, it
\* is a fault; the operator does it between runs.
EnterFastboot ==
  /\ \/ pc = "idle" /\ mode # "fastboot" /\ result # "ok" /\ UNCHANGED faults
     \/ pc # "idle" /\ Fault
  /\ mode' = "fastboot" /\ linkIp' = NoAddress /\ mounts' = {}
  /\ UNCHANGED <<hostvars, kills, flag, diskvars>>

\* The RNDIS interface is torn down and comes up with another address.
LinkMoves ==
  /\ linkIp # NoAddress /\ Fault
  /\ linkIp' \in Addresses
  /\ UNCHANGED <<hostvars, kills, mode, flag, mounts, diskvars>>

\* Ctrl-C or SIGTERM: bash runs the EXIT trap.
Interrupt ==
  /\ pc # "idle" /\ pc # "arm" /\ Fault
  /\ Die
  /\ UNCHANGED <<hostIp, source, phonevars, diskvars>>

\* SIGKILL, or any signal before the trap is armed: the server lives on.
Kill ==
  /\ pc # "idle" /\ kills < MaxKills
  /\ kills' = kills + 1
  /\ pc' = "idle" /\ result' = "failed"
  /\ server' = IF server = "ours" THEN "orphan" ELSE server
  /\ UNCHANGED <<hostIp, source, faults, phonevars, diskvars>>

\* The operator finds the server that holds the port.
KillOrphan ==
  /\ server = "orphan" /\ pc = "idle"
  /\ server' = "none"
  /\ UNCHANGED <<pc, result, hostIp, source, phonevars, diskvars, bounds>>

-----------------------------------------------------------------------------
ReachSteps ==
  LiveBoot \/ LinkUp \/ ShellAnswers \/ SetFlag \/ LiveBootAgain
    \/ Serve \/ Arm \/ GivesUp
DriveSteps ==
  CheckMount \/ UmountTarget \/ Clear \/ Extract \/ Verify \/ Fetch \/ List
    \/ Sum \/ Write \/ Readback \/ Finish \/ RunFails
Surroundings ==
  SetFlagGoesWrong \/ ReadbackSkipped \/ EnterFastboot \/ LinkMoves \/ Interrupt \/ Kill

Next == ReachSteps \/ DriveSteps \/ Start \/ Surroundings \/ KillOrphan

Spec == Init /\ [][Next]_vars

\* The script runs on, and the operator repeats a failed run, with the phone
\* put into fastboot first when it is not reachable, and sooner or later the
\* server of a dead run is found and killed.
FairSpec ==
  /\ Spec
  /\ WF_vars(ReachSteps \/ DriveSteps) /\ WF_vars(Start)
  /\ WF_vars(mode = "off" /\ EnterFastboot) /\ SF_vars(KillOrphan)

-----------------------------------------------------------------------------
(* Properties.                                                             *)

\* The boot partition is written only over a tree that has the five
\* directories, however often runs fail and are repeated (lines 287-301).
Order == INSTANCE InstallOrder WITH Accepted <- LooksSane
OrderSpec == Order!Spec

\* A run that reports success rebooted into a boot partition whose readback
\* matches the staged image, unless there was no sum or no whole block to
\* compare (lines 312-334).
OkIsReadBack ==
  result = "ok" => boot = source \/ source \in {"unknown", "empty"}

\* The HTTP server dies with its run, on every path that leaves the trap a
\* chance (lines 185-191); the next run would find the port in use.
ServerDiesWithItsRun ==
  pc = "idle" /\ server # "none" => kills > 0

\* A run in which nothing fails succeeds, from an empty phone, from one that
\* went on into its installed system, and whatever address the link comes
\* back with after the bounce (lines 125-178, 266-280).
FaultFreeRunSucceeds == result = "failed" => faults + kills > 0

\* Repeating a failed run succeeds in the end, whatever the failed ones left
\* on the phone: the flag, a half-removed or half-unpacked tree, a leftover
\* mount, a staged image, a torn boot partition; and if nothing went wrong,
\* with a whole system that boots.
RetriesInstall ==
  <>(/\ result = "ok"
     /\ faults = 0 => rootfs = "complete" /\ boot = "whole" /\ mode = "installed")

\* "It refuses to flash the boot partition unless the rootfs extracted
\* correctly." (line 13)
RefusesUnlessExtracted == pc \in {"readback", "finish"} => rootfs = "complete"

-----------------------------------------------------------------------------
(* The inductive invariant behind OrderSpec, OkIsReadBack,                 *)
(* ServerDiesWithItsRun and FaultFreeRunSucceeds.                          *)

\* From the check of the tree to the end of the run it is still sane.
CheckedTree ==
  pc \in {"fetch", "list", "sum", "write", "readback", "finish"} =>
    rootfs \in LooksSane

StagedImage ==
  pc \in {"sum", "write", "readback", "finish"} => staged # "absent"

CheckedBoot ==
  pc = "finish" => boot = source \/ source \in {"unknown", "empty"}

OkRests == result = "ok" => pc = "idle"

\* Whose server it is: a run's own never outlives it, and one that did is of
\* a run that was killed.
OursRuns == server = "ours" => pc # "idle"
OrphanOfAKill == server = "orphan" => kills > 0

\* What a run in which nothing fails relies on: the phone is where the script
\* takes it to be, with the address that was derived last; each command finds
\* what the one before left, so that no check stops the run.
NothingFailed ==
  faults = 0 /\ kills = 0 =>
    /\ result # "failed"
    /\ pc = "idle" => mode \in {"off", "fastboot"} \/ result = "ok"
    /\ pc \in {"fastboot", "bounce"} => mode = "fastboot"
    /\ pc = "bounce" => flag = "set"
    /\ pc \in {"link", "shell"} => mode \in {"halted", "installed"}
    /\ pc \in {"port", "serve"} => mode = "halted"
    /\ pc \in {"link", "shell", "port", "serve"} => linkIp # NoAddress
    /\ pc \in {"arm"} \union Drive => Session
    /\ server = IF pc \in {"arm"} \union Drive THEN "ours" ELSE "none"
    /\ pc \in Reach \union {"mount"} /\ mode = "halted" => mounts # {}
    /\ pc = "clear" => "/target" \notin mounts
    /\ pc = "verify" => rootfs = "complete"
    /\ pc \in {"list", "sum", "write", "readback"} => staged = "whole"
    /\ pc \in {"write", "readback"} => source = "whole"
    /\ pc = "readback" => boot = "whole"

IInv ==
  /\ TypeOK
  /\ CheckedTree
  /\ StagedImage
  /\ CheckedBoot
  /\ OkRests
  /\ OkIsReadBack
  /\ OursRuns
  /\ OrphanOfAKill
  /\ NothingFailed

-----------------------------------------------------------------------------
(* The proofs: the safety properties for every set of addresses, any       *)
(* number of failures and any number of killed runs.                       *)

USE DEF hostvars, phonevars, diskvars, bounds, LooksSane

\* Each step keeps every variable in its set; that there is a staged image
\* when one is summed and written is what StagedImage adds.
LEMMA TypeKept ==
  ASSUME ConstantsAssumption, TypeOK, StagedImage, [Next]_vars PROVE TypeOK'
<1> USE ConstantsAssumption
    DEF ConstantsAssumption, TypeOK, Start0, Reach, Drive, Modes, Trees, Copies,
        Images, Goto, Die, Fault, At
<1>1. CASE LiveBoot BY <1>1 DEF LiveBoot, Boots
<1>2. CASE LiveBootAgain BY <1>2 DEF LiveBootAgain, Boots
<1>3. CASE LinkUp BY <1>3 DEF LinkUp
<1>4. CASE ShellAnswers BY <1>4 DEF ShellAnswers
<1>5. CASE GivesUp BY <1>5 DEF GivesUp
<1>6. CASE SetFlag BY <1>6 DEF SetFlag
<1>7. CASE SetFlagGoesWrong BY <1>7 DEF SetFlagGoesWrong, Boots
<1>8. CASE Serve BY <1>8 DEF Serve
<1>9. CASE Arm BY <1>9 DEF Arm
<1>10. CASE CheckMount BY <1>10 DEF CheckMount
<1>11. CASE UmountTarget
  <2>1. mounts' \in SUBSET {"/data", "/target"} BY <1>11 DEF UmountTarget
  <2> QED BY <1>11, <2>1 DEF UmountTarget
<1>12. CASE Clear BY <1>12 DEF Clear
<1>13. CASE Extract BY <1>13 DEF Extract
<1>14. CASE Verify BY <1>14 DEF Verify
<1>15. CASE Fetch BY <1>15 DEF Fetch
<1>16. CASE List BY <1>16 DEF List
<1>17. CASE Sum BY <1>17 DEF Sum, StagedImage
<1>18. CASE Write BY <1>18 DEF Write, StagedImage
<1>19. CASE Readback BY <1>19 DEF Readback
<1>20. CASE ReadbackSkipped BY <1>20 DEF ReadbackSkipped
<1>21. CASE Finish BY <1>21 DEF Finish
<1>22. CASE RunFails BY <1>22 DEF RunFails
<1>23. CASE Start BY <1>23 DEF Start
<1>24. CASE Interrupt BY <1>24 DEF Interrupt
<1>25. CASE Kill BY <1>25 DEF Kill
<1>26. CASE KillOrphan BY <1>26 DEF KillOrphan
<1>27. CASE EnterFastboot BY <1>27 DEF EnterFastboot
<1>28. CASE LinkMoves BY <1>28 DEF LinkMoves
<1>29. CASE UNCHANGED vars BY <1>29 DEF vars
<1> QED
  BY <1>1, <1>2, <1>3, <1>4, <1>5, <1>6, <1>7, <1>8, <1>9, <1>10, <1>11,
     <1>12, <1>13, <1>14, <1>15, <1>16, <1>17, <1>18, <1>19, <1>20, <1>21,
     <1>22, <1>23, <1>24, <1>25, <1>26, <1>27, <1>28, <1>29
     DEF Next, ReachSteps, DriveSteps, Surroundings

\* What the script has checked, it has checked of what is there: no step but
\* its own touches the tree, the staged image or the boot partition.
Checks == CheckedTree /\ StagedImage /\ CheckedBoot /\ OkRests /\ OkIsReadBack

LEMMA ChecksKept ==
  ASSUME TypeOK, Checks, [Next]_vars PROVE Checks'
<1> USE DEF TypeOK, Reach, Drive, Checks, CheckedTree, StagedImage, CheckedBoot, OkRests,
            OkIsReadBack, Goto, Die, Fault, At
<1>1. CASE LiveBoot BY <1>1 DEF LiveBoot
<1>2. CASE LiveBootAgain BY <1>2 DEF LiveBootAgain
<1>3. CASE LinkUp BY <1>3 DEF LinkUp
<1>4. CASE ShellAnswers BY <1>4 DEF ShellAnswers
<1>5. CASE GivesUp BY <1>5 DEF GivesUp
<1>6. CASE SetFlag BY <1>6 DEF SetFlag
<1>7. CASE SetFlagGoesWrong BY <1>7 DEF SetFlagGoesWrong
<1>8. CASE Serve BY <1>8 DEF Serve
<1>9. CASE Arm BY <1>9 DEF Arm
<1>10. CASE CheckMount BY <1>10 DEF CheckMount
<1>11. CASE UmountTarget BY <1>11 DEF UmountTarget
<1>12. CASE Clear BY <1>12 DEF Clear
<1>13. CASE Extract BY <1>13 DEF Extract
<1>14. CASE Verify BY <1>14 DEF Verify
<1>15. CASE Fetch BY <1>15 DEF Fetch, Copies
<1>16. CASE List BY <1>16 DEF List, Copies
<1>17. CASE Sum BY <1>17 DEF Sum, Copies
<1>18. CASE Write BY <1>18 DEF Write
<1>19. CASE Readback BY <1>19 DEF Readback, ReadbackMatches
<1>20. CASE ReadbackSkipped BY <1>20 DEF ReadbackSkipped
<1>21. CASE Finish BY <1>21 DEF Finish
<1>22. CASE RunFails BY <1>22 DEF RunFails
<1>23. CASE Start BY <1>23 DEF Start
<1>24. CASE Interrupt BY <1>24 DEF Interrupt
<1>25. CASE Kill BY <1>25 DEF Kill
<1>26. CASE KillOrphan BY <1>26 DEF KillOrphan
<1>27. CASE EnterFastboot BY <1>27 DEF EnterFastboot
<1>28. CASE LinkMoves BY <1>28 DEF LinkMoves
<1>29. CASE UNCHANGED vars BY <1>29 DEF vars
<1> QED
  BY <1>1, <1>2, <1>3, <1>4, <1>5, <1>6, <1>7, <1>8, <1>9, <1>10, <1>11,
     <1>12, <1>13, <1>14, <1>15, <1>16, <1>17, <1>18, <1>19, <1>20, <1>21,
     <1>22, <1>23, <1>24, <1>25, <1>26, <1>27, <1>28, <1>29
     DEF Next, ReachSteps, DriveSteps, Surroundings

\* The server is a run's own, or left by one that was killed.
Owner == OursRuns /\ OrphanOfAKill

LEMMA ServerKept ==
  ASSUME ConstantsAssumption, TypeOK, Owner, [Next]_vars PROVE Owner'
<1> USE ConstantsAssumption
    DEF ConstantsAssumption, TypeOK, Start0, Reach, Drive, Owner, OursRuns,
        OrphanOfAKill, Goto, Die, Fault, At
<1>1. CASE LiveBoot BY <1>1 DEF LiveBoot
<1>2. CASE LiveBootAgain BY <1>2 DEF LiveBootAgain
<1>3. CASE LinkUp BY <1>3 DEF LinkUp
<1>4. CASE ShellAnswers BY <1>4 DEF ShellAnswers
<1>5. CASE GivesUp BY <1>5 DEF GivesUp
<1>6. CASE SetFlag BY <1>6 DEF SetFlag
<1>7. CASE SetFlagGoesWrong BY <1>7 DEF SetFlagGoesWrong
<1>8. CASE Serve BY <1>8 DEF Serve
<1>9. CASE Arm BY <1>9 DEF Arm
<1>10. CASE CheckMount BY <1>10 DEF CheckMount
<1>11. CASE UmountTarget BY <1>11 DEF UmountTarget
<1>12. CASE Clear BY <1>12 DEF Clear
<1>13. CASE Extract BY <1>13 DEF Extract
<1>14. CASE Verify BY <1>14 DEF Verify
<1>15. CASE Fetch BY <1>15 DEF Fetch
<1>16. CASE List BY <1>16 DEF List
<1>17. CASE Sum BY <1>17 DEF Sum
<1>18. CASE Write BY <1>18 DEF Write
<1>19. CASE Readback BY <1>19 DEF Readback
<1>20. CASE ReadbackSkipped BY <1>20 DEF ReadbackSkipped
<1>21. CASE Finish BY <1>21 DEF Finish
<1>22. CASE RunFails BY <1>22 DEF RunFails
<1>23. CASE Start BY <1>23 DEF Start
<1>24. CASE Interrupt BY <1>24 DEF Interrupt
<1>25. CASE Kill BY <1>25 DEF Kill
<1>26. CASE KillOrphan BY <1>26 DEF KillOrphan
<1>27. CASE EnterFastboot BY <1>27 DEF EnterFastboot
<1>28. CASE LinkMoves BY <1>28 DEF LinkMoves
<1>29. CASE UNCHANGED vars BY <1>29 DEF vars
<1> QED
  BY <1>1, <1>2, <1>3, <1>4, <1>5, <1>6, <1>7, <1>8, <1>9, <1>10, <1>11,
     <1>12, <1>13, <1>14, <1>15, <1>16, <1>17, <1>18, <1>19, <1>20, <1>21,
     <1>22, <1>23, <1>24, <1>25, <1>26, <1>27, <1>28, <1>29
     DEF Next, ReachSteps, DriveSteps, Surroundings

\* As long as nothing fails each command finds what it relies on, so that no
\* die is reached.
LEMMA FaultFreeKept ==
  ASSUME ConstantsAssumption, TypeOK, NothingFailed, [Next]_vars PROVE NothingFailed'
<1> USE ConstantsAssumption
    DEF ConstantsAssumption, TypeOK, Start0, Reach, Drive, NothingFailed,
        Session, Goto, Die, Fault, At
<1>1. CASE LiveBoot BY <1>1 DEF LiveBoot, Boots
<1>2. CASE LiveBootAgain BY <1>2 DEF LiveBootAgain, Boots
<1>3. CASE LinkUp BY <1>3 DEF LinkUp
<1>4. CASE ShellAnswers BY <1>4 DEF ShellAnswers
<1>5. CASE GivesUp BY <1>5 DEF GivesUp
<1>6. CASE SetFlag BY <1>6 DEF SetFlag
<1>7. CASE SetFlagGoesWrong BY <1>7 DEF SetFlagGoesWrong, Boots
<1>8. CASE Serve BY <1>8 DEF Serve
<1>9. CASE Arm BY <1>9 DEF Arm
<1>10. CASE CheckMount BY <1>10 DEF CheckMount
<1>11. CASE UmountTarget BY <1>11 DEF UmountTarget
<1>12. CASE Clear BY <1>12 DEF Clear
<1>13. CASE Extract BY <1>13 DEF Extract
<1>14. CASE Verify BY <1>14 DEF Verify
<1>15. CASE Fetch BY <1>15 DEF Fetch
<1>16. CASE List BY <1>16 DEF List
<1>17. CASE Sum BY <1>17 DEF Sum
<1>18. CASE Write BY <1>18 DEF Write
<1>19. CASE Readback BY <1>19 DEF Readback, ReadbackMatches
<1>20. CASE ReadbackSkipped BY <1>20 DEF ReadbackSkipped
<1>21. CASE Finish BY <1>21 DEF Finish
<1>22. CASE RunFails BY <1>22 DEF RunFails
<1>23. CASE Start BY <1>23 DEF Start
<1>24. CASE Interrupt BY <1>24 DEF Interrupt
<1>25. CASE Kill BY <1>25 DEF Kill
<1>26. CASE KillOrphan BY <1>26 DEF KillOrphan
<1>27. CASE EnterFastboot BY <1>27 DEF EnterFastboot
<1>28. CASE LinkMoves BY <1>28 DEF LinkMoves
<1>29. CASE UNCHANGED vars BY <1>29 DEF vars
<1> QED
  BY <1>1, <1>2, <1>3, <1>4, <1>5, <1>6, <1>7, <1>8, <1>9, <1>10, <1>11,
     <1>12, <1>13, <1>14, <1>15, <1>16, <1>17, <1>18, <1>19, <1>20, <1>21,
     <1>22, <1>23, <1>24, <1>25, <1>26, <1>27, <1>28, <1>29
     DEF Next, ReachSteps, DriveSteps, Surroundings

-----------------------------------------------------------------------------
\* Every reachable state satisfies the inductive invariant.
THEOREM Invariance == ASSUME ConstantsAssumption PROVE Spec => []IInv
<1>1. Init => IInv
  BY DEF ConstantsAssumption, Init, IInv, TypeOK, Start0, Reach, Drive, Modes,
         Trees, Copies, Images, CheckedTree, StagedImage, CheckedBoot, OkRests,
         OkIsReadBack, OursRuns, OrphanOfAKill, NothingFailed
<1>2. IInv /\ [Next]_vars => IInv'
  <2> SUFFICES ASSUME IInv, [Next]_vars PROVE IInv' OBVIOUS
  <2>1. TypeOK /\ Checks /\ Owner BY DEF IInv, Checks, Owner
  <2>2. TypeOK' BY <2>1, TypeKept DEF Checks
  <2>3. Checks' BY <2>1, ChecksKept
  <2>4. Owner' BY <2>1, ServerKept
  <2>5. NothingFailed' BY FaultFreeKept DEF IInv
  <2> QED BY <2>2, <2>3, <2>4, <2>5 DEF IInv, Checks, Owner
<1> QED BY <1>1, <1>2, PTL DEF Spec

\* Type correctness of Flash.
THEOREM TypeCorrect == ASSUME ConstantsAssumption PROVE Spec => []TypeOK
<1>1. IInv => TypeOK BY DEF IInv
<1> QED BY <1>1, Invariance, PTL

\* A run that reports success rebooted into a boot partition that it read
\* back, or could not (flash.sh, lines 312-334).
THEOREM SuccessIsReadBack ==
  ASSUME ConstantsAssumption PROVE Spec => []OkIsReadBack
<1>1. IInv => OkIsReadBack BY DEF IInv
<1> QED BY <1>1, Invariance, PTL

\* The HTTP server dies with its run unless that was killed: every die, every
\* signal that leaves the trap its chance, and success reap it (lines 185-191).
THEOREM ServerIsReaped ==
  ASSUME ConstantsAssumption PROVE Spec => []ServerDiesWithItsRun
<1>1. IInv => ServerDiesWithItsRun
  BY DEF IInv, TypeOK, OursRuns, OrphanOfAKill, ServerDiesWithItsRun
<1> QED BY <1>1, Invariance, PTL

\* A run in which nothing fails succeeds, whatever system the phone went on
\* into and whatever address the link came back with (lines 125-178, 266-280).
THEOREM NoFaultNoFailure ==
  ASSUME ConstantsAssumption PROVE Spec => []FaultFreeRunSucceeds
<1>1. IInv => FaultFreeRunSucceeds
  BY DEF ConstantsAssumption, IInv, TypeOK, NothingFailed, FaultFreeRunSucceeds
<1> QED BY <1>1, Invariance, PTL

\* flash.sh implements InstallOrder: each step replaces the tree, or writes
\* the boot partition over a tree that looks sane, or touches neither.
THEOREM OrderIsKept == ASSUME ConstantsAssumption PROVE Spec => OrderSpec
<1>1. Init => Order!Init BY DEF Init, Order!Init, Trees, Images
<1>2. IInv /\ IInv' /\ [Next]_vars => [Order!Next]_(Order!ivars)
  <2> SUFFICES ASSUME IInv, IInv', [Next]_vars
               PROVE  Order!Next \/ UNCHANGED Order!ivars
    OBVIOUS
  <2>1. CASE UNCHANGED boot
    <3>1. Order!Replace BY <2>1 DEF IInv, TypeOK, Order!Replace
    <3> QED BY <3>1 DEF Order!Next
  <2>2. CASE Write
    <3>1. Order!Write
      BY <2>2 DEF Write, At, IInv, TypeOK, CheckedTree, Order!Write
    <3> QED BY <3>1 DEF Order!Next
  <2>3. UNCHANGED boot \/ Write
    BY DEF Next, ReachSteps, DriveSteps, Surroundings, vars, LiveBoot,
           LiveBootAgain, LinkUp, ShellAnswers, GivesUp, SetFlag,
           SetFlagGoesWrong, Serve, Arm, CheckMount, UmountTarget, Clear, Extract,
           Verify, Fetch, List, Sum, Readback, ReadbackSkipped, Finish, RunFails,
           Interrupt, Kill, Start, KillOrphan, EnterFastboot, LinkMoves
  <2> QED BY <2>1, <2>2, <2>3
<1> QED BY <1>1, <1>2, Invariance, PTL DEF Spec, OrderSpec, Order!Spec
=============================================================================
