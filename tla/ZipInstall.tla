------------------------------ MODULE ZipInstall ----------------------------
(***************************************************************************)
(* scripts/update-binary, the shell installer inside the flashable zip.    *)
(* The statuses of mount, rm and unzip are not looked at; those of tar and *)
(* dd are.  When /data is not mounted everything lands in the recovery's   *)
(* memory.  A failed or killed installation may be repeated; the phone is  *)
(* back in a freshly booted recovery then.                                 *)
(***************************************************************************)
EXTENDS Integers

CONSTANTS MaxFaults   \* bound on commands that fail or are cut short

VARIABLES
  pc, rc,    \* where the installer is; exit status of the latest run that ended
  mounted,   \* userdata is mounted on /data
  rootfs,    \* .stowaways/sailfishos on userdata
  inMemory,  \* .stowaways/sailfishos in the recovery's memory
  tarball,   \* the unzipped tarball
  image,     \* the unzipped hybris-boot.img
  boot,      \* what the boot partition holds
  faults

vars == <<pc, rc, mounted, rootfs, inMemory, tarball, image, boot, faults>>

Trees  == {"old", "empty", "cut", "complete"}
Copies == {"absent", "cut", "whole"}
Images == {"before", "cut", "whole"}

TypeOK ==
  /\ pc \in {"idle", "mount", "clear", "unzip", "tar", "dd", "clean"}
  /\ rc \in {0, 1}
  /\ mounted \in BOOLEAN
  /\ rootfs \in Trees /\ inMemory \in Trees
  /\ tarball \in Copies /\ image \in Copies
  /\ boot \in Images
  /\ faults \in 0 .. MaxFaults

Init ==
  /\ pc = "idle" /\ rc = 1 /\ mounted = FALSE
  /\ rootfs \in {"old", "empty"} /\ inMemory = "empty"
  /\ tarball = "absent" /\ image = "absent"
  /\ boot = "before" /\ faults = 0

Fault == faults < MaxFaults /\ faults' = faults + 1

Exit(s) == pc' = "idle" /\ rc' = s

\* The recovery, freshly booted, hands the zip to the installer.
Start ==
  /\ pc = "idle" /\ rc # 0
  /\ pc' = "mount"
  /\ mounted' = FALSE /\ inMemory' = "empty"
  /\ UNCHANGED <<rc, rootfs, tarball, image, boot, faults>>

Mount ==
  /\ pc = "mount"
  /\ \/ mounted' = TRUE /\ UNCHANGED faults
     \/ mounted' = FALSE /\ Fault
  /\ pc' = "clear"
  /\ UNCHANGED <<rc, rootfs, inMemory, tarball, image, boot>>

\* The tree under /data becomes t.
SetTree(t) ==
  IF mounted THEN rootfs' = t /\ UNCHANGED inMemory
             ELSE inMemory' = t /\ UNCHANGED rootfs

Tree == IF mounted THEN rootfs ELSE inMemory

\* rm -rf; mkdir -p.
Clear ==
  /\ pc = "clear"
  /\ \/ SetTree("empty") /\ UNCHANGED faults
     \/ SetTree(Tree) /\ Fault
  /\ pc' = "unzip"
  /\ UNCHANGED <<rc, mounted, tarball, image, boot>>

\* unzip -o, hybris-boot.img first; a full disk or a bad zip cuts it short.
Unzip ==
  /\ pc = "unzip"
  /\ \/ image' = "whole" /\ tarball' = "whole" /\ UNCHANGED faults
     \/ image' = "whole" /\ tarball' \in {tarball, "cut"} /\ Fault
     \/ image' \in {image, "cut"} /\ UNCHANGED tarball /\ Fault
  /\ pc' = "tar"
  /\ UNCHANGED <<rc, mounted, rootfs, inMemory, boot>>

\* Faulty variant: the status of tar is not looked at.
TarUnchecked ==
  /\ pc = "tar"
  /\ SetTree(IF tarball = "whole" THEN "complete" ELSE "cut")
  /\ pc' = "dd"
  /\ UNCHANGED <<rc, mounted, tarball, image, boot, faults>>

Tar ==
  /\ pc = "tar"
  /\ \/ /\ tarball = "whole"
        /\ SetTree("complete") /\ pc' = "dd"
        /\ UNCHANGED <<rc, faults>>
     \/ /\ tarball # "whole"
        /\ SetTree("cut") /\ Exit(1)
        /\ UNCHANGED faults
     \/ /\ Fault
        /\ SetTree("cut") /\ Exit(1)
  /\ UNCHANGED <<mounted, tarball, image, boot>>

Dd ==
  /\ pc = "dd"
  /\ \/ /\ image # "absent"
        /\ boot' = image /\ pc' = "clean"
        /\ UNCHANGED <<rc, faults>>
     \/ /\ image = "absent"
        /\ Exit(1)
        /\ UNCHANGED <<boot, faults>>
     \/ Fault /\ boot' \in {boot, "cut"} /\ Exit(1)
  /\ UNCHANGED <<mounted, rootfs, inMemory, tarball, image>>

\* rm -rf /data/sfos_installer; umount /data; exit 0.
Clean ==
  /\ pc = "clean"
  /\ tarball' = "absent" /\ image' = "absent" /\ mounted' = FALSE
  /\ Exit(0)
  /\ UNCHANGED <<rootfs, inMemory, boot, faults>>

\* The recovery is killed, or the power goes, between two commands.
Killed ==
  /\ pc # "idle" /\ Fault
  /\ Exit(1)
  /\ UNCHANGED <<mounted, rootfs, inMemory, tarball, image, boot>>

Next ==
  \/ Start \/ Mount \/ Clear \/ Unzip \/ Tar \/ Dd \/ Clean \/ Killed

Spec == Init /\ [][Next]_vars

-----------------------------------------------------------------------------
(* Properties.                                                             *)

\* The boot partition is written only when the tarball was extracted whole
\* into what is under /data (lines 26-38).
Order == INSTANCE InstallOrder WITH
  Trees <- Trees, Accepted <- {"complete"}, Images <- Images, rootfs <- Tree

OrderSpec == Order!Spec

-----------------------------------------------------------------------------
(* The inductive invariant (MCInstall_proofs).                             *)

\* Tar is left for dd only with the tree extracted whole, and nothing between
\* the two commands removes or unmounts it; a run starts with what is under
\* /data of its own recovery.
CheckedTree == pc = "dd" => Tree = "complete"

IInv == TypeOK /\ CheckedTree
=============================================================================
