---------------------------- MODULE BuildPipeline ---------------------------
(***************************************************************************)
(* From the kernel source to what is flashed: build-hal.sh,                *)
(* install-clean-updater.sh, build-hal-packages.sh, build-image.sh,        *)
(* stage-boot-img.sh and sign-installer-zip.sh, run by an operator in any  *)
(* order over one out/ directory, one package repository and one image     *)
(* directory.  A revision stands for a state of the kernel source.         *)
(***************************************************************************)
EXTENDS Integers

CONSTANTS
  MaxRevision, \* bound on the kernel's revisions
  MaxFaults,   \* bound on the steps that fail
  ByHand       \* the operator also runs single steps: -d, the clean updater

VARIABLES
  source,   \* the revision in the tree
  out,      \* out/: [kernel, updater]
  clean,    \* prebuilts/recovery/update-binary is there
  packages, \* droid-hal's packages: [modules, updater]
  image,    \* the rootfs and zip: [modules, updater, age], or NoImage
  boot,     \* the kernel of hybris-boot.img beside it, or 0
  signed,   \* the signed installer: [modules, updater], or NoZip
  pc,       \* the script that runs: "idle", "device", "configs" or "mic"
  report,   \* of the last build-image.sh: "none", "refused", "ok", "error"
  faults

vars == <<source, out, clean, packages, image, boot, signed, pc, report, faults>>

NoZip == [modules |-> 0, updater |-> "none"]
NoImage == [modules |-> 0, updater |-> "none", age |-> "none"]
Zip(i) == [modules |-> i.modules, updater |-> i.updater]

Init ==
  /\ source = 1
  /\ out = [kernel |-> 0, updater |-> "none"]
  /\ clean = FALSE
  /\ packages = NoZip /\ image = NoImage /\ boot = 0 /\ signed = NoZip
  /\ pc = "idle" /\ report = "none"
  /\ faults = 0

Fault == faults < MaxFaults /\ faults' = faults + 1

EditKernel ==
  /\ pc = "idle" /\ source < MaxRevision
  /\ source' = source + 1
  /\ UNCHANGED <<out, clean, packages, image, boot, signed, pc, report, faults>>

\* build-hal.sh: any make leaves the patched updater in out/.
BuildHal ==
  /\ pc = "idle"
  /\ out' = [kernel |-> source, updater |-> "patched"]
  /\ UNCHANGED <<source, clean, packages, image, boot, signed, pc, report, faults>>

\* build-los-recovery.sh, from the unpatched tree and in a directory of its own.
BuildRecovery ==
  /\ pc = "idle"
  /\ clean' = TRUE
  /\ UNCHANGED <<source, out, packages, image, boot, signed, pc, report, faults>>

\* install-clean-updater.sh, alone.
InstallClean ==
  /\ ByHand /\ pc = "idle" /\ clean
  /\ out' = [out EXCEPT !.updater = "clean"]
  /\ UNCHANGED <<source, clean, packages, image, boot, signed, pc, report, faults>>

\* build_packages.sh -d, alone.
PackageByHand ==
  /\ ByHand /\ pc = "idle" /\ out.kernel > 0
  /\ packages' = [modules |-> out.kernel, updater |-> out.updater]
  /\ UNCHANGED <<source, out, clean, image, boot, signed, pc, report, faults>>

\* build-hal-packages.sh, under set -e: the clean updater, then -d, then -c.
BeginPackages ==
  /\ pc = "idle" /\ clean /\ out.kernel > 0
  /\ out' = [out EXCEPT !.updater = "clean"]
  /\ pc' = "device"
  /\ UNCHANGED <<source, clean, packages, image, boot, signed, report, faults>>

PackageDevice ==
  /\ pc = "device"
  /\ packages' = [modules |-> out.kernel, updater |-> out.updater]
  /\ pc' = "configs"
  /\ UNCHANGED <<source, out, clean, image, boot, signed, report, faults>>

PackageConfigs ==
  /\ pc = "configs" /\ pc' = "idle"
  /\ UNCHANGED <<source, out, clean, packages, image, boot, signed, report, faults>>

PackagesFail ==
  /\ pc \in {"device", "configs"} /\ Fault
  /\ pc' = "idle"
  /\ UNCHANGED <<source, out, clean, packages, image, boot, signed, report>>

\* Faulty variant: there is no guard.
NoGuard == TRUE

\* build-image.sh: the guard compares out/'s updater, where there is a clean
\* one to compare it with.
Guard == clean => out.updater = "clean"

BuildImage ==
  /\ pc = "idle" /\ packages # NoZip
  /\ IF Guard THEN pc' = "mic" /\ report' = "none" ELSE report' = "refused" /\ UNCHANGED pc
  /\ UNCHANGED <<source, out, clean, packages, image, boot, signed, faults>>

Recent(i) == i.age \in {"now", "recent"}

\* mic wipes the directory and makes rootfs and zip from the packages; or it
\* fails, which its caller does not say, with the old ones there or not.
\* Then the age of the rootfs decides.
Mic ==
  /\ pc = "mic" /\ pc' = "idle"
  /\ \/ image' = [modules |-> packages.modules, updater |-> packages.updater, age |-> "now"]
        /\ boot' = 0 /\ UNCHANGED faults
     \/ Fault /\ image' = NoImage /\ boot' = 0
     \/ Fault /\ UNCHANGED <<image, boot>>
  /\ report' = IF Recent(image') THEN "ok" ELSE "error"
  /\ UNCHANGED <<source, out, clean, packages, signed>>

\* Time: what was made just now, what is not half an hour old, and the rest.
Ages ==
  /\ Recent(image)
  /\ image' = [image EXCEPT !.age = IF @ = "now" THEN "recent" ELSE "old"]
  /\ UNCHANGED <<source, out, clean, packages, boot, signed, pc, report, faults>>

\* stage-boot-img.sh
StageBoot ==
  /\ pc = "idle" /\ image # NoImage /\ out.kernel > 0
  /\ boot' = out.kernel
  /\ UNCHANGED <<source, out, clean, packages, image, signed, pc, report, faults>>

\* sign-installer-zip.sh
Sign ==
  /\ pc = "idle" /\ image # NoImage
  /\ signed' = Zip(image)
  /\ UNCHANGED <<source, out, clean, packages, image, boot, pc, report, faults>>

Next ==
  \/ EditKernel
  \/ BuildHal
  \/ BuildRecovery
  \/ InstallClean
  \/ PackageByHand
  \/ BeginPackages
  \/ PackageDevice
  \/ PackageConfigs
  \/ PackagesFail
  \/ BuildImage
  \/ Mic
  \/ Ages
  \/ StageBoot
  \/ Sign

Spec == Init /\ [][Next]_vars

-----------------------------------------------------------------------------
Updaters == {"none", "patched", "clean"}

\* No step of the way has what the step before it never had.
TypeOK ==
  /\ source \in 1 .. MaxRevision
  /\ out \in [kernel : 0 .. source, updater : Updaters]
  /\ clean \in BOOLEAN
  /\ packages \in [modules : 0 .. out.kernel, updater : Updaters]
  /\ image \in [modules : 0 .. packages.modules, updater : Updaters,
                 age : {"none", "now", "recent", "old"}]
  /\ signed \in [modules : 0 .. packages.modules, updater : Updaters]
  /\ boot \in 0 .. out.kernel
  /\ pc \in {"idle", "device", "configs", "mic"}
  /\ faults \in 0 .. MaxFaults

\* The kernel in out/ was packaged with its modules and the clean updater
\* before an image may be made: a new build is refused until
\* build-hal-packages.sh has run through.  What is reported made installs.
ImageIsFromThisBuild ==
  /\ pc = "mic" => packages = [modules |-> out.kernel, updater |-> "clean"]
  /\ report = "ok" => image.updater = "clean"

\* The boot image that is served is never older than the rootfs beside it,
\* whose modules its kernel has to load.
BootNotOlder == boot # 0 => boot >= image.modules

-----------------------------------------------------------------------------
(* The inductive invariants (MCInstall_proofs).                            *)

BootIInv == TypeOK /\ BootNotOlder

\* Used as they are and with no step failing, the scripts have the clean
\* updater in out/ only together with the packages of the kernel that is there:
\* a build takes it away, and who puts it back packages at once.
CleanIsPackaged ==
  LET thisBuild == [modules |-> out.kernel, updater |-> "clean"]
  IN  /\ packages # NoZip => clean
      /\ pc = "device" => out.updater = "clean" /\ clean
      /\ pc \in {"configs", "mic"} => packages = thisBuild
      /\ pc = "idle" /\ out.updater = "clean" => packages = thisBuild
      /\ report = "ok" => image.updater = "clean"

IInv == BootIInv /\ CleanIsPackaged
=============================================================================
