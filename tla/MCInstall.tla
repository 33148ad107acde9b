------------------------------ MODULE MCInstall ------------------------------
(***************************************************************************)
(* What brings the system onto the phone, for TLC: the build scripts       *)
(* (without and with steps run by hand and failures), the zip installer,   *)
(* the Waydroid installers with sessions between them, and the debug       *)
(* shell's client.  One of them runs.                                      *)
(***************************************************************************)
EXTENDS Integers, Sequences

CONSTANTS
  MaxRevision,       \* bounds of the build as it is used,
  MaxRevisionByHand, \* and with steps run by hand
  MaxHandFaults,
  MaxZipFaults,      \* of the zip installer
  MaxSetupRuns,      \* of the Waydroid installers
  MaxSetupFaults,
  MaxLines           \* of a command's output on the debug shell

ASSUME ConstantsAssumption ==
  /\ {MaxRevision, MaxRevisionByHand} \subseteq Nat \ {0}
  /\ {MaxHandFaults, MaxZipFaults, MaxSetupRuns, MaxSetupFaults, MaxLines} \subseteq Nat

VARIABLES
  running,  \* the program that runs
  source, out, clean, packages, signed, report,
  image, boot, pc,
  faults,
  rc, mounted, rootfs, inMemory, tarball,
  ipc, iruns, keep, home, overlaysOn, opc, oruns, container, session,
  download, overlay, rw, lib, installed, early,
  length, late, sent, received, why

Build == INSTANCE BuildPipeline WITH
  MaxFaults <- 0, ByHand <- FALSE

ByHand == INSTANCE BuildPipeline WITH
  MaxRevision <- MaxRevisionByHand, MaxFaults <- MaxHandFaults, ByHand <- TRUE

Zip == INSTANCE ZipInstall WITH MaxFaults <- MaxZipFaults

Setup == INSTANCE WaydroidSetup WITH
  MaxRuns <- MaxSetupRuns, MaxFaults <- MaxSetupFaults

Shell == INSTANCE DevShell

buildVars == <<source, out, clean, packages, signed, report>>
bootVars == <<image, boot, pc>>
faultsVars == <<faults>>
zipVars == <<rc, mounted, rootfs, inMemory, tarball>>
setupVars == <<ipc, iruns, keep, home, overlaysOn, opc, oruns, container,
               session, download, overlay, rw, lib, installed,
               early>>
shellVars == <<length, late, sent, received, why>>
vars == <<running, buildVars, bootVars, faultsVars, zipVars, setupVars,
          shellVars>>

\* What a program that does not run leaves unused.
Unused == "unused"
NoBuild ==
  /\ source = Unused /\ out = Unused /\ clean = Unused /\ packages = Unused
  /\ signed = Unused /\ report = Unused
NoBoot == image = Unused /\ boot = Unused /\ pc = Unused
NoFaults == faults = Unused
NoZip ==
  /\ rc = Unused /\ mounted = Unused /\ rootfs = Unused /\ inMemory = Unused
  /\ tarball = Unused
NoSetup ==
  /\ ipc = Unused /\ iruns = Unused /\ keep = Unused /\ home = Unused
  /\ overlaysOn = Unused /\ opc = Unused /\ oruns = Unused
  /\ container = Unused /\ session = Unused /\ download = Unused
  /\ overlay = Unused /\ rw = Unused /\ lib = Unused /\ installed = Unused
  /\ early = Unused
NoShell ==
  /\ length = Unused /\ late = Unused /\ sent = Unused /\ received = Unused
  /\ why = Unused

Init ==
  \/ running = "build" /\ Build!Init /\ NoZip /\ NoSetup /\ NoShell
  \/ running = "build by hand" /\ ByHand!Init /\ NoZip /\ NoSetup /\ NoShell
  \/ running = "zip" /\ Zip!Init /\ NoBuild /\ NoSetup /\ NoShell
  \/ running = "setup" /\ Setup!Init /\ NoBuild /\ NoBoot /\ NoZip /\ NoShell
  \/ running = "shell" /\ Shell!Init /\ NoBuild /\ NoBoot /\ NoFaults /\ NoZip
       /\ NoSetup

Next ==
  \/ /\ running = "build" /\ Build!Next
     /\ UNCHANGED <<running, zipVars, setupVars, shellVars>>
  \/ /\ running = "build by hand" /\ ByHand!Next
     /\ UNCHANGED <<running, zipVars, setupVars, shellVars>>
  \/ /\ running = "zip" /\ Zip!Next
     /\ UNCHANGED <<running, buildVars, setupVars, shellVars>>
  \/ /\ running = "setup" /\ Setup!Next
     /\ UNCHANGED <<running, buildVars, bootVars, zipVars, shellVars>>
  \/ /\ running = "shell" /\ Shell!Next
     /\ UNCHANGED <<running, buildVars, bootVars, faultsVars, zipVars,
                    setupVars>>

Spec == Init /\ [][Next]_vars

-----------------------------------------------------------------------------
\* What is shipped together belongs together.  Used as they are and with no
\* step failing, the scripts make an image only of packages that have the
\* modules of the kernel in out/ and the clean updater (the guard of
\* build-image.sh), and in any case the boot image is never older than the
\* rootfs beside it, whose modules its kernel has to load (stage-boot-img.sh).
ImageIsFromThisBuild ==
  /\ running = "build" => Build!ImageIsFromThisBuild /\ Build!BootNotOlder
  /\ running = "build by hand" => ByHand!BootNotOlder

\* update-binary implements InstallOrder: the boot partition is written only
\* when the tarball was extracted whole into what is under /data (26-38).
OrderSpec ==
  /\ running = "zip" => Zip!Order!Init
  /\ [][running = "zip" => [Zip!Order!Next]_(Zip!Order!ivars)]_vars

\* devshell.py: when run() stops at the end marker, it returns all the command
\* printed and nothing else, however the output was cut into chunks.
EndMeansAll == running = "shell" => Shell!EndMeansAll

\* install.sh: a first run has the images in one place or the other however it
\* ends: they are renamed, never copied, after the empty tree is gone.
FirstRunKeepsImages == running = "setup" => Setup!FirstRunKeepsImages

\* install-hwc-overlay.sh: a library that was installed whole is the one the
\* next session runs with, whatever an earlier session had merged and whether or
\* not it was stopped, unless one merged the old library during the install.
InstalledIsTaken ==
  [][running = "setup" /\ installed /\ overlaysOn /\ ~session /\ session' /\ ~early =>
       lib' = "new"]_vars
=============================================================================
