---------------------------- MODULE WaydroidSetup ---------------------------
(***************************************************************************)
(* What scripts/waydroid does to an installed Waydroid: install.sh, which  *)
(* puts preserved images back after a reflash, and install-hwc-overlay.sh, *)
(* which replaces a library through the overlay.  A session merges the     *)
(* overlay into overlay_rw, where it leaves alone what is there (this      *)
(* port's patch of Waydroid).                                              *)
(***************************************************************************)
EXTENDS Integers

CONSTANTS MaxRuns, MaxFaults  \* bounds on the runs of each script, and on faults

VARIABLES
  ipc, iruns,        \* install.sh: the next command, and its runs
  keep, home,        \* /data/waydroid-keep and /home/waydroid: what is there
  overlaysOn,        \* mount_overlays in waydroid.cfg
  opc, oruns,        \* install-hwc-overlay.sh
  container, session,\* running
  download, overlay, rw, \* the library: fetched, in the overlay, merged
  lib,               \* what the session runs with
  installed,         \* the last thing done to the overlay was a whole install
  early,             \* a session has merged the overlay after the script removed
                     \* the merged copy and before it put the library in place
  faults

ivars == <<ipc, iruns, keep, home, overlaysOn>>
ovars == <<opc, oruns, download, overlay, installed, early>>
svars == <<container, session, rw, lib>>
vars == <<ivars, ovars, svars, faults>>

Init ==
  /\ ipc = "idle" /\ iruns = 0
  /\ keep = "images" /\ home = "none"
  /\ overlaysOn = FALSE
  /\ opc = "idle" /\ oruns = 0
  /\ container = FALSE /\ session = FALSE
  /\ download = "none" /\ overlay \in {"none", "old"} /\ rw = "none"
  /\ lib = "stock" /\ installed = FALSE /\ early = FALSE
  /\ faults = 0

Fault == faults < MaxFaults /\ faults' = faults + 1

-----------------------------------------------------------------------------
\* install.sh, under set -e.
BeginInstall ==
  /\ ipc = "idle" /\ iruns < MaxRuns
  /\ iruns' = iruns + 1 /\ ipc' = "fetch"
  /\ UNCHANGED <<keep, home, overlaysOn, ovars, svars, faults>>

\* curl of the packages, then rpm, which makes an empty /home/waydroid.
FetchAndInstall ==
  /\ ipc = "fetch"
  /\ ipc' = "drop"
  /\ home' = IF home = "none" THEN "fresh" ELSE home
  /\ UNCHANGED <<iruns, keep, overlaysOn, ovars, svars, faults>>

\* Faulty variant: the rename is tried first.
DropAfterRename ==
  /\ ipc = "drop"
  /\ home' = "none" /\ keep' = "none"
  /\ ipc' = "overlays"
  /\ UNCHANGED <<iruns, overlaysOn, ovars, svars, faults>>

DropHome ==
  /\ ipc = "drop"
  /\ home' = "none"
  /\ ipc' = "rename"
  /\ UNCHANGED <<iruns, keep, overlaysOn, ovars, svars, faults>>

\* mv fails when there is nothing to move, and ends the script.
RenameKeep ==
  /\ ipc = "rename"
  /\ IF keep = "none" THEN ipc' = "idle" /\ UNCHANGED <<keep, home>>
     ELSE home' = keep /\ keep' = "none" /\ ipc' = "overlays"
  /\ UNCHANGED <<iruns, overlaysOn, ovars, svars, faults>>

EnableOverlays ==
  /\ ipc = "overlays"
  /\ ipc' = "idle" /\ overlaysOn' = TRUE
  /\ UNCHANGED <<iruns, keep, home, ovars, svars, faults>>

\* A command fails, or the debug shell goes away.
InstallStops ==
  /\ ipc # "idle" /\ Fault /\ ipc' = "idle"
  /\ UNCHANGED <<iruns, keep, home, overlaysOn, ovars, svars>>

-----------------------------------------------------------------------------
\* The session and the container are stopped; when that fails the script goes
\* on all the same (|| true).
BeginOverlay ==
  /\ opc = "idle" /\ oruns < MaxRuns
  /\ oruns' = oruns + 1 /\ opc' = "clear"
  /\ \/ container' = FALSE /\ session' = FALSE /\ UNCHANGED faults
     \/ UNCHANGED container /\ (session' = FALSE \/ UNCHANGED session) /\ Fault
  /\ UNCHANGED <<ivars, download, overlay, installed, early, rw, lib>>

\* Faulty variant: the merged copy is left.
ClearNothing ==
  /\ opc = "clear" /\ opc' = "fetch"
  /\ early' = FALSE
  /\ UNCHANGED <<ivars, oruns, download, overlay, installed, svars, faults>>

ClearMerged ==
  /\ opc = "clear" /\ opc' = "fetch"
  /\ rw' = "none" /\ early' = FALSE
  /\ UNCHANGED <<ivars, oruns, download, overlay, installed, container, session, lib, faults>>

Fetch ==
  /\ opc = "fetch"
  /\ \/ download' = "new" /\ UNCHANGED faults
     \/ download' = "empty" /\ Fault
  /\ opc' = "check"
  /\ UNCHANGED <<ivars, oruns, overlay, installed, early, svars>>

\* [ -s "$DEST/$SO.new" ], then mv.
MoveIntoPlace ==
  /\ opc = "check" /\ opc' = "idle"
  /\ IF download = "empty" THEN UNCHANGED <<overlay, download, installed>>
     ELSE overlay' = download /\ download' = "none" /\ installed' = TRUE
  /\ UNCHANGED <<ivars, oruns, early, svars, faults>>

OverlayStops ==
  /\ opc # "idle" /\ Fault /\ opc' = "idle"
  /\ installed' = FALSE
  /\ UNCHANGED <<ivars, oruns, download, overlay, early, svars>>

-----------------------------------------------------------------------------
\* The user, and the session's start: also while the script runs, which stops
\* both once and takes no lock (lines 54-56 warn of it).
StartContainer ==
  /\ ~container /\ container' = TRUE
  /\ UNCHANGED <<ivars, ovars, session, rw, lib, faults>>

StartSession ==
  /\ container /\ ~session /\ session' = TRUE
  /\ rw' = IF overlaysOn /\ rw = "none" THEN overlay ELSE rw
  /\ lib' = IF overlaysOn /\ rw' # "none" THEN rw' ELSE "stock"
  /\ early' = (early \/ (overlaysOn /\ opc \in {"fetch", "check"}))
  /\ UNCHANGED <<ivars, opc, oruns, download, overlay, installed, container, faults>>

StopSession ==
  /\ session /\ session' = FALSE
  /\ UNCHANGED <<ivars, ovars, container, rw, lib, faults>>

\* What the script's header tells the user to do to go back.
RemoveFromOverlay ==
  /\ opc = "idle" /\ overlay # "none" /\ ~session
  /\ overlay' = "none" /\ installed' = FALSE
  /\ UNCHANGED <<ivars, opc, oruns, download, early, svars, faults>>

Next ==
  \/ BeginInstall \/ FetchAndInstall \/ DropHome \/ RenameKeep \/ EnableOverlays \/ InstallStops
  \/ BeginOverlay \/ ClearMerged \/ Fetch \/ MoveIntoPlace \/ OverlayStops
  \/ StartContainer \/ StartSession \/ StopSession \/ RemoveFromOverlay

Spec == Init /\ [][Next]_vars

-----------------------------------------------------------------------------
TypeOK ==
  /\ ipc \in {"idle", "fetch", "drop", "rename", "overlays"}
  /\ opc \in {"idle", "clear", "fetch", "check"}
  /\ keep \in {"images", "none"} /\ home \in {"images", "fresh", "none"}
  /\ {overlay, rw} \subseteq {"none", "old", "new"}
  /\ session => container
  /\ lib \in {"stock", "old", "new"}

\* A first run of install.sh has the images in one place or the other however
\* it ends: they are renamed, never copied, after the empty tree is gone.
FirstRunKeepsImages == iruns <= 1 => "images" \in {keep, home}

\* A library that was installed whole is the one the next session runs with,
\* whatever an earlier session had merged and whether or not it was stopped,
\* unless one merged the old library while the new one was being installed.
InstalledIsTaken ==
  [][(installed /\ overlaysOn /\ ~session /\ session' /\ ~early) => lib' = "new"]_vars

-----------------------------------------------------------------------------
(* The inductive invariant (MCInstall_proofs).                             *)

\* A first run removes the tree of the fresh package only, and what it
\* preserves is there until it is renamed.
ImagesKept ==
  /\ iruns \in Nat
  /\ iruns = 0 => ipc = "idle" /\ keep = "images"
  /\ iruns <= 1 /\ ipc \in {"fetch", "drop", "rename"} => keep = "images"
  /\ iruns <= 1 => keep = "images" \/ home = "images"

\* Between the removal of the merged copy and the new library's coming only a
\* session that starts then can merge anything; if none did, what is merged
\* after a whole install is the new library.
MergedIsNew ==
  /\ container \in BOOLEAN /\ session \in BOOLEAN /\ early \in BOOLEAN
  /\ session => container
  /\ opc \in {"fetch", "check"} /\ ~early => rw = "none"
  /\ opc = "check" => download \in {"new", "empty"}
  /\ installed => overlay = "new" /\ (early \/ rw \in {"none", "new"})

IInv == ImagesKept /\ MergedIsNew
=============================================================================
