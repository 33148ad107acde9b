----------------------------- MODULE InstallOrder ---------------------------
(***************************************************************************)
(* What every installer of the port promises about the two things it       *)
(* replaces: the boot partition is touched only while a root file system   *)
(* that passed the installer's own check is in place.                      *)
(***************************************************************************)
CONSTANTS Trees, Accepted, Images

VARIABLES rootfs, boot

ivars == <<rootfs, boot>>

Init == rootfs \in Trees /\ boot \in Images

\* The tree is removed, or unpacked, well or badly.
Replace == rootfs' \in Trees /\ UNCHANGED boot

Write ==
  /\ rootfs \in Accepted
  /\ boot' \in Images
  /\ UNCHANGED rootfs

Next == Replace \/ Write

Spec == Init /\ [][Next]_ivars
=============================================================================
