----------------------------- MODULE MCConfigs -----------------------------
(***************************************************************************)
(* What scripts/mcfg and nvsweep.sh do with the carrier configs and the    *)
(* modem's items, for TLC.  One of them runs.                              *)
(***************************************************************************)
EXTENDS Integers, Sequences

CONSTANTS
  MaxMinor,    \* the largest minor version
  Top,         \* the largest byte
  ItemCount,   \* the items batchalign.py aligns, undisturbed
  ItemCountDisturbed, \* and with short reads and kills
  Configs,     \* the configs nvsweep.sh looks into
  MaxRecords   \* bound on the records of a config that is listed

ASSUME ConstantsAssumption == {MaxMinor, Top, ItemCount, ItemCountDisturbed, MaxRecords} \subseteq Nat

VARIABLES
  running,  \* the program that runs
  home, staged, table, loaded, rild, picked, job, next, since,
  active,
  pc,
  disk, request, out, files, entries, minor, asked, latest, wrote,
  tool, needles, value, source, payload, dst,
  aligner, disturbed, donor, nv, saved, buffer, item, before,
  live, vals, listed,
  config

Stage == INSTANCE McfgStage

Edit == INSTANCE McfgEdit

Raw == INSTANCE McfgRaw

Align == INSTANCE BatchAlign

Listing == INSTANCE McfgListings

stageVars == <<home, staged, table, loaded, rild, picked, job, next, since>>
activeVars == <<active>>
pcVars == <<pc>>
editVars == <<disk, request, out, files, entries, minor, asked, latest,
              wrote>>
rawVars == <<tool, needles, value, source, payload, dst>>
alignVars == <<aligner, disturbed, donor, nv, saved, buffer, item, before>>
sweepVars == <<live, vals, listed>>
listingVars == <<config>>
vars == <<running, stageVars, activeVars, pcVars, editVars, rawVars,
          alignVars, sweepVars, listingVars>>

\* What a program that does not run leaves unused.
Unused == "unused"
NoStage ==
  /\ home = Unused /\ staged = Unused /\ table = Unused /\ loaded = Unused
  /\ rild = Unused /\ picked = Unused /\ job = Unused /\ next = Unused
  /\ since = Unused
NoActive == active = Unused
NoPc == pc = Unused
NoEdit ==
  /\ disk = Unused /\ request = Unused /\ out = Unused /\ files = Unused
  /\ entries = Unused /\ minor = Unused /\ asked = Unused /\ latest = Unused
  /\ wrote = Unused
NoRaw ==
  /\ tool = Unused /\ needles = Unused /\ value = Unused /\ source = Unused
  /\ payload = Unused /\ dst = Unused
NoAlign ==
  /\ aligner = Unused /\ disturbed = Unused /\ donor = Unused /\ nv = Unused /\ saved = Unused
  /\ buffer = Unused /\ item = Unused /\ before = Unused
NoSweep == live = Unused /\ vals = Unused /\ listed = Unused
NoListing == config = Unused

Init ==
  \/ running = "stage" /\ Stage!Init /\ NoEdit /\ NoRaw /\ NoAlign /\ NoSweep
       /\ NoListing
  \/ running = "edit" /\ Edit!Init /\ NoStage /\ NoRaw /\ NoAlign /\ NoSweep
       /\ NoListing
  \/ running = "raw" /\ Raw!Init /\ NoStage /\ NoActive /\ NoEdit /\ NoAlign
       /\ NoSweep /\ NoListing
  \/ running = "align" /\ Align!Init /\ NoStage /\ NoActive /\ NoEdit /\ NoRaw
       /\ NoSweep /\ NoListing
  \/ running = "sweep" /\ Listing!SweepInit /\ NoStage /\ NoActive /\ NoPc /\ NoEdit
       /\ NoRaw /\ NoAlign /\ NoListing
  \/ running = "listing" /\ Listing!Init /\ NoStage /\ NoActive /\ NoPc
       /\ NoEdit /\ NoRaw /\ NoAlign /\ NoSweep

Next ==
  \/ /\ running = "stage" /\ Stage!Next
     /\ UNCHANGED <<running, editVars, rawVars, alignVars, sweepVars,
                    listingVars>>
  \/ /\ running = "edit" /\ Edit!Next
     /\ UNCHANGED <<running, stageVars, rawVars, alignVars, sweepVars,
                    listingVars>>
  \/ /\ running = "raw" /\ Raw!Next
     /\ UNCHANGED <<running, stageVars, activeVars, editVars, alignVars,
                    sweepVars, listingVars>>
  \/ /\ running = "align" /\ Align!Next
     /\ UNCHANGED <<running, stageVars, activeVars, editVars, rawVars,
                    sweepVars, listingVars>>
  \/ /\ running = "sweep" /\ Listing!SweepNext
     /\ UNCHANGED <<running, stageVars, activeVars, pcVars, editVars, rawVars,
                    alignVars, listingVars>>
  \/ /\ running = "listing" /\ Listing!Next
     /\ UNCHANGED <<running, stageVars, activeVars, pcVars, editVars, rawVars,
                    alignVars, sweepVars>>

Spec == Init /\ [][Next]_vars

-----------------------------------------------------------------------------
TypeOK ==
  /\ running = "stage" => Stage!TypeOK
  /\ running = "edit" => Edit!TypeOK
  /\ running = "raw" => Raw!TypeOK
  /\ running = "align" => Align!TypeOK

\* "reboot the handset first, then run this script" (restore-row.sh:12): when
\* no other script has staged since the boot, whatever it makes qcril pick is
\* the patched row.mbn, whichever retarget was active before.
RestoreAfterRebootPicksRow == running = "stage" => Stage!RestoreAfterRebootPicksRow

\* What was reported as written is in the file: by patch-mbn-ims.sh and its
\* like, every item that was asked for, with three version copies that agree;
\* by patchitem.py and retarget.py, the value asked for and the version copies,
\* and no other byte.
WrittenIsAsked ==
  /\ running = "edit" => Edit!WrittenIsIntended
  /\ running = "raw" => Raw!WritesWhatWasAsked

\* While these scripts are fed their own output no edit is silently ignored:
\* the last config written outranks the one the modem runs, or is that one.
LatestOutranks == running = "edit" => Edit!LatestOutranks

\* batchalign.py:22-23: without a kill, whatever items have been changed, in
\* however many runs, the backup or its buffer has the original of each.
Reversible == running = "align" => Align!Reversible

\* batchalign.py: an item is overwritten only when what was read of it is on
\* record, and what has reached the file stays there, through later runs over
\* changed or torn items, short reads and kills.
KeepsRecords ==
  [][running = "align" => Align!KeepsRecordsStep]_vars

\* nvsweep.sh: an item on which all configs agree with the modem, up to
\* padding, is in no list, and one that no config repeats is in some list.
\* mbnitems.py: the listings compared, and the donor values taken from them,
\* are what the configs say.
ReportsDisagreement ==
  /\ running = "sweep" => Listing!ReportsDisagreement
  /\ running = "listing" => Listing!ListsTheConfig
=============================================================================
