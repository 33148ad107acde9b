------------------------------ MODULE BatchAlign ------------------------------
(***************************************************************************)
(* scripts/mcfg/batchalign.py and lastalign.py: IMS items are overwritten  *)
(* with a donor config's values (lastalign.py blanks its first item), each *)
(* original being appended to a backup file first.  The file is a buffered *)
(* Python file: what was appended reaches the disk when it is closed.      *)
(* Writing an item takes several commands and may stop half way; either    *)
(* program may be run again.                                               *)
(***************************************************************************)
EXTENDS Naturals

CONSTANTS
  ItemCount,    \* the number of items in batchalign.py's ITEMS,
  ItemCountDisturbed  \* and where reads may end early and kills happen

Aligners == {"batchalign", "lastalign"}
BlankAt == 1   \* lastalign.py's first item, which is blanked

(* An item's value: the original, the donor's padded to the item's length, *)
(* a mixture left by an interrupted write, or one of another length.       *)
Original == "original"
Whole == {Original, "donor", "torn"}

VARIABLES
  aligner,    \* the program
  disturbed,  \* reads may end early (read_file on a timeout), and kills happen
  donor,      \* what the donor has for each item: nothing, a value, one too long
  nv,         \* the items in the modem
  saved,      \* records of the backup file on disk, as <<item, value>>
  buffer,     \* records appended and not yet flushed
  pc, item,   \* the step and the item being aligned
  before      \* the value read of that item

Count == IF disturbed THEN ItemCountDisturbed ELSE ItemCount
Items == 1 .. (IF Count < 2 THEN 2 ELSE Count)

vars == <<aligner, disturbed, donor, nv, saved, buffer, pc, item, before>>

Last == IF aligner = "lastalign" THEN 2 ELSE Count
Blanks == aligner = "lastalign" /\ item = BlankAt

TypeOK ==
  /\ donor \in [Items -> {"none", "fits", "longer"}]
  /\ nv \in [Items -> Whole]
  /\ saved \subseteq Items \X (Whole \union {"short"})
  /\ buffer \subseteq Items \X (Whole \union {"short"})
  /\ pc \in {"stopped", "read", "check", "save", "write", "verify"}
  /\ aligner \in Aligners /\ disturbed \in BOOLEAN /\ item \in 1..(Last + 1)
  /\ before \in Whole \union {"short"}

(* What is written as blank always fits.                                   *)
Init ==
  /\ aligner \in Aligners /\ disturbed \in BOOLEAN
  /\ donor \in [Items -> {"none", "fits", "longer"}]
  /\ aligner = "lastalign" => donor[BlankAt] = "fits"
  /\ nv = [i \in Items |-> Original]
  /\ saved = {} /\ buffer = {}
  /\ pc = "stopped" /\ item = 1 /\ before = Original

NextItem == pc' = "read" /\ item' = item + 1

Run ==
  /\ pc = "stopped"
  /\ pc' = "read" /\ item' = 1
  /\ UNCHANGED <<aligner, disturbed, donor, nv, saved, buffer, before>>

(* No donor value, or the item cannot be read: on to the next.             *)
Skip ==
  /\ pc = "read" /\ item <= Last
  /\ NextItem
  /\ UNCHANGED <<aligner, disturbed, donor, nv, saved, buffer, before>>

(* What one read may give: the item as it is, or its beginning.            *)
ReadOf(i) == {nv[i]} \union (IF disturbed THEN {"short"} ELSE {})

Read ==
  /\ pc = "read" /\ item <= Last /\ donor[item] # "none"
  /\ before' \in ReadOf(item)
  /\ pc' = "check"
  /\ UNCHANGED <<aligner, disturbed, donor, nv, saved, buffer, item>>

(* A donor value longer than what was read is not written; blanks are as   *)
(* many as were read.                                                      *)
CheckLength ==
  /\ pc = "check"
  /\ \/ /\ donor[item] = "longer" \/ before = "short"
        /\ ~Blanks
        /\ NextItem
     \/ /\ donor[item] # "longer"
        /\ pc' = "save" /\ UNCHANGED item
  /\ UNCHANGED <<aligner, disturbed, donor, nv, saved, buffer, before>>

\* Faulty variant: a new record of an item replaces the old one.
SaveOverwrites ==
  /\ pc = "save"
  /\ buffer' = {r \in buffer : r[1] # item} \union {<<item, before>>}
  /\ saved' = {r \in saved : r[1] # item}
  /\ IF before = "donor" /\ aligner = "batchalign" THEN NextItem
     ELSE pc' = "write" /\ UNCHANGED item
  /\ UNCHANGED <<aligner, disturbed, donor, nv, before>>

(* The original is appended; batchalign.py leaves an item alone that       *)
(* matches already.                                                        *)
Save ==
  /\ pc = "save"
  /\ buffer' = buffer \union {<<item, before>>}
  /\ IF before = "donor" /\ aligner = "batchalign" THEN NextItem
     ELSE pc' = "write" /\ UNCHANGED item
  /\ UNCHANGED <<aligner, disturbed, donor, nv, saved, before>>

(* What the item is once all of its chunks are written: padded to the      *)
(* length of a short read, the donor's value leaves the item's tail.       *)
Written ==
  IF donor[item] = "longer" THEN "grown" ELSE IF before = "short" THEN "torn" ELSE "donor"

(* The chunks of one item.  Nobody looks at the errno of an answer, so any *)
(* chunk may have been refused, and after one that is not answered the     *)
(* next item's turn comes.                                                 *)
WriteItem ==
  /\ pc = "write" /\ aligner = "batchalign"
  /\ nv' \in {[nv EXCEPT ![item] = v] : v \in {Written, nv[item], "torn"}}
  /\ (pc' = "verify" /\ UNCHANGED item) \/ NextItem
  /\ UNCHANGED <<aligner, disturbed, donor, saved, buffer, before>>

(* lastalign.py reads back in any case.                                    *)
WriteBlindly ==
  /\ pc = "write" /\ aligner = "lastalign"
  /\ nv' \in {[nv EXCEPT ![item] = v] : v \in {Written, nv[item], "torn"}}
  /\ pc' = "verify"
  /\ UNCHANGED <<aligner, disturbed, donor, saved, buffer, item, before>>

(* The item is read back and the outcome printed.                          *)
Verify ==
  /\ pc = "verify"
  /\ NextItem
  /\ UNCHANGED <<aligner, disturbed, donor, nv, saved, buffer, before>>

(* An item that cannot be read back: lastalign.py slices None, and the     *)
(* exception ends it; Python flushes the file all the same.                *)
Dies ==
  /\ pc = "verify" /\ aligner = "lastalign" /\ ~Blanks
  /\ saved' = saved \union buffer /\ buffer' = {}
  /\ pc' = "stopped"
  /\ UNCHANGED <<aligner, disturbed, donor, nv, item, before>>

(* backup.close() flushes.                                                 *)
Close ==
  /\ pc = "read" /\ item > Last
  /\ saved' = saved \union buffer /\ buffer' = {}
  /\ pc' = "stopped"
  /\ UNCHANGED <<aligner, disturbed, donor, nv, item, before>>

(* Killed, or the handset resets: between two chunks perhaps, and the      *)
(* buffer is lost.                                                         *)
Kill ==
  /\ disturbed /\ pc # "stopped"
  /\ nv' \in {nv} \union (IF pc = "write" THEN {[nv EXCEPT ![item] = "torn"]} ELSE {})
  /\ buffer' = {}
  /\ pc' = "stopped"
  /\ UNCHANGED <<aligner, disturbed, donor, saved, item, before>>

Next ==
  \/ Run
  \/ Skip
  \/ Read
  \/ CheckLength
  \/ Save
  \/ WriteItem
  \/ WriteBlindly
  \/ Verify
  \/ Dies
  \/ Close
  \/ Kill

Spec == Init /\ [][Next]_vars

(* "The originals are printed and saved first so this is reversible."      *)
(* (batchalign.py:22-23): while reads are whole and nobody kills the        *)
(* program, whatever items have been changed, in however many runs, the    *)
(* backup has the original of each; what a running program still holds in  *)
(* its buffer counts as saved.                                             *)
Reversible ==
  ~disturbed => \A i \in Items : nv[i] # Original => <<i, Original>> \in saved \union buffer

(* An item is overwritten only when the value that was read of it is on    *)
(* record, and a record that has reached the file stays there: a later run *)
(* over items already changed, or torn, never replaces the first original, *)
(* and no kill takes it away.                                              *)
KeepsRecordsStep ==
  /\ saved \subseteq saved'
  /\ \A i \in Items : nv'[i] # nv[i] =>
       \E v \in ReadOf(i) : <<i, v>> \in saved \union buffer

KeepsRecords == [][KeepsRecordsStep]_vars

-----------------------------------------------------------------------------
(* The inductive invariant (MCConfigs_proofs).                             *)

(* Between the read of an item and its last chunk nobody else changes it:  *)
(* what is held as its original is what is still in the modem.             *)
HeldIsRead == pc \in {"check", "save", "write"} => before \in ReadOf(item)

(* No value that would make an item longer gets past the comparison of the *)
(* lengths; lastalign.py makes no such comparison for its blanks.          *)
NothingGrows ==
  /\ aligner = "lastalign" => donor[BlankAt] # "longer"
  /\ pc \in {"save", "write"} => donor[item] # "longer"

(* An item is written after it was recorded, and only while its turn lasts.*)
RecordedFirst ==
  /\ pc \in {"check", "save", "write", "verify"} => item <= Last
  /\ pc = "write" => <<item, before>> \in saved \union buffer

IInv == TypeOK /\ HeldIsRead /\ NothingGrows /\ RecordedFirst /\ Reversible
=============================================================================
