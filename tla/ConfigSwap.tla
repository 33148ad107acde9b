----------------------------- MODULE ConfigSwap -----------------------------
(***************************************************************************)
(* scripts/qmi/cfgswap.sh over several runs, with the first line of        *)
(* sipext.sh that puts the backup back.  The script keeps Jio's value of   *)
(* qipcall_config_items in a file on the phone, writes the consensus       *)
(* value, and keeps it or rolls back by what IMS did.  It sets no trap and *)
(* looks at no status but the size of the backup.                          *)
(***************************************************************************)
EXTENDS Integers

CONSTANTS
  MaxRuns,   \* bound on the runs of cfgswap.sh and sipext.sh
  MaxFaults  \* bound on the failures and kills in all runs

VARIABLES
  item,    \* the value in EFS: "jio", "consensus", "zeros" or "mixed"
  backup,  \* the file: such a value, "none", "empty", or "prefix" of one
  pc,      \* "idle", "read", "check", "write", "verdict" or "restore"
  read,    \* what the read of this run gave: "none", "whole", "prefix", "failed"
  start,   \* the item when this run began
  rolled,  \* this run has rolled back, and the write succeeded
  cut,     \* an efswrite.py since this run began read the item as short as
           \* the backup is, so the lengths it compares were the same
  runs, faults

vars == <<item, backup, pc, read, start, rolled, cut, runs, faults>>

Values == {"jio", "consensus", "zeros", "mixed"}

Init ==
  /\ item = "jio" /\ start = "jio"
  /\ backup = "none"
  /\ pc = "idle"
  /\ read = "none"
  /\ rolled = FALSE /\ cut = FALSE
  /\ runs = 0 /\ faults = 0

Fault == faults < MaxFaults /\ faults' = faults + 1

Begin ==
  /\ pc = "idle" /\ runs < MaxRuns
  /\ runs' = runs + 1
  /\ pc' = "read"
  /\ start' = item /\ read' = "none" /\ rolled' = FALSE /\ cut' = FALSE
  /\ UNCHANGED <<item, backup, faults>>

\* Faulty variant: a backup that is there is kept.
ReadKeepsBackup ==
  /\ pc = "read"
  /\ pc' = "check"
  /\ \/ read' = "whole" /\ backup' = (IF backup = "none" THEN item ELSE backup) /\ UNCHANGED faults
     \/ read' = "prefix" /\ backup' = "prefix" /\ Fault
  /\ UNCHANGED <<item, start, rolled, cut, runs>>

\* A shorter or empty value from read_file() is no error: it replaces the
\* backup.  Only an item that could not be opened leaves the file alone.
Read ==
  /\ pc = "read"
  /\ pc' = "check"
  /\ \/ read' = "whole" /\ backup' = item /\ UNCHANGED faults
     \/ read' = "prefix" /\ backup' = "prefix" /\ Fault
     \/ read' = "failed" /\ backup' = "empty" /\ Fault
     \/ read' = "failed" /\ UNCHANGED backup /\ Fault
  /\ UNCHANGED <<item, start, rolled, cut, runs>>

\* [ -s "$BACKUP" ] || exit 1
Check ==
  /\ pc = "check"
  /\ pc' = IF backup \in {"none", "empty"} THEN "idle" ELSE "write"
  /\ UNCHANGED <<item, backup, read, start, rolled, cut, runs, faults>>

\* efswrite.py with a value as long as the backup.  Its own read of the item
\* decides: whole, and a prefix is refused; cut to the same length, and the
\* prefix goes over the head of the item.  It may also be refused, or stop
\* anywhere in the value.
Write(value) ==
  \/ item' = (IF backup = "prefix" THEN item ELSE value) /\ UNCHANGED <<cut, faults>>
  \/ item' \in {item, value, "mixed"} /\ cut' = (cut \/ backup = "prefix") /\ Fault

\* The consensus value comes from ytl.mbn, padded with zeros to the length of
\* the backup: when mbnitems.py finds no such item, all of it is zeros.
WriteNew ==
  /\ pc = "write"
  /\ \E new \in {"consensus", "zeros"} : Write(new)
  /\ pc' = "verdict"
  /\ UNCHANGED <<backup, read, start, rolled, runs>>

\* ims_registered: 1 in the log that was cleared before, or not.
Verdict ==
  /\ pc = "verdict"
  /\ pc' \in {"idle", "restore"}
  /\ UNCHANGED <<item, backup, read, start, rolled, cut, runs, faults>>

\* efswrite.py with the backup: a prefix, if it is written, is one of any value.
WriteBack ==
  IF backup = "prefix" THEN \E value \in Values : Write(value) ELSE Write(backup)

Restore ==
  /\ pc = "restore"
  /\ WriteBack
  /\ pc' = "idle"
  /\ rolled' = (faults' = faults /\ backup # "prefix")
  /\ UNCHANGED <<backup, read, start, runs>>

\* Nothing is trapped: a signal or a lost session ends the run where it is,
\* with the backup cut to nothing if it was being written.
Kill ==
  /\ pc # "idle"
  /\ Fault
  /\ \/ UNCHANGED backup
     \/ pc = "read" /\ backup' = "empty"
  /\ pc' = "idle"
  /\ UNCHANGED <<item, read, start, rolled, cut, runs>>

\* The first line of sipext.sh: the backup, whatever it is, goes back.
SipextRestores ==
  /\ pc = "idle" /\ runs < MaxRuns
  /\ runs' = runs + 1
  /\ IF backup \in {"none", "empty"} THEN UNCHANGED <<item, cut, faults>> ELSE WriteBack
  /\ UNCHANGED <<backup, pc, read, start, rolled>>

Next ==
  \/ Begin
  \/ Read
  \/ Check
  \/ WriteNew
  \/ Verdict
  \/ Restore
  \/ Kill
  \/ SipextRestores

Spec == Init /\ [][Next]_vars

-----------------------------------------------------------------------------
TypeOK ==
  /\ item \in Values /\ start \in Values
  /\ rolled \in BOOLEAN /\ cut \in BOOLEAN
  /\ backup \in Values \union {"none", "empty", "prefix"}
  /\ pc \in {"idle", "read", "check", "write", "verdict", "restore"}
  /\ read \in {"none", "whole", "prefix", "failed"}
  /\ pc \in {"write", "verdict", "restore"} => read # "none" /\ backup \notin {"none", "empty"}

\* A run that could read the item can be undone from the file at any point,
\* interrupted, torn or kept as it may be; one that could only read part of it
\* changes it only if efswrite.py's own read is cut to the same length.
SwapIsRecoverable ==
  /\ read = "whole" /\ item # start => backup = start
  /\ read = "prefix" /\ ~cut => item = start

\* What the script's header says: "The old value is read back from EFS before
\* the write and restored from that, not from a constant".
RollbackRestoresStart == rolled => item = start

-----------------------------------------------------------------------------
(* The inductive invariant (MCExperiments_proofs).                         *)

\* The item is touched only after the read, and only by the run that began with
\* it; a value read whole stays in the file for as long as the run can write;
\* a prefix is written only by an efswrite.py that reads no more itself.
ReadFirst ==
  /\ pc = "read" => read = "none" /\ item = start
  /\ pc = "check" => read # "none"
  /\ read = "whole" => backup = start
  /\ read = "prefix" => backup = "prefix" /\ (cut \/ item = start)

IInv == TypeOK /\ ReadFirst
=============================================================================
