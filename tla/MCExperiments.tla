--------------------------- MODULE MCExperiments ---------------------------
(***************************************************************************)
(* The experiments on the phone for TLC: the scripts with a restoring      *)
(* trap, and cfgswap.sh with its backup file. One of them runs.            *)
(***************************************************************************)
EXTENDS Integers, Sequences

CONSTANTS
  MaxSignals,   \* bound on the INT and TERM a run gets
  MaxFailures,  \* bound on the commands of a run that fail
  MaxRuns,      \* bound on the runs of cfgswap.sh and sipext.sh
  MaxFaults     \* bound on the failures and kills in all of them

ASSUME ConstantsAssumption == {MaxSignals, MaxFailures, MaxRuns, MaxFaults} \subseteq Nat

VARIABLES
  running,  \* the program that runs
  script, stack, trapped, exiting, over, saved, phone, cpid, lpid, missed,
  failures, signals,
  item, backup, pc, read, start, rolled, cut, runs, faults

Exp == INSTANCE Experiment

Swap == INSTANCE ConfigSwap

experimentVars == <<script, stack, trapped, exiting, over, saved, phone,
                    cpid, lpid, missed, failures, signals>>
swapVars == <<item, backup, pc, read, start, rolled, cut, runs, faults>>
vars == <<running, experimentVars, swapVars>>

\* What a program that does not run leaves unused.
Unused == "unused"
NoExperiment ==
  /\ script = Unused /\ stack = Unused /\ trapped = Unused /\ exiting = Unused
  /\ over = Unused /\ saved = Unused /\ phone = Unused /\ cpid = Unused
  /\ lpid = Unused /\ missed = Unused /\ failures = Unused /\ signals = Unused
NoSwap ==
  /\ item = Unused /\ backup = Unused /\ pc = Unused /\ read = Unused
  /\ start = Unused /\ rolled = Unused /\ cut = Unused
  /\ runs = Unused /\ faults = Unused

Init ==
  \/ running = "experiment" /\ Exp!Init /\ NoSwap
  \/ running = "swap" /\ Swap!Init /\ NoExperiment

Next ==
  \/ /\ running = "experiment" /\ Exp!Next
     /\ UNCHANGED <<running, swapVars>>
  \/ /\ running = "swap" /\ Swap!Next
     /\ UNCHANGED <<running, experimentVars>>

Spec == Init /\ [][Next]_vars

\* An experiment's shell runs on, and its capture keeps its deadline.
Goes(A) == running = "experiment" /\ A /\ UNCHANGED <<running, swapVars>>

FairSpec ==
  /\ Spec
  /\ WF_vars(Goes(Exp!Works)) /\ WF_vars(Goes(Exp!Returns))
  /\ WF_vars(Goes(Exp!Exits)) /\ WF_vars(Goes(Exp!CaptureEnds))

-----------------------------------------------------------------------------
\* However often and wherever an experiment was interrupted, when the shell is
\* gone the phone is as it was, but for what the last command that restores it
\* failed to do (restore() of the six scripts).
RestoredAtEnd == running = "experiment" => Exp!RestoredAtEnd

\* The trap stops the script's own capture before it puts anything back.
RestoresAlone == running = "experiment" => Exp!RestoresAlone

\* An unattended run never dials while its previous call still stands, unless
\* hanging that one up failed (cfgdial.sh, sipext.sh).
DialsOnIdleLine ==
  [][running = "experiment" /\ ~Exp!AtEnd /\ Exp!Op = "dial" /\ stack' = Exp!Below =>
       (phone.call => "hangup" \in missed)]_vars

\* Every run ends: the last wait is for the capture, which ends by itself.
Ends == running = "experiment" => <>(over # "no")

\* cfgswap.sh: a run that could read the item can be undone from the file at
\* any point, interrupted, torn or kept as it may be; one that could only read
\* part of it changes it only if efswrite.py too reads no more than that part.
SwapIsRecoverable == running = "swap" => Swap!SwapIsRecoverable
=============================================================================
