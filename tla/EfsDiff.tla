-------------------------------- MODULE EfsDiff -----------------------------
(***************************************************************************)
(* scripts/diag/subdiff.py, main(): for every "..._Subscription01" item of *)
(* the modem, read its twin of subscription 0 and itself, and show the     *)
(* pair unless the two are the same.  (The walk that finds them is that of *)
(* EfsWalk.)                                                               *)
(***************************************************************************)
EXTENDS EfsRead

CONSTANTS
  found,    \* the names found, in order
  Contents  \* what an item can hold

VARIABLES
  next,     \* index in found
  reading,  \* "sub0" or "sub1": whose item is being read
  sub0,     \* what was read of the twin
  same, shown

vars == <<chanvars, readvars, next, reading, sub0, same, shown>>

Twin(name) == <<name, "sub0">>
Item(name) == <<name, "sub1">>

Names == {found[i] : i \in DOMAIN found}

TypeOK ==
  /\ pc \in {"start", "open", "read", "close", "end"}
  /\ next \in 1 .. Len(found) + 1
  /\ same \union shown = {found[i] : i \in 1 .. next - 1}
  /\ same \intersect shown = {}
  /\ off \in 0 .. MaxLen + ReadChunk

\* The items of subscription 1 are there, their twins need not be.
Init ==
  /\ ChannelInit /\ ReadInit
  /\ \E twins \in SUBSET Names :
       files \in [{Item(n) : n \in Names} \union {Twin(n) : n \in twins} -> Contents]
  /\ next = 1 /\ reading = "sub0" /\ sub0 = NoFile
  /\ same = {} /\ shown = {}

Start ==
  /\ pc = "start"
  /\ AskOpen(Twin(found[1]), "open")
  /\ UNCHANGED <<replies, files, open, timeouts, errors, buf, off, fd, next,
                 reading, sub0, same, shown>>

Compare(b) ==
  IF sub0 # NoFile /\ b # NoFile /\ sub0 = b
    THEN same' = same \union {found[next]} /\ UNCHANGED shown
    ELSE shown' = shown \union {found[next]} /\ UNCHANGED same

AfterRead(body) ==
  \/ /\ reading = "sub0"
     /\ sub0' = body /\ reading' = "sub1"
     /\ AskOpen(Item(found[next]), "open")
     /\ UNCHANGED <<next, same, shown>>
  \/ /\ reading = "sub1"
     /\ Compare(body)
     /\ next' = next + 1 /\ reading' = "sub0" /\ sub0' = NoFile
     /\ IF next < Len(found) THEN AskOpen(Twin(found[next + 1]), "open")
                             ELSE pc' = "end" /\ UNCHANGED requests

Keep == UNCHANGED <<next, reading, sub0, same, shown>>

\* DiagInterrupt escapes from recv().
TickEscapes ==
  /\ pc \notin {"start", "end"} /\ NoAnswer
  /\ pc' = "end"
  /\ UNCHANGED <<requests, files, open, errors, buf, off, fd>> /\ Keep

ModemStep == Modem /\ UNCHANGED readvars /\ Keep

Next ==
  \/ Start
  \/ FileOpened /\ Keep
  \/ NotOpened /\ AfterRead(NoFile)
  \/ BlockRead /\ Keep
  \/ FileClosed /\ AfterRead(buf)
  \/ TickEscapes \/ ModemStep

Spec == Init /\ [][Next]_vars

-----------------------------------------------------------------------------
(* Properties.                                                             *)

Has(p) == p \in DOMAIN files

Begin(p) == SubSeq(files[p], 1, Least(MaxLen, Len(files[p])))

Ended == pc = "end" /\ next > Len(found)

\* Without a fault, a pair is left out exactly when both items are there and
\* agree as far as they are read.
FaultFreeIsExact ==
  Ended /\ timeouts = 0 /\ errors = 0 =>
    same = {n \in Names : Has(Twin(n)) /\ Begin(Twin(n)) = Begin(Item(n))}

\* As long as answers come in time, an item without a twin is shown whatever
\* fails ("a suffixed file with no unsuffixed twin", line 11).
TwinlessIsShown ==
  timeouts = 0 => \A n \in same : Has(Twin(n))

\* The inductive invariant (MCModemInTime_proofs).  In time, the answer to an
\* open is about the item that is read, so what is kept of a twin, unless it
\* is None, was in its file.
Path == <<found[next], reading>>

InTime ==
  /\ timeouts \in Nat /\ TwinlessIsShown
  /\ timeouts = 0 =>
       /\ reading \in {"sub0", "sub1"}
       /\ reading = "sub1" /\ sub0 # NoFile => Has(Twin(found[next]))
       /\ pc \in {"start", "end"} => Quiet
       /\ pc = "start" => next = 1 /\ reading = "sub0"
       /\ pc = "open" =>
            /\ OneUnderWay("open")
            /\ requests # <<>> => Head(requests).path = Path
            /\ replies # <<>> /\ Head(replies).err = 0 => Has(Path)
       /\ pc = "read" => OneUnderWay("read") /\ Has(Path)
       /\ pc = "close" => OneUnderWay("close") /\ Has(Path)
=============================================================================
