-------------------------------- MODULE Capture -----------------------------
(***************************************************************************)
(* scripts/qmi/sdpraw.py, the capture loop, with sdprawparse.py, batches():*)
(* one-shot alarms around every read of /dev/diag, the batches written to  *)
(* a buffered file as [time, length, bytes], and the parser's loop over    *)
(* the file when the program has ended, died of an alarm, or been killed.  *)
(***************************************************************************)
EXTENDS Integers, SequencesExt

CONSTANTS
  Lengths,    \* lengths of batches, in units
  MaxBatches  \* bound on the batches of a run

VARIABLES
  pc,      \* "arm", "read", "got", "disarm", "header", "body", or how it ended
  armed,   \* the interval timer is running
  buf,     \* the batch read, or Nothing
  count,   \* batches that read() has returned
  lost,    \* those an alarm took away before they were written
  file,    \* what f.write() was given, in units
  disk,    \* how much of it is on disk
  parser,  \* "idle", "header", "body" or "end"
  read,    \* how much of the file it has taken, in units
  parsed   \* the batches it has made of it

parservars == <<parser, read, parsed>>
vars == <<pc, armed, buf, count, lost, file, disk, parservars>>

Nothing == [n |-> 0, len |-> 0]
Over == {"closed", "died", "killed"}

Header(b) == <<[kind |-> "time", n |-> b.n, len |-> 0], [kind |-> "length", n |-> b.n, len |-> b.len]>>
Body(b) == [i \in 1 .. b.len |-> [kind |-> "data", n |-> b.n, len |-> b.len]]

TypeOK ==
  /\ pc \in {"arm", "read", "got", "disarm", "header", "body"} \union Over
  /\ armed \in BOOLEAN
  /\ buf.n \in 0 .. count
  /\ count \in 0 .. MaxBatches /\ lost \subseteq 1 .. count
  /\ disk \in 0 .. Len(file)
  /\ parser \in {"idle", "header", "body", "end"} /\ read \in 0 .. disk

Init ==
  /\ pc = "arm" /\ armed = FALSE /\ buf = Nothing
  /\ count = 0 /\ lost = {} /\ file = <<>> /\ disk = 0
  /\ parser = "idle" /\ read = 0 /\ parsed = <<>>

\* read_deadline(): setitimer, then os.read.  (The preflight is the same
\* loop with nothing written.)
Arm ==
  /\ pc = "arm"
  /\ armed' = TRUE /\ pc' = "read"
  /\ UNCHANGED <<buf, count, lost, file, disk, parservars>>

ReadReturns ==
  /\ pc = "read" /\ count < MaxBatches
  /\ \E len \in Lengths : buf' = [n |-> count + 1, len |-> len]
  /\ count' = count + 1
  /\ pc' = "got"
  /\ UNCHANGED <<armed, lost, file, disk, parservars>>

Return ==
  /\ pc = "got" /\ pc' = "disarm"
  /\ UNCHANGED <<armed, buf, count, lost, file, disk, parservars>>

Forget == buf' = Nothing /\ lost' = IF buf = Nothing THEN lost ELSE lost \union {buf.n}

\* The handler raises wherever the program is.  The except clause covers
\* the read and what is left of it; past that the exception ends the program,
\* and the file is flushed as its object goes.
Alarm ==
  /\ armed /\ pc \notin Over
  /\ armed' = FALSE
  /\ IF pc \in {"read", "got"}
       THEN pc' = "disarm" /\ Forget /\ UNCHANGED disk
       ELSE pc' = "died" /\ disk' = Len(file) /\ Forget
  /\ UNCHANGED <<count, file, parservars>>

\* finally: setitimer(0); an empty read goes round the loop.
Disarm ==
  /\ pc = "disarm"
  /\ armed' = FALSE
  /\ pc' = IF buf = Nothing THEN "arm" ELSE "header"
  /\ UNCHANGED <<buf, count, lost, file, disk, parservars>>

WriteHeader ==
  /\ pc = "header"
  /\ file' = file \o Header(buf) /\ pc' = "body"
  /\ UNCHANGED <<armed, buf, count, lost, disk, parservars>>

WriteBody ==
  /\ pc = "body"
  /\ file' = file \o Body(buf) /\ buf' = Nothing /\ pc' = "arm"
  /\ UNCHANGED <<armed, count, lost, disk, parservars>>

\* The buffer of a megabyte is written out whenever it is full.
Flush ==
  /\ pc \notin Over
  /\ \E d \in disk + 1 .. Len(file) : disk' = d
  /\ UNCHANGED <<pc, armed, buf, count, lost, file, parservars>>

Close ==
  /\ pc = "arm"
  /\ pc' = "closed" /\ disk' = Len(file)
  /\ UNCHANGED <<armed, buf, count, lost, file, parservars>>

Kill ==
  /\ pc \notin Over
  /\ pc' = "killed"
  /\ UNCHANGED <<armed, buf, count, lost, file, disk, parservars>>

Captures ==
  \/ Arm \/ ReadReturns \/ Return \/ Alarm \/ Disarm
  \/ WriteHeader \/ WriteBody \/ Flush \/ Close \/ Kill

-----------------------------------------------------------------------------
(* batches(), over what is on disk.                                        *)

capturevars == <<pc, armed, buf, count, lost, file, disk>>

\* A parser is started on the file.
Parse ==
  /\ pc \in Over /\ parser = "idle" /\ parser' = "header"
  /\ UNCHANGED <<read, parsed, capturevars>>

\* The header of the next batch, or the end of the file before or in it.
ReadHeader ==
  /\ parser = "header"
  /\ IF disk - read < 2 THEN parser' = "end" /\ UNCHANGED read
     ELSE parser' = "body" /\ read' = read + 2
  /\ UNCHANGED <<parsed, capturevars>>

\* As many bytes as the header says, or the end of the file in them.
ReadBody ==
  /\ parser = "body"
  /\ LET ln == file[read].len IN
       IF disk - read < ln THEN parser' = "end" /\ UNCHANGED <<read, parsed>>
       ELSE /\ parser' = "header" /\ read' = read + ln
            /\ parsed' = Append(parsed, SubSeq(file, read + 1, read + ln))
  /\ UNCHANGED capturevars

Parses == Parse \/ ReadHeader \/ ReadBody

Next == Captures \/ Parses

Spec == Init /\ [][Next]_vars

-----------------------------------------------------------------------------
(* Properties.                                                             *)

\* Whenever the program is cut off, the parser gets whole batches in the
\* order they were read, and none that was lost.
ParsedAreRead ==
  /\ \A i \in DOMAIN parsed :
       LET b == parsed[i] IN
         b # <<>> /\ b = Body([n |-> b[1].n, len |-> b[1].len]) /\ b[1].n \in (1 .. count) \ lost
  /\ \A i, j \in DOMAIN parsed : i < j => parsed[i][1].n < parsed[j][1].n

\* A program that was not killed leaves everything it read and did not lose,
\* and nothing after it ("so no signal lands mid-write").
NothingIsTorn ==
  pc \in {"closed", "died"} /\ parser = "end" =>
    /\ {parsed[i][1].n : i \in DOMAIN parsed} = (1 .. count) \ lost
    /\ read = Len(file)

-----------------------------------------------------------------------------
(* What is behind them: the file is a row of batches, each behind its      *)
(* header, the last one perhaps without its body yet.                      *)

Cell == [kind : {"time", "length", "data"}, n : Nat, len : Nat]
EndAt(i) == i + 1 + file[i + 1].len    \* of the batch whose time is at i
IsTime(i) == i \in DOMAIN file /\ file[i].kind = "time"

FileIsRow ==
  /\ file # <<>> => IsTime(1)
  /\ \A i \in DOMAIN file : IsTime(i) =>
       /\ i + 1 \in DOMAIN file /\ file[i].n \in (1 .. count) \ lost
       /\ file[i + 1] = [kind |-> "length", n |-> file[i].n, len |-> file[i + 1].len]
       /\ file[i + 1].len > 0
       /\ \/ /\ EndAt(i) <= Len(file)
             /\ \A j \in i + 2 .. EndAt(i) : file[j] = [file[i + 1] EXCEPT !.kind = "data"]
             /\ EndAt(i) < Len(file) => IsTime(EndAt(i) + 1)
          \/ i + 1 = Len(file) /\ pc \in {"body", "killed"}
  /\ \A i, j \in DOMAIN file : i < j /\ IsTime(i) /\ IsTime(j) => file[i].n < file[j].n
  /\ pc = "body" =>
       /\ IsTime(Len(file) - 1) /\ file[Len(file)].n = buf.n /\ file[Len(file)].len = buf.len

\* What read() has returned is in the file, in hand, or lost.
InHand == IF buf = Nothing \/ pc = "body" THEN {} ELSE {buf.n}
InFile == {file[i].n : i \in {k \in DOMAIN file : file[k].kind = "time"}}
AllAccounted ==
  /\ pc # "killed" => (1 .. count) \ lost = InFile \union InHand
  /\ buf # Nothing => buf.n = count /\ count \notin lost /\ buf.len \in Nat \ {0}
  /\ buf # Nothing /\ pc \notin {"body", "killed"} => \A i \in DOMAIN file : IsTime(i) => file[i].n < count
  /\ pc \in {"header", "body"} => buf # Nothing
  /\ pc \in {"arm", "read", "closed", "died"} => buf = Nothing

\* An alarm comes while the batch is read, and never while it is written.
AlarmsAreEarly == armed => pc \in {"read", "got", "disarm"} \/ pc = "killed"

\* The parser is at the start of a batch, or behind its header.
ParserFollows ==
  /\ parser # "idle" => pc \in Over
  /\ parser = "idle" => read = 0 /\ parsed = <<>>
  /\ parser \in {"idle", "header"} => read = Len(file) \/ IsTime(read + 1)
  /\ parser = "body" => read > 1 /\ IsTime(read - 1)
  /\ {parsed[i][1].n : i \in DOMAIN parsed}
       = {file[i].n : i \in {k \in DOMAIN file : file[k].kind = "time" /\ k + 1 < read}}

IInv ==
  /\ TypeOK /\ file \in Seq(Cell) /\ parsed \in Seq(Seq(Cell)) /\ buf \in [n : Nat, len : Nat]
  /\ pc \in {"closed", "died"} => disk = Len(file)
  /\ FileIsRow /\ AllAccounted /\ AlarmsAreEarly /\ ParserFollows
  /\ ParsedAreRead /\ NothingIsTorn
=============================================================================
