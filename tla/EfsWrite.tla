------------------------------- MODULE EfsWrite -----------------------------
(***************************************************************************)
(* scripts/qmi/efswrite.py: read the item, refuse a value of another       *)
(* length, write it in chunks, read it back and compare.  Requests may go  *)
(* unanswered, replies may come late and the modem may fail.               *)
(***************************************************************************)
EXTENDS EfsRead

CONSTANTS
  path,        \* the item written
  Items,       \* values the item may have
  Datas,       \* values to write
  WriteChunk   \* 256: CHUNK, in units

VARIABLES
  phase,           \* "before", "write" or "after": the part of main()
  data, original,
  rc               \* of write_file(), then the exit status

vars == <<chanvars, readvars, phase, data, original, rc>>

item == files[path]

Units == UNION {{x[j] : j \in DOMAIN x} : x \in Items \union Datas}

TypeOK ==
  /\ phase \in {"before", "write", "after"}
  /\ pc \in {"start", "open", "read", "close", "openw", "write", "closew", "end"}
  /\ \A i \in DOMAIN buf : buf[i] \in Units
  /\ off \in 0 .. IF phase = "write" THEN Len(data) ELSE MaxLen + ReadChunk
  /\ fd \in 0 .. Len(open)
  /\ rc \in {0, 1}

Init ==
  /\ ChannelInit /\ ReadInit
  /\ files \in [{path} -> Items] /\ original = files[path]
  /\ data \in Datas
  /\ phase = "before" /\ rc = 0

Start ==
  /\ pc = "start"
  /\ AskOpen(path, "open")
  /\ UNCHANGED <<replies, files, open, timeouts, errors, phase, data, original,
                 buf, off, fd, rc>>

Exit(status) == pc' = "end" /\ rc' = status /\ UNCHANGED <<requests, phase>>

GoOn(next, at) == phase' = next /\ AskOpen(path, at) /\ UNCHANGED rc

\* Faulty variant: any value is written.
DecideWithoutLength(body) ==
  IF body = NoFile \/ data = body
    THEN Exit(IF body = data THEN 0 ELSE 1) ELSE GoOn("write", "openw")

\* main(), between the first read and the write.
Decide(body) ==
  IF body = NoFile \/ Len(data) # Len(body) THEN Exit(1)
  ELSE IF data = body THEN Exit(0)
  ELSE GoOn("write", "openw")

\* main(), after the read-back.
Verdict(body) == Exit(IF body = data THEN 0 ELSE 1)

AfterRead(body) == IF phase = "before" THEN Decide(body) ELSE Verdict(body)

-----------------------------------------------------------------------------
(* write_file().                                                           *)

AskWrite(f, o) ==
  Ask([cmd |-> "write", fd |-> f, off |-> o,
       part |-> SubSeq(data, o + 1, Least(o + WriteChunk, Len(data)))], "write")

OpenedForWrite ==
  \/ \E r \in Replies :
       /\ Got("openw", "open", r)
       /\ IF r.err # 0
            THEN Exit(1) /\ UNCHANGED <<off, fd>>
            ELSE AskWrite(r.fd, 0) /\ fd' = r.fd /\ off' = 0 /\ UNCHANGED <<phase, rc>>
       /\ UNCHANGED buf
  \/ NoneFor("openw") /\ Exit(1) /\ UNCHANGED <<buf, off, fd>>

Refused == AskClose(fd, "closew") /\ rc' = 1

GoOnWriting ==
  /\ IF off' < Len(data) THEN AskWrite(fd, off') ELSE AskClose(fd, "closew")
  /\ UNCHANGED rc

\* Faulty variant: the loop goes on by what was sent, not by what was taken.
WroteAssumesAll ==
  /\ \/ \E r \in Replies :
          /\ Got("write", "write", r)
          /\ off' = off + WriteChunk
          /\ IF r.err # 0 THEN Refused ELSE GoOnWriting
     \/ NoneFor("write") /\ Refused /\ UNCHANGED off
  /\ UNCHANGED <<phase, buf, fd>>

Wrote ==
  /\ \/ \E r \in Replies :
          /\ Got("write", "write", r)
          /\ off' = off + r.n
          /\ IF r.err # 0 \/ r.n <= 0 THEN Refused ELSE GoOnWriting
     \/ NoneFor("write") /\ Refused /\ UNCHANGED off
  /\ UNCHANGED <<phase, buf, fd>>

ClosedAfterWrite ==
  /\ \/ \E r \in Replies : Got("closew", "close", r)
     \/ NoneFor("closew")
  /\ IF rc = 1 THEN Exit(1) ELSE GoOn("after", "open")
  /\ UNCHANGED <<buf, off, fd>>

\* The alarm ticks while a batch is searched, not read: DiagInterrupt leaves
\* recv().  Only the write loop has a finally clause to close the file.
TickEscapes ==
  /\ pc \notin {"start", "end"} /\ NoAnswer
  /\ IF pc = "write" THEN Refused /\ UNCHANGED phase ELSE Exit(1)
  /\ UNCHANGED <<files, open, errors, buf, off, fd>>

Client ==
  /\ \/ FileOpened /\ UNCHANGED <<phase, rc>>
     \/ NotOpened /\ AfterRead(NoFile)
     \/ BlockRead /\ UNCHANGED <<phase, rc>>
     \/ FileClosed /\ AfterRead(buf)
     \/ OpenedForWrite \/ Wrote \/ ClosedAfterWrite \/ TickEscapes
  /\ UNCHANGED <<data, original>>

ModemStep ==
  /\ Modem
  /\ UNCHANGED <<readvars, phase, data, original, rc>>

Next == Start \/ Client \/ ModemStep

Spec == Init /\ [][Next]_vars

-----------------------------------------------------------------------------
(* Properties.                                                             *)

\* The item is changed in place, unit by unit towards the new value, keeps
\* its length whatever goes wrong, and success means that it begins with the
\* new value (lines 16-17 of the program).
Update == INSTANCE ItemUpdate WITH
  Values <- Units,
  status <- IF pc # "end" THEN "running" ELSE IF rc = 0 THEN "done" ELSE "failed"

UpdateSpec == Update!Spec

\* The inductive invariant (MCModem_proofs).  At most one request to open, to
\* write and, before the write, to read is under way, with or without its
\* answer; so before a write fails no answer is late for its request.
Asked(cmd) == {i \in DOMAIN requests : requests[i].cmd = cmd}
Answered(cmd) == {i \in DOMAIN replies : replies[i].cmd = cmd}
Idle(cmd) == Asked(cmd) = {} /\ Answered(cmd) = {}
Single(cmd) ==
  /\ \A i, j \in Asked(cmd) : i = j
  /\ \A i, j \in Answered(cmd) : i = j
  /\ Asked(cmd) = {} \/ Answered(cmd) = {}

OneAtATime ==
  /\ Single("open") /\ (pc \notin {"open", "openw", "end"} => Idle("open"))
  /\ Single("write") /\ (pc # "write" /\ rc = 0 => Idle("write"))
  /\ phase = "before" => Single("read") /\ (pc \in {"start", "open"} => Idle("read"))

\* A descriptor that is open, and that nothing under way closes.
IsOpen(f) ==
  /\ f \in 1 .. Len(open) /\ open[f] = path
  /\ \A i \in Asked("close") : requests[i].fd # f

DescriptorsInUse ==
  /\ \A i \in Asked("open") : requests[i].path = path
  /\ \A i \in Answered("open") : replies[i].err = 0 => IsOpen(replies[i].fd)
  /\ \A i \in Asked("close") : requests[i].fd \in 1 .. Len(open)
  /\ \A i \in Asked("read") \union Asked("write") :
       /\ requests[i].fd \in 1 .. Len(open) /\ open[requests[i].fd] = path
       /\ \A j \in Asked("close") : j < i => requests[j].fd # requests[i].fd
  /\ pc \in {"read", "write"} => IsOpen(fd)

\* What is read before the write is how the item begins.
IsBlock(r) ==
  /\ Queue(r.body) /\ r.n = Len(r.body)
  /\ off + r.n <= Len(item) /\ \A u \in 1 .. r.n : item[off + u] = r.body[u]

ReadIsBegin ==
  phase = "before" /\ pc \in {"read", "close"} =>
    /\ Queue(buf) /\ off = Len(buf) /\ off <= Len(item)
    /\ \A u \in 1 .. off : item[u] = buf[u]
    /\ pc = "read" => /\ \A i \in Asked("read") : requests[i].off = off
                      /\ \A i \in Answered("read") : IsBlock(replies[i])

\* What is written is a part of the value, at its place, and fits.
IsPart(q) ==
  /\ q.off \in Nat /\ Queue(q.part) /\ q.off + Len(q.part) <= Len(data)
  /\ \A u \in 1 .. Len(q.part) : q.part[u] = data[q.off + u]

Begins(n) == n <= Len(item) /\ \A u \in 1 .. n : item[u] = data[u]

WrittenBegins ==
  /\ phase # "before" => Len(data) <= Len(item)
  /\ \A i \in Asked("write") : Len(data) <= Len(item) /\ IsPart(requests[i])
  /\ pc \in {"write", "closew"} /\ rc = 0 =>
       off \in 0 .. Len(data) /\ Begins(off) /\ (pc = "closew" => off = Len(data))
  /\ pc = "write" =>
       /\ \A i \in Asked("write") : requests[i].off = off
       /\ \A i \in Answered("write") :
            replies[i].n \in 0 .. Len(data) - off /\ Begins(off + replies[i].n)
  /\ phase = "after" \/ (pc = "end" /\ rc = 0) => Begins(Len(data))

Stages ==
  /\ pc \in {"start", "open", "read", "close", "openw", "write", "closew", "end"}
  /\ phase \in {"before", "write", "after"} /\ rc \in {0, 1}
  /\ pc \in {"openw", "write", "closew"} => phase = "write"
  /\ pc \in {"open", "read", "close"} => phase # "write"
  /\ pc = "start" => phase = "before"
  /\ pc \notin {"closew", "end"} => rc = 0

IInv ==
  /\ Queue(requests) /\ Queue(replies) /\ Queue(open)
  /\ files = [p \in {path} |-> item]
  /\ item \in Seq(Units) /\ data \in Seq(Units) /\ data \in Datas
  /\ Stages
  /\ OneAtATime /\ DescriptorsInUse
  /\ ReadIsBegin /\ WrittenBegins

\* The inductive invariant (MCModemInTime_proofs).  In time, the descriptor
\* that is open is the one in use, or the one just told.
Accounted(f) ==
  \/ open[f] = "closed"
  \/ f = fd /\ pc \in {"read", "write"}
  \/ f = fd /\ pc \in {"close", "closew"} /\ requests # <<>>
  \/ /\ pc \in {"open", "openw"} /\ replies # <<>>
     /\ Head(replies).err = 0 /\ Head(replies).fd = f

Timely ==
  /\ pc \in {"start", "end"} => Quiet
  /\ pc \in {"open", "openw"} => OneUnderWay("open")
  /\ pc = "read" => OneUnderWay("read")
  /\ pc = "write" => OneUnderWay("write")
  /\ pc \in {"close", "closew"} => OneUnderWay("close")
  /\ pc \in {"close", "closew"} /\ requests # <<>> => Head(requests).fd = fd
  /\ \A f \in DOMAIN open : Accounted(f)

InTime == timeouts \in Nat /\ (timeouts = 0 => Timely)

\* A run that got every answer, errors among them, closes what it opened on
\* every path (the finally clause of write_file, the end of read_file).
DescriptorsClosed ==
  pc = "end" /\ requests = <<>> /\ timeouts = 0 =>
    \A f \in DOMAIN open : open[f] = "closed"

\* If the modem answers in time and without an error, the item has the new
\* value in the end, or another length.
UndisturbedWrites ==
  pc = "end" /\ timeouts = 0 /\ errors = 0 =>
    IF Len(data) = Len(original) THEN rc = 0 /\ item = data
                                 ELSE rc = 1 /\ item = original

\* "it refuses to write a value of a different size"
RefusesOtherSize == item # original => Len(data) = Len(original)
=============================================================================
