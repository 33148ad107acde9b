----------------------------- MODULE DiagChannel ----------------------------
(***************************************************************************)
(* scripts/diag/diagefs.py, the transport: a request goes into the modem's *)
(* queue, the modem answers in order, and the client takes the first frame *)
(* that carries the command it is waiting for.  Nothing in a reply says    *)
(* which request it answers, so one that comes after its four seconds is   *)
(* there for the next request with the same command.  The modem's EFS is   *)
(* modelled from what the client expects of it.                            *)
(***************************************************************************)
EXTENDS Integers, Sequences, FiniteSetsExt

CONSTANTS
  ReadChunk,    \* 512: bytes asked for in one read, here in units
  MaxTimeouts,  \* bound on requests without an answer in time
  MaxErrors     \* bound on errors and short writes of the modem

VARIABLES
  requests,  \* sent and not yet executed by the modem
  replies,   \* in the driver, not yet read
  files,     \* a function from paths to sequences of units: the EFS
  open,      \* open[fd]: the item of a descriptor, or "closed"
  timeouts, errors

chanvars == <<requests, replies, files, open, timeouts, errors>>

ChannelInit ==
  /\ requests = <<>> /\ replies = <<>> /\ open = <<>>
  /\ timeouts = 0 /\ errors = 0

Least(a, b) == IF a < b THEN a ELSE b

Queue(q) == Len(q) \in Nat /\ q = [i \in 1 .. Len(q) |-> q[i]]

\* As long as every answer comes in time, no more than one request is under
\* way: not yet executed, or answered.
Quiet == requests = <<>> /\ replies = <<>>
One(q) == q # <<>> /\ q = <<Head(q)>>
OneAsked(cmd) == One(requests) /\ replies = <<>> /\ Head(requests).cmd = cmd
OneAnswered(cmd) == requests = <<>> /\ One(replies) /\ Head(replies).cmd = cmd
OneUnderWay(cmd) == OneAsked(cmd) \/ OneAnswered(cmd)
OnePending == \/ One(requests) /\ replies = <<>>
              \/ requests = <<>> /\ One(replies)

-----------------------------------------------------------------------------
(* The client's side.                                                      *)

Send(q) == requests' = Append(requests, q)

\* find_frame: the first frame with the command wanted.  What comes before
\* it is skipped, and what its batch holds after it is dropped.
Receive(cmd, r) ==
  \E i \in DOMAIN replies :
    /\ replies[i].cmd = cmd
    /\ \A j \in 1 .. i - 1 : replies[j].cmd # cmd
    /\ r = replies[i]
    /\ \E k \in i .. Len(replies) : replies' = SubSeq(replies, k + 1, Len(replies))

\* No frame in time: the reply is late, or lost with the batch that the tick
\* of the alarm threw away.
NoAnswer ==
  /\ timeouts < MaxTimeouts
  /\ timeouts' = timeouts + 1
  /\ replies' \in {replies, <<>>}

-----------------------------------------------------------------------------
(* The modem's side.                                                       *)

Answer(r) == replies' = Append(replies, r)

\* Closing a descriptor that is open does not fail.
ModemFails(q) ==
  /\ q.cmd # "close" /\ errors < MaxErrors
  /\ errors' = errors + 1
  /\ Answer([cmd |-> q.cmd, fd |-> 0, err |-> 1, n |-> 0, body |-> <<>>])
  /\ UNCHANGED <<files, open>>

\* The errno of an item that is not there is no fault of the modem's.
ModemHasNone(q) ==
  /\ q.cmd = "open" /\ q.path \notin DOMAIN files
  /\ Answer([cmd |-> "open", fd |-> 0, err |-> 1, n |-> 0, body |-> <<>>])
  /\ UNCHANGED <<files, open, errors>>

ModemOpens(q) ==
  /\ q.cmd = "open" /\ q.path \in DOMAIN files
  /\ open' = Append(open, q.path)
  /\ Answer([cmd |-> "open", fd |-> Len(open'), err |-> 0, n |-> 0, body |-> <<>>])
  /\ UNCHANGED <<files, errors>>

ModemReads(q) ==
  LET file == files[open[q.fd]]
      body == SubSeq(file, q.off + 1, Least(q.off + ReadChunk, Len(file)))
  IN  /\ q.cmd = "read"
      /\ Answer([cmd |-> "read", fd |-> q.fd, err |-> 0, n |-> Len(body), body |-> body])
      /\ UNCHANGED <<files, open, errors>>

\* The first n units of part over file from off on; the file grows if need be.
Overwrite(file, off, part, n) ==
  [i \in 1 .. Max({Len(file), off + n}) |->
     IF i \in off + 1 .. off + n THEN part[i - off] ELSE file[i]]

\* A write that takes less than it was given counts as an error.
ModemWrites(q) ==
  /\ q.cmd = "write"
  /\ \E n \in 0 .. Len(q.part) :
       /\ errors' = IF n < Len(q.part) THEN errors + 1 ELSE errors
       /\ errors' <= MaxErrors
       /\ files' = [files EXCEPT ![open[q.fd]] = Overwrite(@, q.off, q.part, n)]
       /\ Answer([cmd |-> "write", fd |-> q.fd, err |-> 0, n |-> n, body |-> <<>>])
  /\ UNCHANGED open

ModemCloses(q) ==
  /\ q.cmd = "close"
  /\ open' = [open EXCEPT ![q.fd] = "closed"]
  /\ Answer([cmd |-> "close", fd |-> q.fd, err |-> 0, n |-> 0, body |-> <<>>])
  /\ UNCHANGED <<files, errors>>

Modem ==
  /\ requests # <<>>
  /\ requests' = Tail(requests)
  /\ LET q == Head(requests) IN
       \/ ModemFails(q) \/ ModemHasNone(q) \/ ModemOpens(q)
       \/ ModemReads(q) \/ ModemWrites(q) \/ ModemCloses(q)
  /\ UNCHANGED timeouts
=============================================================================
