------------------------------- MODULE EfsRead ------------------------------
(***************************************************************************)
(* scripts/diag/diagefs.py, read_file(), as the programs that use it see   *)
(* it: open, read block by block, close.  A program goes on with NoFile,   *)
(* which stands for None, in the step NotOpened, and with buf in the step  *)
(* FileClosed.                                                             *)
(***************************************************************************)
EXTENDS DiagChannel

CONSTANT MaxLen  \* the argument maxlen, in units

VARIABLES
  pc,    \* what the client is waiting for
  buf,   \* out: what read_file() has so far
  off, fd

readvars == <<pc, buf, off, fd>>

NoFile == <<"none">>

ReadInit == pc = "start" /\ buf = <<>> /\ off = 0 /\ fd = 0

\* efs(): a request is sent, and its answer waited for at the point next.
Ask(q, next) == Send(q) /\ pc' = next

AskOpen(p, next)  == Ask([cmd |-> "open", path |-> p], next)
AskRead(f, o)     == Ask([cmd |-> "read", fd |-> f, off |-> o], "read")
AskClose(f, next) == Ask([cmd |-> "close", fd |-> f], next)

Replies == {replies[i] : i \in DOMAIN replies}

\* The answer r to the command waited for has come in time.
Got(at, cmd, r) ==
  /\ pc = at
  /\ Receive(cmd, r)
  /\ UNCHANGED <<files, open, timeouts, errors>>

NoneFor(at) ==
  /\ pc = at
  /\ NoAnswer
  /\ UNCHANGED <<files, open, errors>>

-----------------------------------------------------------------------------
FileOpened ==
  \E r \in Replies :
    /\ Got("open", "open", r) /\ r.err = 0
    /\ AskRead(r.fd, 0)
    /\ fd' = r.fd /\ off' = 0 /\ buf' = <<>>

\* None is returned.
NotOpened ==
  /\ \/ \E r \in Replies : Got("open", "open", r) /\ r.err # 0
     \/ NoneFor("open")
  /\ UNCHANGED <<buf, off, fd>>

\* Faulty variant: one block is taken for the file.
FirstBlockRead ==
  \/ \E r \in Replies :
       /\ Got("read", "read", r)
       /\ buf' = buf \o r.body
       /\ off' = off + r.n
       /\ AskClose(fd, "close")
       /\ UNCHANGED fd
  \/ NoneFor("read") /\ AskClose(fd, "close") /\ UNCHANGED <<buf, off, fd>>

\* A short block, MaxLen, an errno, the end of the file and a block that does
\* not come all end the loop, and all count as the whole file.
BlockRead ==
  \/ \E r \in Replies :
       /\ Got("read", "read", r)
       /\ buf' = buf \o r.body
       /\ off' = off + r.n
       /\ IF r.err # 0 \/ r.n < ReadChunk \/ off' >= MaxLen
            THEN AskClose(fd, "close") ELSE AskRead(fd, off')
       /\ UNCHANGED fd
  \/ NoneFor("read") /\ AskClose(fd, "close") /\ UNCHANGED <<buf, off, fd>>

\* How the close went is not looked at, and buf is returned.
FileClosed ==
  /\ \/ \E r \in Replies : Got("close", "close", r)
     \/ NoneFor("close")
  /\ UNCHANGED <<buf, off, fd>>
=============================================================================
