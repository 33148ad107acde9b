-------------------------------- MODULE EfsWalk -----------------------------
(***************************************************************************)
(* scripts/diag/diagwalk.py: the listing of the modem's EFS, directory by  *)
(* directory, with the content of its small files.  Paths are sequences of *)
(* names.  The recursion of walk() is the list of what is left to visit.   *)
(***************************************************************************)
EXTENDS EfsRead

CONSTANTS
  Tree,     \* Tree[path]: the names in a directory, in order
  Content,  \* Content[path]: what a file holds
  MaxRead   \* 96: MAXREAD, the largest file that is read; here MaxLen too

VARIABLES
  dirs,     \* dirs[dirp]: the path of a directory handle, or "closed"
  todo,     \* what walk() has still to visit: [path, isdir, size]
  kids, seq, dirp,
  out       \* the lines written: [path, body], one for each visit

vars == <<chanvars, readvars, dirs, todo, kids, seq, dirp, out>>
walkvars == <<todo, kids, seq, dirp, out>>

Root == <<>>
Unreadable == <<"unreadable">>
NotRead == <<"not read">>

TypeOK ==
  /\ pc \in {"visit", "open", "read", "close", "opendir", "readdir", "closedir", "end"}
  /\ seq = Len(kids) + 1
  /\ off \in 0 .. MaxLen + ReadChunk
  /\ dirp \in 0 .. Len(dirs) /\ fd \in 0 .. Len(open)

Init ==
  /\ ChannelInit
  /\ pc = "visit" /\ buf = <<>> /\ off = 0 /\ fd = 0
  /\ files = Content /\ dirs = <<>>
  /\ todo = <<[path |-> Root, isdir |-> TRUE, size |-> 0]>>
  /\ kids = <<>> /\ seq = 1 /\ dirp = 0 /\ out = <<>>

Line(body) == out' = Append(out, [path |-> Head(todo).path, body |-> body])

\* walk() of a directory, or the next of its kids.
Visit ==
  /\ pc = "visit"
  /\ IF todo = <<>> THEN pc' = "end" /\ UNCHANGED <<requests, todo, out>>
     ELSE LET v == Head(todo) IN
       IF v.isdir
         THEN /\ Ask([cmd |-> "opendir", path |-> v.path], "opendir")
              /\ UNCHANGED <<todo, out>>
       ELSE IF v.size <= MaxRead
         THEN AskOpen(v.path, "open") /\ UNCHANGED <<todo, out>>
       ELSE /\ Line(NotRead) /\ todo' = Tail(todo)
            /\ UNCHANGED <<pc, requests>>
  /\ UNCHANGED <<replies, files, open, timeouts, errors, buf, off, fd, dirs, kids, seq, dirp>>

\* Back to the loop over the kids.
Listed(line) ==
  /\ Line(line) /\ todo' = Tail(todo)
  /\ pc' = "visit" /\ UNCHANGED requests

AfterRead(body) == Listed(body) /\ UNCHANGED <<kids, seq, dirp>>

AskEntry(d, s) == Ask([cmd |-> "readdir", dirp |-> d, seq |-> s], "readdir")

DirOpened ==
  /\ \/ \E r \in Replies :
          /\ Got("opendir", "opendir", r)
          /\ IF r.err # 0
               THEN Listed(Unreadable) /\ UNCHANGED <<kids, seq, dirp>>
               ELSE /\ AskEntry(r.dirp, 1)
                    /\ dirp' = r.dirp /\ seq' = 1 /\ kids' = <<>>
                    /\ UNCHANGED <<todo, out>>
     \/ /\ NoneFor("opendir")
        /\ Listed(Unreadable) /\ UNCHANGED <<kids, seq, dirp>>
  /\ UNCHANGED <<buf, off, fd>>

CloseDir ==
  Ask([cmd |-> "closedir", dirp |-> dirp], "closedir") /\ UNCHANGED <<kids, seq>>

\* entries(): an errno, the record without a name and no answer end the loop.
Entry ==
  /\ \/ \E r \in Replies :
          /\ Got("readdir", "readdir", r)
          /\ IF r.err # 0 \/ r.name = "" THEN CloseDir
             ELSE /\ kids' = Append(kids, [path |-> Append(Head(todo).path, r.name),
                                           isdir |-> r.isdir, size |-> r.size])
                  /\ seq' = seq + 1 /\ AskEntry(dirp, seq + 1)
     \/ NoneFor("readdir") /\ CloseDir
  /\ UNCHANGED <<buf, off, fd, todo, dirp, out>>

\* The kids are visited before what comes after their directory.
DirClosed ==
  /\ \/ \E r \in Replies : Got("closedir", "closedir", r)
     \/ NoneFor("closedir")
  /\ Line(<<"dir">>)
  /\ todo' = kids \o Tail(todo) /\ pc' = "visit"
  /\ UNCHANGED <<requests, buf, off, fd, kids, seq, dirp>>

\* DiagInterrupt escapes from recv(); nothing is written then.
TickEscapes ==
  /\ pc \notin {"visit", "end"} /\ NoAnswer
  /\ pc' = "end" /\ out' = <<>>
  /\ UNCHANGED <<requests, files, open, errors, buf, off, fd, todo, kids, seq, dirp>>

Program ==
  /\ \/ FileOpened /\ UNCHANGED walkvars
     \/ NotOpened /\ AfterRead(NoFile)
     \/ BlockRead /\ UNCHANGED walkvars
     \/ FileClosed /\ AfterRead(buf)
     \/ DirOpened \/ Entry \/ DirClosed \/ TickEscapes
  /\ UNCHANGED dirs

-----------------------------------------------------------------------------
(* Directories on the modem's side.                                        *)

ModemOpensDir(q) ==
  /\ q.cmd = "opendir"
  /\ IF q.path \in DOMAIN Tree
       THEN /\ dirs' = Append(dirs, q.path)
            /\ Answer([cmd |-> "opendir", dirp |-> Len(dirs'), err |-> 0])
       ELSE /\ Answer([cmd |-> "opendir", dirp |-> 0, err |-> 1])
            /\ UNCHANGED dirs

ModemReadsDir(q) ==
  LET at == dirs[q.dirp]
      kid == Append(at, Tree[at][q.seq])
  IN  /\ q.cmd = "readdir"
      /\ Answer(IF at = "closed" THEN [cmd |-> "readdir", err |-> 1]
                ELSE IF q.seq > Len(Tree[at])
                THEN [cmd |-> "readdir", err |-> 0, name |-> ""]
                ELSE [cmd |-> "readdir", err |-> 0, name |-> Tree[at][q.seq],
                      isdir |-> kid \in DOMAIN Tree,
                      size |-> IF kid \in DOMAIN Tree THEN 0 ELSE Len(Content[kid])])
      /\ UNCHANGED dirs

ModemClosesDir(q) ==
  /\ q.cmd = "closedir"
  /\ dirs' = [dirs EXCEPT ![q.dirp] = "closed"]
  /\ Answer([cmd |-> "closedir", err |-> 0])

ModemDir ==
  /\ requests # <<>>
  /\ requests' = Tail(requests)
  /\ LET q == Head(requests) IN
       ModemOpensDir(q) \/ ModemReadsDir(q) \/ ModemClosesDir(q)
  /\ UNCHANGED <<files, open, timeouts, errors>>

ModemStep ==
  /\ (Modem /\ UNCHANGED dirs) \/ ModemDir
  /\ UNCHANGED <<readvars, walkvars>>

Next == Visit \/ Program \/ ModemStep

Spec == Init /\ [][Next]_vars

-----------------------------------------------------------------------------
(* Properties.                                                             *)

Exists(p) == p \in DOMAIN Tree \union DOMAIN Content

Ended == pc = "end" /\ todo = <<>>

Paths == {out[i].path : i \in DOMAIN out}

Under(p, q) == Len(p) <= Len(q) /\ SubSeq(q, 1, Len(p)) = p

\* Without a fault every directory and file is listed once, a directory's
\* whole subtree together and after it, and a small file with its content.
FaultFreeIsComplete ==
  Ended /\ timeouts = 0 /\ errors = 0 =>
    /\ Paths = DOMAIN Tree \union DOMAIN Content
    /\ Len(out) = Cardinality(Paths)
    /\ \A i, j \in DOMAIN out : \A k \in i .. j :
         Under(out[i].path, out[j].path) => Under(out[i].path, out[k].path)
    /\ \A i \in DOMAIN out : out[i].path \in DOMAIN Content =>
         out[i].body = (IF Len(Content[out[i].path]) <= MaxRead
                          THEN Content[out[i].path] ELSE NotRead)

\* As long as answers come in time, nothing is listed that is not there, and
\* what is shown of a file is where it begins, whatever fails.
NothingIsInvented ==
  timeouts = 0 => \A i \in DOMAIN out : Exists(out[i].path) /\
    (out[i].path \in DOMAIN Content =>
       \/ out[i].body \in {NotRead, NoFile}
       \/ Under(out[i].body, Content[out[i].path]))

\* The inductive invariant (MCModemInTime_proofs).  In time, what is under way
\* is about the first of what is left to visit.
IsThere(v) ==
  v.isdir \in BOOLEAN /\ v.path \in IF v.isdir THEN DOMAIN Tree ELSE DOMAIN Content

LeftIsThere ==
  /\ Queue(todo) /\ \A i \in DOMAIN todo : IsThere(todo[i])
  /\ Queue(kids) /\ \A i \in DOMAIN kids : IsThere(kids[i])

Here == Head(todo).path

OpenHere ==
  /\ requests # <<>> => Head(requests).path = Here
  /\ replies # <<>> /\ Head(replies).err = 0 =>
       Head(replies).fd \in DOMAIN open /\ open[Head(replies).fd] = Here

ReadHere ==
  /\ fd \in DOMAIN open /\ open[fd] = Here
  /\ requests # <<>> => Head(requests).fd = fd /\ Head(requests).off = off
  /\ replies # <<>> =>
       LET r == Head(replies)
       IN  /\ Queue(r.body) /\ r.n = Len(r.body) /\ off + r.n <= Len(Content[Here])
           /\ \A u \in 1 .. r.n : r.body[u] = Content[Here][off + u]

BufIsBegin ==
  /\ Queue(buf) /\ off = Len(buf) /\ off <= Len(Content[Here])
  /\ \A u \in 1 .. off : buf[u] = Content[Here][u]

DirHere ==
  /\ requests # <<>> => Head(requests).path = Here
  /\ replies # <<>> /\ Head(replies).err = 0 =>
       Head(replies).dirp \in DOMAIN dirs /\ dirs[Head(replies).dirp] = Here

EntryHere ==
  /\ seq \in Nat \ {0} /\ dirp \in DOMAIN dirs /\ dirs[dirp] = Here
  /\ requests # <<>> => Head(requests).dirp = dirp /\ Head(requests).seq = seq
  /\ replies # <<>> =>
       LET r == Head(replies)
       IN  r.err = 0 /\ r.name # "" =>
             IsThere([path |-> Append(Here, r.name), isdir |-> r.isdir])

Timely ==
  /\ pc \in {"visit", "open", "read", "close", "opendir", "readdir", "closedir", "end"}
  /\ files = Content /\ Queue(out) /\ Queue(open) /\ Queue(dirs)
  /\ LeftIsThere
  /\ pc \in {"visit", "end"} => Quiet
  /\ pc \notin {"visit", "end"} => OneUnderWay(pc) /\ todo # <<>>
  /\ pc \in {"open", "read", "close"} => ~Head(todo).isdir
  /\ pc \in {"opendir", "readdir", "closedir"} => Head(todo).isdir
  /\ pc = "open" => OpenHere
  /\ pc = "read" => ReadHere
  /\ pc \in {"read", "close"} => BufIsBegin
  /\ pc = "opendir" => DirHere
  /\ pc = "readdir" => EntryHere

InTime == timeouts \in Nat /\ NothingIsInvented /\ (timeouts = 0 => Timely)
=============================================================================
