------------------------------- MODULE Listen -------------------------------
(***************************************************************************)
(* The loops that listen to /dev/diag on the phone.  A read may sleep      *)
(* forever: O_NONBLOCK is ignored, and poll() says that the device is      *)
(* readable when the driver was merely woken (sdpwatch.py:51-54).  Three   *)
(* ways to bound it: a one-shot alarm around each read (sdpwatch.py,       *)
(* sdpdump.py, qmi/f3probe.py), ticks that go on over the whole loop       *)
(* (diagpeek.py, diag/f3probe.py), and select() before a bare read         *)
(* (diagsip.py, diagdump.py).                                              *)
(***************************************************************************)
EXTENDS Integers, SequencesExt, FiniteSets

CONSTANTS
  Limit,      \* 12 hits, 4 frames of a code, 3 samples of a source
  MaxTime,    \* the seconds to listen for
  MaxFrames   \* bound on what the modem sends

VARIABLES
  program,
  pc,        \* "test", "select", "arm", "read", "got", "disarm", "frames", "end" or "died"
  armed,     \* a timer is running
  left,      \* the time left
  batch,     \* the frames of the batch in hand
  shown,     \* those written or printed
  pending,   \* in the driver: the frames of the next batch
  woken,     \* the driver says it is readable
  delivered, \* the frames of all batches read
  lost       \* the numbers of those an alarm took away

vars == <<program, pc, armed, left, batch, shown, pending, woken, delivered, lost>>

Timers == {"sdpwatch", "sdpdump", "qmi/f3probe"}
Ticks == {"diagpeek", "diag/f3probe"}
Selects == {"diagsip", "diagdump"}

Wanted == {"invite", "bye"}  \* the codes that diagdump.py is asked for
Codes == Wanted \union {"other"}

Over == {"end", "died"}

TypeOK ==
  /\ program \in Timers \union Ticks \union Selects
  /\ pc \in {"test", "select", "arm", "read", "got", "disarm", "frames"} \union Over
  /\ armed \in BOOLEAN /\ woken \in BOOLEAN /\ left \in 0 .. MaxTime
  /\ Len(delivered) + Len(pending) <= MaxFrames
  /\ lost \subseteq DOMAIN delivered

Init ==
  /\ program \in Timers \union Ticks \union Selects
  /\ pc = "test" /\ armed = (program \in Ticks) /\ left = MaxTime
  /\ batch = <<>> /\ shown = <<>> /\ pending = <<>>
  /\ woken = FALSE /\ delivered = <<>> /\ lost = {}

-----------------------------------------------------------------------------
(* The program.                                                            *)

driver == <<pending, woken>>
history == <<delivered, lost>>

Test ==
  /\ pc = "test"
  /\ pc' = IF left = 0 THEN "end"
           ELSE IF program \in Timers THEN "arm"
           ELSE IF program \in Ticks THEN "read" ELSE "select"
  /\ UNCHANGED <<program, armed, left, batch, shown, driver, history>>

Select ==
  /\ pc = "select"
  /\ \/ (woken \/ pending # <<>>) /\ pc' = "read" /\ woken' = FALSE
     \/ ~woken /\ pending = <<>> /\ left = 0 /\ pc' = "test" /\ UNCHANGED woken
  /\ UNCHANGED <<program, armed, left, batch, shown, pending, history>>

\* Faulty variant: no timer.
ArmNothing ==
  /\ pc = "arm"
  /\ pc' = "read"
  /\ UNCHANGED <<program, armed, left, batch, shown, driver, history>>

Arm ==
  /\ pc = "arm"
  /\ armed' = TRUE /\ pc' = "read"
  /\ UNCHANGED <<program, left, batch, shown, driver, history>>

\* os.read() hands back one whole batch.
Read ==
  /\ pc = "read" /\ pending # <<>>
  /\ batch' = pending /\ delivered' = delivered \o pending /\ pending' = <<>>
  /\ pc' = "got"
  /\ UNCHANGED <<program, armed, left, shown, woken, lost>>

ReadFails ==
  /\ pc = "read"
  /\ pc' = IF program \in Timers THEN "disarm" ELSE "test"
  /\ UNCHANGED <<program, armed, left, batch, shown, driver, history>>

Return ==
  /\ pc = "got"
  /\ pc' = IF program \in Timers THEN "disarm" ELSE "frames"
  /\ UNCHANGED <<program, armed, left, batch, shown, driver, history>>

Disarm ==
  /\ pc = "disarm"
  /\ armed' = FALSE
  /\ pc' = IF batch = <<>> THEN "test" ELSE "frames"
  /\ UNCHANGED <<program, left, batch, shown, driver, history>>

\* A timer that runs off inside the try takes the read away, and its batch if
\* it had one; anywhere else it ends the program.
Alarm ==
  /\ armed /\ pc \notin Over
  /\ armed' = (program \in Ticks)
  /\ IF pc \in {"read", "got"}
       THEN /\ pc' = IF program \in Timers THEN "disarm" ELSE "test"
            /\ batch' = <<>>
            /\ lost' = lost \union {batch[i].n : i \in DOMAIN batch}
       ELSE pc' = "died" /\ UNCHANGED <<batch, lost>>
  /\ UNCHANGED <<program, left, shown, driver, delivered>>

\* How many of a code have been shown.
Count(c) == Cardinality({i \in DOMAIN shown : shown[i].code = c})
Full == \A c \in Wanted : Count(c) >= Limit

\* Whether a program shows a frame, after those it has shown.
sdpwatch(f) == TRUE
sdpdump(f) == f.code \in Wanted
diagsip(f) == f.code \in Wanted
diagdump(f) == f.code \in Wanted /\ Count(f.code) < Limit
f3probe(f) == Count(f.code) < Limit

Shows(f) ==
  \/ program \in {"sdpwatch", "diagpeek", "qmi/f3probe"} /\ sdpwatch(f)
  \/ program = "sdpdump" /\ sdpdump(f)
  \/ program = "diagsip" /\ diagsip(f)
  \/ program = "diagdump" /\ diagdump(f)
  \/ program = "diag/f3probe" /\ f3probe(f)

\* Faulty variant: diagsip.py leaves the loop over the batch only.
FrameBreaksOnce ==
  /\ pc = "frames" /\ batch # <<>>
  /\ shown' = IF Shows(Head(batch)) THEN Append(shown, Head(batch)) ELSE shown
  /\ batch' = IF program = "diagsip" /\ Len(shown') >= Limit THEN <<>> ELSE Tail(batch)
  /\ UNCHANGED <<program, pc, armed, left, driver, history>>

\* One frame; diagsip.py stops in the middle of a batch when it has enough.
Frame ==
  /\ pc = "frames" /\ batch # <<>>
  /\ batch' = Tail(batch)
  /\ shown' = IF Shows(Head(batch)) THEN Append(shown, Head(batch)) ELSE shown
  /\ pc' = IF program = "diagsip" /\ Len(shown') >= Limit THEN "end" ELSE "frames"
  /\ UNCHANGED <<program, armed, left, driver, history>>

\* The end of a batch; diagdump.py stops when it has enough of every code.
NoFrame ==
  /\ pc = "frames" /\ batch = <<>>
  /\ pc' = IF program = "diagdump" /\ Full THEN "end" ELSE "test"
  /\ UNCHANGED <<program, armed, left, batch, shown, driver, history>>

-----------------------------------------------------------------------------
(* The modem, the driver and the clock.                                    *)

Sends ==
  /\ Len(delivered) + Len(pending) < MaxFrames
  /\ \E c \in Codes :
       pending' = Append(pending, [n |-> Len(delivered) + Len(pending) + 1, code |-> c])
  /\ UNCHANGED <<program, pc, armed, left, batch, shown, woken, history>>

Wakes ==
  /\ program \in Selects /\ ~woken
  /\ woken' = TRUE
  /\ UNCHANGED <<program, pc, armed, left, batch, shown, pending, history>>

Clock ==
  /\ left > 0 /\ pc \notin Over
  /\ left' = left - 1
  /\ UNCHANGED <<program, pc, armed, batch, shown, driver, history>>

Loop == Test \/ Select \/ Arm \/ Read \/ Return \/ Disarm \/ Frame \/ NoFrame

Next == Loop \/ ReadFails \/ Alarm \/ Sends \/ Wakes \/ Clock

Spec == Init /\ [][Next]_vars

\* The program runs on, a timer that was set runs off, and time passes; that
\* the modem sends anything, or the driver wakes a reader, is not assumed.
FairSpec == Spec /\ WF_vars(Loop) /\ WF_vars(Alarm) /\ WF_vars(Clock)

-----------------------------------------------------------------------------
(* Properties.                                                             *)

\* The frames that came to the loop: those of all batches that no alarm took.
Came == DOMAIN delivered \ lost

\* Those that count towards the limit that frame i is under, i included.
Kin(i) ==
  {j \in Came : j <= i /\ IF program = "diagsip" THEN delivered[j].code \in Wanted
                          ELSE delivered[j].code = delivered[i].code}

\* What a program is to show of the frames that came: all, those of its codes,
\* the first few of them, or the first few of each.
Due ==
  {i \in Came :
    /\ program \in {"sdpdump", "diagsip", "diagdump"} => delivered[i].code \in Wanted
    /\ program \in {"diagsip", "diagdump", "diag/f3probe"} => Cardinality(Kin(i)) <= Limit}
Shown == {shown[i].n : i \in DOMAIN shown}

\* In the order they came and up to the limit nothing is left out: at the end
\* all that was due is shown, before it, or when an alarm ends the program, a
\* first part of that; and a program that stops before its time has enough.
ShowsWhatIsDue ==
  /\ \A i \in DOMAIN shown : shown[i].n \in Due /\ shown[i] = delivered[shown[i].n]
  /\ \A i, j \in DOMAIN shown : i < j => shown[i].n < shown[j].n
  /\ \A i \in Due, j \in Shown : i < j => i \in Shown
  /\ pc \in {"test", "select", "arm", "read", "end"} => Shown = Due
  /\ pc = "end" /\ left > 0 =>
       IF program = "diagsip" THEN Len(shown) = Limit ELSE program = "diagdump" /\ Full

\* A bare read is never interrupted: such a program loses nothing.
OnlyAlarmsLose == program \in Selects => lost = {} /\ pc # "died"

\* After select() said so, and with nothing to read.
Stuck == program \in Selects /\ pc = "read" /\ pending = <<>>

\* Every program ends when its time is over, whatever the driver does to its
\* reads; a bare read behind a select() may sleep on, and nothing else may.
Ends == <>(pc \in Over) \/ <>[]Stuck

-----------------------------------------------------------------------------
(* What is behind them.                                                    *)

\* The frames that the loop over a batch has had, and those of a kind.
Had == Len(delivered) - Len(batch)
HadOf(K) == {j \in 1 .. Had : j \notin lost /\ delivered[j].code \in K}
Least(a, b) == IF a < b THEN a ELSE b

Numbered ==
  /\ \A i \in DOMAIN delivered : delivered[i].n = i
  /\ \A i \in DOMAIN pending : pending[i].n = Len(delivered) + i
  /\ \A i \in DOMAIN batch : batch[i] = delivered[Had + i] /\ Had + i \notin lost
  /\ Len(batch) <= Len(delivered)

\* Of what is limited, as many have been shown as came, up to the limit.
Counted ==
  /\ program = "diagsip" =>
       Len(shown) = Least(Cardinality(HadOf(Wanted)), Limit) /\ (pc # "end" => Len(shown) < Limit)
  /\ program = "diagdump" => \A c \in Wanted : Count(c) = Least(Cardinality(HadOf({c})), Limit)
  /\ program = "diag/f3probe" => \A c \in Codes : Count(c) = Least(Cardinality(HadOf({c})), Limit)

Frames == Seq([n : Nat, code : Codes])
IInv ==
  /\ TypeOK
  /\ batch \in Frames /\ shown \in Frames /\ pending \in Frames /\ delivered \in Frames
  /\ Numbered /\ Counted
  /\ pc \in {"test", "select", "arm", "read"} => batch = <<>>
  /\ armed => program \in Timers \union Ticks
  /\ pc = "arm" => program \in Timers
  /\ Shown = {i \in Due : i <= Had}
  /\ pc = "end" => (program = "diagsip" /\ Len(shown) = Limit) \/ batch = <<>>
  /\ ShowsWhatIsDue /\ OnlyAlarmsLose
=============================================================================
