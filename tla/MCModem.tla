------------------------------- MODULE MCModem ------------------------------
(***************************************************************************)
(* The programs that ask the modem, one instance of each: over the         *)
(* diagnostics port, which has one client at a time, and over a client of  *)
(* the IPC router.  Data is counted in units, a fraction of a block.       *)
(***************************************************************************)
EXTENDS Integers, Sequences, TLC

CONSTANTS
  MaxTimeouts, MaxErrors, MaxErrorsF3, MaxLost, \* bounds on what goes wrong
  Items, Datas,                        \* efswrite.py
  ReadChunk, WriteChunk, MaxLen,
  Found, Contents,                     \* subdiff.py
  Tree, Content,                       \* diagwalk.py
  Equips,                              \* sdpraw.py
  Supported, Argv, Slice,              \* the F3 programs
  TxnLimit,                            \* the QMI client
  Internal, Setters,                   \* bindprobe.py
  MsgIds, Answers, Room, Width, Val    \* the sweeps

IsSequence(q) == Len(q) \in Nat /\ q = [i \in 1 .. Len(q) |-> q[i]]

ASSUME ConstantsAssumption ==
  /\ {MaxTimeouts, MaxErrors, MaxErrorsF3, MaxLost} \subseteq Nat
  /\ \A x \in Items \union Datas : IsSequence(x)
  /\ <<"none">> \notin Datas   \* None is no value to write
  /\ {ReadChunk, WriteChunk} \subseteq Nat
  /\ IsSequence(Found) /\ Found # <<>>
  /\ \A p \in DOMAIN Content : IsSequence(Content[p])
  /\ DOMAIN Tree \intersect DOMAIN Content = {} /\ <<>> \in DOMAIN Tree
  /\ \A p \in DOMAIN Tree :
       /\ IsSequence(Tree[p])
       /\ \A i \in DOMAIN Tree[p] : Append(p, Tree[p][i]) \in DOMAIN Tree \union DOMAIN Content
  /\ IsSequence(Equips) /\ \A i \in DOMAIN Equips : Equips[i] # "all_messages"
  /\ Argv \subseteq Seq(Nat \X Nat)
  /\ TxnLimit \in Nat \ {0}
  /\ IsSequence(Internal) /\ IsSequence(Setters)
  /\ \A j \in DOMAIN Setters :  \* as the two lists of bindprobe.py are
       Setters[j] # "0x90" /\ \A i \in DOMAIN Internal : Internal[i] # Setters[j]
  /\ IsSequence(MsgIds)
  /\ Answers \subseteq Seq([tag : Nat, size : Nat, value : Int])

\* efswrite.py: a read of four units, a write of two, an item of up to eight.
Mixed(n) == [i \in 1 .. n |-> IF i % 2 = 0 THEN "new" ELSE "old"]
MCItems == {[i \in 1 .. n |-> "old"] : n \in {1, 4, 5}} \union {Mixed(5), Mixed(8)}
MCDatas == {[i \in 1 .. n |-> "new"] : n \in {1, 4, 5, 8}} \union {Mixed(4)}

\* subdiff.py: two pairs, items of up to two blocks.
MCFound == <<"a", "b">>
MCContents == {<<"x", "x", "y">>, <<"x", "x", "x", "x">>, <<"x", "x", "x", "x", "y">>}

\* diagwalk.py: a directory within the root, with a file before, in and after
\* it, and one that is too large.
MCTree == (<<>> :> <<"f", "d", "g">>) @@ (<<"d">> :> <<"f", "big">>)
MCContent ==
  (<<"f">> :> <<"x", "y", "z">>) @@ (<<"g">> :> <<>>) @@
  (<<"d", "f">> :> <<"y">>) @@ (<<"d", "big">> :> <<"x", "x", "x", "x", "x">>)

\* sdpraw.py: four equipment ids.
MCEquips == <<"0", "1", "4", "11">>

\* The F3 programs: two ranges of subsystem ids, the first of them more than
\* one slice, and arguments that overlap, split or exceed them.
MCSupported == << <<0, 4>>, <<7, 7>> >>
MCArgv == {<< <<1, 2>> >>, << <<1, 2>>, <<2, 3>> >>, << <<7, 7>>, <<0, 4>> >>}

\* bindprobe.py: two failing ids, one of them the setter of the pair, and two
\* setters.
MCInternal == <<"0x8f", "0x90">>
MCSetters == <<"0x66", "0x89">>

\* The sweeps: answers with and without a result, with a TLV that the buffer
\* cuts behind it or before it, and with one that is too short.
MCIds == <<"0x90", "0x20", "0x22">>
Tlv(tag, size, value) == [tag |-> tag, size |-> size, value |-> value]
MCAnswers ==
  {<<Tlv(2, 4, 0)>>, <<Tlv(2, 4, 3)>>, <<Tlv(2, 4, 0), Tlv(16, 20, 9)>>,
   <<Tlv(16, 8, 9), Tlv(2, 4, 0)>>, <<Tlv(2, 4, 94), Tlv(1, 2, 7)>>, <<Tlv(2, 2, 0)>>}

VARIABLES
  running,  \* the program that runs
  requests, replies, timeouts,
  files, open, errors,
  pc,
  buf, off, fd,
  phase, data, original, rc,
  next, reading, sub0, same,
  shown,
  dirs, kids, seq, dirp, out,
  todo,
  at, status, raised, refused,
  ok,
  program,
  argv, reports, mask,
  txn, wait, lost,
  k, result, seen, during, verdict, meaning, width,
  setting,
  flipped, hits, accepts, binder, bound, answered,
  mode, err, answers, given

Write == INSTANCE EfsWrite WITH
  path <- "item"

Diff == INSTANCE EfsDiff WITH
  found <- Found, ReadChunk <- 2, MaxLen <- 4, MaxTimeouts <- 1, MaxErrors <- 2

Walk == INSTANCE EfsWalk WITH
  MaxRead <- 4, MaxLen <- 4, ReadChunk <- 5

Masks == INSTANCE LogMasks WITH
  equips <- Equips

F3 == INSTANCE MsgMasks WITH MaxErrors <- MaxErrorsF3

Setting == INSTANCE QmiSetting WITH
  Programs <- {"setprovvolte", "smsdomain"}

Bind == INSTANCE QmiProbe

Sweep == INSTANCE QmiSweep

channelVars == <<requests, replies, timeouts>>
efsVars == <<files, open, errors>>
pcVars == <<pc>>
bufVars == <<buf, off, fd>>
writeVars == <<phase, data, original, rc>>
diffVars == <<next, reading, sub0, same>>
shownVars == <<shown>>
walkVars == <<dirs, kids, seq, dirp, out>>
todoVars == <<todo>>
masksVars == <<at, status, raised, refused>>
okVars == <<ok>>
programVars == <<program>>
f3Vars == <<argv, reports, mask>>
clientVars == <<txn, wait, lost>>
triesVars == <<k, result, seen, during, verdict, meaning, width>>
valueVars == <<setting>>
bindVars == <<flipped, hits, accepts, binder, bound, answered>>
sweepVars == <<mode, err, answers, given>>
vars == <<running, channelVars, efsVars, pcVars, bufVars, writeVars, diffVars,
          shownVars, walkVars, todoVars, masksVars, okVars, programVars,
          f3Vars, clientVars, triesVars, valueVars, bindVars, sweepVars>>

\* What a program that does not run leaves unused.
Unused == "unused"
NoChannel == requests = Unused /\ replies = Unused /\ timeouts = Unused
NoEfs == files = Unused /\ open = Unused /\ errors = Unused
NoPc == pc = Unused
NoBuf == buf = Unused /\ off = Unused /\ fd = Unused
NoWrite ==
  /\ phase = Unused /\ data = Unused /\ original = Unused /\ rc = Unused
NoDiff ==
  /\ next = Unused /\ reading = Unused /\ sub0 = Unused /\ same = Unused
NoShown == shown = Unused
NoWalk ==
  /\ dirs = Unused /\ kids = Unused /\ seq = Unused /\ dirp = Unused
  /\ out = Unused
NoTodo == todo = Unused
NoMasks ==
  /\ at = Unused /\ status = Unused /\ raised = Unused /\ refused = Unused
NoOk == ok = Unused
NoProgram == program = Unused
NoF3 == argv = Unused /\ reports = Unused /\ mask = Unused
NoClient == txn = Unused /\ wait = Unused /\ lost = Unused
NoTries ==
  /\ k = Unused /\ result = Unused /\ seen = Unused /\ during = Unused
  /\ verdict = Unused /\ meaning = Unused /\ width = Unused
NoValue == setting = Unused
NoBind ==
  /\ flipped = Unused /\ hits = Unused /\ accepts = Unused /\ binder = Unused
  /\ bound = Unused /\ answered = Unused
NoSweep ==
  /\ mode = Unused /\ err = Unused /\ answers = Unused /\ given = Unused

Init ==
  \/ running = "efswrite" /\ Write!Init /\ NoDiff /\ NoShown /\ NoWalk
       /\ NoTodo /\ NoMasks /\ NoOk /\ NoProgram /\ NoF3 /\ NoClient /\ NoTries
       /\ NoValue /\ NoBind /\ NoSweep
  \/ running = "subdiff" /\ Diff!Init /\ NoWrite /\ NoWalk /\ NoTodo
       /\ NoMasks /\ NoOk /\ NoProgram /\ NoF3 /\ NoClient /\ NoTries /\ NoValue
       /\ NoBind /\ NoSweep
  \/ running = "diagwalk" /\ Walk!Init /\ NoWrite /\ NoDiff /\ NoShown
       /\ NoMasks /\ NoOk /\ NoProgram /\ NoF3 /\ NoClient /\ NoTries /\ NoValue
       /\ NoBind /\ NoSweep
  \/ running = "log_masks" /\ Masks!Init /\ NoBuf /\ NoWrite /\ NoDiff
       /\ NoShown /\ NoWalk /\ NoTodo /\ NoProgram /\ NoF3 /\ NoClient /\ NoTries
       /\ NoValue /\ NoBind /\ NoSweep
  \/ running = "message_masks" /\ F3!Init /\ NoBuf /\ NoWrite /\ NoDiff
       /\ NoShown /\ NoWalk /\ NoMasks /\ NoOk /\ NoClient /\ NoTries /\ NoValue
       /\ NoBind /\ NoSweep
  \/ running = "setting" /\ Setting!Init /\ NoEfs /\ NoBuf /\ NoWrite
       /\ NoDiff /\ NoShown /\ NoWalk /\ NoTodo /\ NoMasks /\ NoOk /\ NoF3
       /\ NoBind /\ NoSweep
  \/ running = "bindprobe" /\ Bind!Init /\ NoEfs /\ NoPc /\ NoBuf /\ NoWrite
       /\ NoDiff /\ NoShown /\ NoWalk /\ NoMasks /\ NoOk /\ NoProgram /\ NoF3
       /\ NoTries /\ NoValue /\ NoSweep
  \/ running = "sweep" /\ Sweep!Init /\ NoEfs /\ NoPc /\ NoBuf /\ NoWrite
       /\ NoDiff /\ NoWalk /\ NoMasks /\ NoProgram /\ NoF3 /\ NoTries /\ NoBind

Next ==
  \/ /\ running = "efswrite" /\ Write!Next
     /\ UNCHANGED <<running, diffVars, shownVars, walkVars, todoVars,
                    masksVars, okVars, programVars, f3Vars, clientVars,
                    triesVars, valueVars, bindVars, sweepVars>>
  \/ /\ running = "subdiff" /\ Diff!Next
     /\ UNCHANGED <<running, writeVars, walkVars, todoVars, masksVars, okVars,
                    programVars, f3Vars, clientVars, triesVars, valueVars,
                    bindVars, sweepVars>>
  \/ /\ running = "diagwalk" /\ Walk!Next
     /\ UNCHANGED <<running, writeVars, diffVars, shownVars, masksVars,
                    okVars, programVars, f3Vars, clientVars, triesVars,
                    valueVars, bindVars, sweepVars>>
  \/ /\ running = "log_masks" /\ Masks!Next
     /\ UNCHANGED <<running, bufVars, writeVars, diffVars, shownVars,
                    walkVars, todoVars, programVars, f3Vars, clientVars,
                    triesVars, valueVars, bindVars, sweepVars>>
  \/ /\ running = "message_masks" /\ F3!Next
     /\ UNCHANGED <<running, bufVars, writeVars, diffVars, shownVars,
                    walkVars, masksVars, okVars, clientVars, triesVars,
                    valueVars, bindVars, sweepVars>>
  \/ /\ running = "setting" /\ Setting!Next
     /\ UNCHANGED <<running, efsVars, bufVars, writeVars, diffVars, shownVars,
                    walkVars, todoVars, masksVars, okVars, f3Vars, bindVars,
                    sweepVars>>
  \/ /\ running = "bindprobe" /\ Bind!Next
     /\ UNCHANGED <<running, efsVars, pcVars, bufVars, writeVars, diffVars,
                    shownVars, walkVars, masksVars, okVars, programVars,
                    f3Vars, triesVars, valueVars, sweepVars>>
  \/ /\ running = "sweep" /\ Sweep!Next
     /\ UNCHANGED <<running, efsVars, pcVars, bufVars, writeVars, diffVars,
                    walkVars, masksVars, programVars, f3Vars, triesVars,
                    bindVars>>

Spec == Init /\ [][Next]_vars

-----------------------------------------------------------------------------
TypeOK ==
  /\ running = "efswrite" => Write!TypeOK
  /\ running = "subdiff" => Diff!TypeOK
  /\ running = "diagwalk" => Walk!TypeOK
  /\ running = "log_masks" => Masks!TypeOK
  /\ running = "message_masks" => F3!TypeOK
  /\ running = "setting" => Setting!TypeOK
  /\ running = "bindprobe" => Bind!TypeOK
  /\ running = "sweep" => Sweep!TypeOK

\* efswrite.py implements ItemUpdate: the item is changed in place, unit by
\* unit towards the new value, keeps its length whatever goes wrong, and
\* success means that it begins with the new value (lines 16-17).
UpdateSpec ==
  /\ running = "efswrite" => Write!Update!Init
  /\ [][running = "efswrite" => [Write!Update!Next]_(Write!Update!uvars)]_vars

\* Each program does exactly what it is for when nothing fails: efswrite.py
\* writes the value or refuses another length, subdiff.py leaves out exactly
\* the pairs that agree as far as they are read, diagwalk.py lists every
\* directory and file once, a subtree together and after its directory, small
\* files with their content, and diagpeek.py and qmi/f3probe.py listen with
\* every message mask raised.
UndisturbedIsExact ==
  /\ running = "efswrite" => Write!UndisturbedWrites
  /\ running = "subdiff" => Diff!FaultFreeIsExact
  /\ running = "diagwalk" => Walk!FaultFreeIsComplete
  /\ running = "message_masks" => F3!ListensToAll

\* As long as answers come in time, and whatever errors they carry: efswrite.py
\* closes what it opened, subdiff.py shows each item without a twin,
\* diagwalk.py lists nothing that is not there, sdpraw.py's report of the
\* raised masks is exact, diag/f3probe.py prints each range's own levels, "no
\* tag/width combination set it; provisioning unchanged"
\* (setprovvolte.py:79) is true, the first setter bindprobe.py reports is the
\* one that bound the client, when the selector that binds is asked, and a
\* sweep sorts every message by its result.
InTimeIsRight ==
  /\ running = "efswrite" => Write!DescriptorsClosed
  /\ running = "subdiff" => Diff!TwinlessIsShown
  /\ running = "diagwalk" => Walk!NothingIsInvented
  /\ running = "log_masks" => Masks!ReportIsExact
  /\ running = "message_masks" => F3!ReportsAreTheirOwn
  /\ running = "setting" => Setting!UnchangedWhenSaid
  /\ running = "bindprobe" => Bind!BinderIsFound
  /\ running = "sweep" => Sweep!SweepIsComplete

\* diag/f3probe.py: a probe that comes to its end leaves the message masks of
\* its ranges down once the modem has done what it was sent, and touches no
\* other.
MasksComeDown == running = "message_masks" => F3!MasksComeDown

\* Nothing is credited to a request but its own answer, however late others
\* come: not an accepted SET to a later tag, not a success of one selector to
\* the other, not a line to another message, and no part of a TLV that the
\* buffer cut.  What a GET shows is a value the setting had while it was asked,
\* so the read-back that decides cannot be an answer from before the write,
\* whether the write was answered in time or not.
AnswersAreTheirOwn ==
  /\ running = "setting" => Setting!ResultIsItsOwn /\ Setting!ReadIsCurrent
  /\ running = "bindprobe" => Bind!FlippedIsTrue
  /\ running = "sweep" => Sweep!ListedIsAnswered /\ Sweep!ReadBackIsSet

\* "it refuses to write a value of a different size, so nothing can be
\* truncated" (docs/rca/volte-registration-change-is-test-mode.md:2803)
RefusesOtherSize == running = "efswrite" => Write!RefusesOtherSize
=============================================================================
