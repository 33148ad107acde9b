------------------------------ MODULE MsgMasks ------------------------------
(***************************************************************************)
(* The programs that raise the modem's F3 runtime masks and listen:        *)
(* scripts/diag/f3probe.py (ranges of subsystem ids, or a list of the      *)
(* modem's ranges), diagpeek.py --raise (all of them, in slices) and       *)
(* scripts/qmi/f3probe.py (all at once).  All subcommands of 0x7D are      *)
(* waited for by that byte alone, so a late answer to one is taken for the *)
(* answer to the next.                                                     *)
(***************************************************************************)
EXTENDS DiagChannel, SequencesExt

CONSTANTS
  Supported,  \* the ranges <<lo, hi>> the modem has, in order
  Argv,       \* the lists of ranges f3probe.py may be given
  Slice       \* 200

VARIABLES
  program,  \* "f3probe", "list", "diagpeek" or "f3probe_all"
  argv,     \* its ranges
  pc,       \* "send", "wait", "listen", "lower", "lowered", "end" or "died"
  todo,     \* the requests left
  reports,  \* [asked, got] of each request answered or given up
  mask      \* in the modem: the level of every subsystem id

maskvars == <<program, argv, pc, todo, reports, mask>>
vars == <<chanvars, maskvars>>

Level == 31
Ids(r) == r[1] .. r[2]
AllIds == UNION {Ids(Supported[i]) : i \in DOMAIN Supported}
None == [sub |-> "none", lo |-> 0, hi |-> 0, err |-> 1, levels |-> {}]

Request(sub, r, level) == [cmd |-> "msg", sub |-> sub, lo |-> r[1], hi |-> r[2], level |-> level]

get_ranges == Request("ranges", <<0, 0>>, 0)
get_mask(r) == Request("get", r, 0)
set_mask(r, level) == Request("set", r, level)
set_all_msg_mask == Request("set_all", <<0, 0>>, Level)

\* range(lo, hi + 1, 200): the slices of one range.
Slices(r) ==
  [i \in 1 .. (r[2] - r[1]) \div Slice + 1 |->
     LET start == r[1] + (i - 1) * Slice
     IN  set_mask(<<start, Least(start + Slice - 1, r[2])>>, Level)]

\* Each range is asked for, set, and asked for again.
Probes(ranges) ==
  [i \in 1 .. 3 * Len(ranges) |->
     LET r == ranges[(i + 2) \div 3]
     IN  IF i % 3 = 2 THEN set_mask(r, Level) ELSE get_mask(r)]

Lowers(ranges) == [i \in DOMAIN ranges |-> set_mask(ranges[i], 0)]

Init ==
  /\ ChannelInit /\ files = <<>>
  /\ \/ program = "f3probe" /\ argv \in Argv /\ todo = Probes(argv)
     \/ program \in {"list", "diagpeek"} /\ argv = <<>> /\ todo = <<get_ranges>>
     \/ program = "f3probe_all" /\ argv = <<>> /\ todo = <<set_all_msg_mask>>
  /\ pc = "send" /\ reports = <<>>
  /\ mask = [s \in AllIds |-> 0]

Asks ==
  /\ pc \in {"send", "lower"} /\ todo # <<>>
  /\ Send(Head(todo))
  /\ pc' = IF pc = "send" THEN "wait" ELSE "lowered"
  /\ UNCHANGED <<replies, files, open, timeouts, errors, program, argv, todo, reports, mask>>

\* What diagpeek.py does with the ranges it is told; without an answer there
\* are none.
ThenRaises(r) ==
  IF program = "diagpeek" /\ r.sub = "ranges" /\ r.err = 0
    THEN FlattenSeq([i \in DOMAIN Supported |-> Slices(Supported[i])]) ELSE <<>>

\* The answer is kept for the report, whatever it answers.
Takes(r) ==
  /\ reports' = Append(reports, [asked |-> Head(todo), got |-> r])
  /\ todo' = Tail(todo) \o ThenRaises(r)
  /\ pc' = IF pc = "wait" THEN "send" ELSE "lower"

Answered ==
  /\ pc \in {"wait", "lowered"}
  /\ \/ \E r \in {replies[i] : i \in DOMAIN replies} :
          Receive("msg", r) /\ Takes(r) /\ UNCHANGED timeouts
     \/ NoAnswer /\ Takes(None)
  /\ UNCHANGED <<requests, files, open, errors, program, argv, mask>>

Raised ==
  /\ pc = "send" /\ todo = <<>>
  /\ pc' = IF program = "list" THEN "end" ELSE "listen"
  /\ UNCHANGED <<chanvars, program, argv, todo, reports, mask>>

\* Faulty variant: each range is set back to what was reported before.
ListenedRestores ==
  /\ pc = "listen"
  /\ IF program = "f3probe"
       THEN /\ pc' = "lower"
            /\ todo' = [i \in DOMAIN argv |->
                 set_mask(argv[i], Max({0} \union reports[3 * i - 2].got.levels))]
       ELSE pc' = "end" /\ UNCHANGED todo
  /\ UNCHANGED <<chanvars, program, argv, reports, mask>>

\* The time is over.  Only diag/f3probe.py lowers what it raised.
Listened ==
  /\ pc = "listen"
  /\ IF program = "f3probe"
       THEN pc' = "lower" /\ todo' = Lowers(argv)
       ELSE pc' = "end" /\ UNCHANGED todo
  /\ UNCHANGED <<chanvars, program, argv, reports, mask>>

Lowered ==
  /\ pc = "lower" /\ todo = <<>>
  /\ pc' = "end"
  /\ UNCHANGED <<chanvars, program, argv, todo, reports, mask>>

\* A tick of interruptible() outside the try, while frames are looked at, or
\* the one-shot alarm in the finally clause: the exception ends the program.
Ticked ==
  /\ pc \in {"wait", "lowered", "listen"}
  /\ pc' = "died"
  /\ UNCHANGED <<chanvars, program, argv, todo, reports, mask>>

\* The modem: a range that is not its own is refused.
Reply(q, err) ==
  [cmd |-> "msg", sub |-> q.sub, lo |-> q.lo, hi |-> q.hi, err |-> err,
   levels |-> IF q.sub = "get" /\ err = 0 THEN {mask[s] : s \in q.lo .. q.hi} ELSE {}]

ModemDoes ==
  /\ requests # <<>>
  /\ requests' = Tail(requests)
  /\ LET q == Head(requests)
         ids == IF q.sub = "set_all" THEN AllIds ELSE q.lo .. q.hi
     IN \/ /\ \/ q.sub \in {"ranges", "set_all"}
              \/ q.lo .. q.hi \subseteq AllIds
           /\ mask' = [s \in AllIds |-> IF q.sub \in {"set", "set_all"} /\ s \in ids THEN q.level ELSE mask[s]]
           /\ replies' = Append(replies, Reply(q, 0))
           /\ UNCHANGED errors
        \/ /\ errors < MaxErrors /\ errors' = errors + 1
           /\ replies' = Append(replies, Reply(q, 1))
           /\ UNCHANGED mask
  /\ UNCHANGED <<files, open, timeouts, program, argv, pc, todo, reports>>

Next == Asks \/ Answered \/ Raised \/ Listened \/ Lowered \/ Ticked \/ ModemDoes

Spec == Init /\ [][Next]_vars

-----------------------------------------------------------------------------
(* Properties.                                                             *)

TypeOK ==
  /\ program \in {"f3probe", "list", "diagpeek", "f3probe_all"}
  /\ pc \in {"send", "wait", "listen", "lower", "lowered", "end", "died"}
  /\ mask \in [AllIds -> {0, Level}]
  /\ argv \in Argv \union {<<>>}
  /\ \A i \in DOMAIN reports : reports[i].got.err \in {0, 1}
  /\ Len(requests) <= 1 + timeouts

Asked == UNION {Ids(argv[i]) : i \in DOMAIN argv}

\* A probe that comes to its end leaves the masks of its ranges down once the
\* modem has done what it was sent, however late its answers were and however
\* its ranges overlap, and never touches another.
MasksComeDown ==
  program = "f3probe" =>
    /\ \A s \in AllIds \ Asked : mask[s] = 0
    /\ pc = "end" /\ requests = <<>> /\ errors = 0 => \A s \in Asked : mask[s] = 0

\* The inductive invariant (MCModem_proofs) of diag/f3probe.py: what is sent
\* sets ranges of its own alone, and from the lowering on every id it asked
\* about is down, or a lowering of it is in the queue and nothing behind that
\* raises it, or is still to be sent.
Covers(q, s) == q.sub = "set" /\ s \in q.lo .. q.hi

IsOwn(q) == q.sub # "set_all" /\ (q.sub = "set" => q.lo .. q.hi \subseteq Asked)

NoneRaises(n, s) ==
  \A j \in n .. Len(requests) : Covers(requests[j], s) => requests[j].level = 0

Down(s) ==
  \/ s \in AllIds /\ mask[s] = 0 /\ NoneRaises(1, s)
  \/ \E i \in 1 .. Len(requests) : Covers(requests[i], s) /\ NoneRaises(i, s)

Unsent(s) == \E i \in DOMAIN todo : Covers(todo[i], s) /\ (pc = "lowered" => i > 1)

IInv ==
  program = "f3probe" =>
    /\ Queue(requests) /\ Queue(todo) /\ argv \in Argv /\ errors \in Nat
    /\ \A i \in DOMAIN requests : IsOwn(requests[i])
    /\ \A i \in DOMAIN todo : IsOwn(todo[i])
    /\ \A s \in AllIds \ Asked : mask[s] = 0
    /\ pc \in {"wait", "lowered"} => todo # <<>>
    /\ pc \in {"lower", "lowered", "end"} =>
         /\ \A i \in DOMAIN todo : todo[i].level = 0
         /\ errors = 0 => \A s \in Asked : Down(s) \/ Unsent(s)
    /\ pc = "end" => todo = <<>>

\* With every answer in time, each report is of the range it is printed for,
\* and "after" shows the level wherever the set was taken.
IsAfter(i) ==
  /\ program = "f3probe" /\ i > 1
  /\ reports[i].asked.sub = "get" /\ reports[i - 1].asked.sub = "set"

ReportsAreTheirOwn ==
  timeouts = 0 =>
    \A i \in DOMAIN reports :
      LET a == reports[i].asked
          g == reports[i].got
      IN  /\ <<g.sub, g.lo, g.hi>> = <<a.sub, a.lo, a.hi>>
          /\ IsAfter(i) /\ reports[i - 1].got.err = 0 /\ g.err = 0 =>
               g.levels = {Level : s \in a.lo .. a.hi}

\* The inductive invariant (MCModemInTime_proofs).  In time, what is asked is
\* the next of the probes, what is answered is that, and from the answer to a
\* set to the next probe its range has the level.
Raises(q) == \A s \in q.lo .. q.hi : s \in AllIds /\ mask[s] = Level

AnswerIs(q, r) ==
  /\ <<r.sub, r.lo, r.hi>> = <<q.sub, q.lo, q.hi>>
  /\ program = "f3probe" /\ r.err = 0 =>
       /\ q.sub = "set" /\ q.level = Level => Raises(q)
       /\ q.sub = "get" => r.levels = {mask[s] : s \in q.lo .. q.hi}

Pending ==
  /\ OnePending /\ todo # <<>>
  /\ requests # <<>> => Head(requests) = Head(todo)
  /\ replies # <<>> => AnswerIs(Head(todo), Head(replies))

OnCourse ==
  /\ Len(reports) + Len(todo) = 3 * Len(argv)
  /\ \A i \in DOMAIN reports : reports[i].asked = Probes(argv)[i]
  /\ \A i \in DOMAIN todo : todo[i] = Probes(argv)[Len(reports) + i]
  /\ \A i \in DOMAIN reports :
       i = Len(reports) /\ reports[i].asked.sub = "set" /\ reports[i].got.err = 0 =>
         Raises(reports[i].asked)

Timely ==
  /\ Queue(reports)
  /\ pc \in {"send", "listen", "lower", "end"} => Quiet
  /\ pc \in {"wait", "lowered"} => Pending
  /\ program = "f3probe" /\ pc \in {"send", "wait"} => OnCourse
  /\ program = "f3probe" /\ pc \in {"lower", "lowered"} =>
       \A i \in DOMAIN todo : todo[i].sub = "set"

InTime == timeouts \in Nat /\ ReportsAreTheirOwn /\ (timeouts = 0 => Timely)

\* Nothing failing, diagpeek.py and qmi/f3probe.py listen with every mask
\* raised: the slices leave no id out.
ListensToAll ==
  program \in {"diagpeek", "f3probe_all"} /\ pc = "listen" /\ timeouts = 0 /\ errors = 0
    => \A s \in AllIds : mask[s] = Level
=============================================================================
