------------------------------ MODULE QmiSweep ------------------------------
(***************************************************************************)
(* scripts/qmi/qmiims.py and wmsprobe.py as programs: a list of messages   *)
(* is sent without arguments and what each answers is shown ("get", and    *)
(* any message of another port), sorted by its result ("sweep", "wms"), or *)
(* a value is set and read back ("set").  An answer is a sequence of TLVs  *)
(* [tag, size, value]; the receive buffer keeps the first bytes of it.     *)
(***************************************************************************)
EXTENDS QmiClient, SequencesExt, FiniteSetsExt

CONSTANTS
  MsgIds,    \* the ids asked about, in order
  Answers,   \* the answers a message may give
  Room,      \* bytes of TLVs that fit in the 4096 of the receive buffer
  Width, Val \* what "set" is asked to write

VARIABLES
  mode, todo, \* the calls left: [as, msg, arg]
  ok, err,    \* as <<msg, number of TLVs>> and <<error, msg>>
  shown,      \* what was printed: <<msg, lines>>, or <<msg, Timeout>>
  answers,    \* in the modem: what each message answers
  setting,    \* and the value of the setting, or Refused when it takes none
  given       \* what was answered: <<msg, TLVs>>

sweepvars == <<mode, todo, ok, err, shown, answers, setting, given>>
vars == <<sweepvars, client>>

QMI_RESULT_TLV == 2
EnableGet == "0x90"
SetMsg == "0x70"
Back == "0x71"
Timeout == <<<<0, 0, -1>>>>  \* what is printed when nothing came
Refused == -1
None == -1

Result(code) == [tag |-> QMI_RESULT_TLV, size |-> 4, value |-> code]

-----------------------------------------------------------------------------
(* The TLVs of an answer.                                                  *)

\* The first TLV that is cut, in its header or in its value, ends the parse.
EndOf(tlvs, i) == FoldLeft(LAMBDA s, t : s + 3 + t.size, 0, SubSeq(tlvs, 1, i))

Complete(tlvs) == {i \in DOMAIN tlvs : \A j \in 1 .. i : EndOf(tlvs, j) <= Room}

parse_tlvs(tlvs) == SubSeq(tlvs, 1, Cardinality(Complete(tlvs)))

IsResult(t) == t.tag = QMI_RESULT_TLV /\ t.size >= 4

\* A sweep takes the last result; an answer without one is in no list.
ResultOf(tlvs) ==
  LET at == {i \in DOMAIN tlvs : IsResult(tlvs[i])}
  IN  IF at = {} THEN <<>> ELSE <<tlvs[Max(at)].value>>

\* show() and as_int(): the result of a result TLV, else the tag, the length
\* and the integer of 1, 2 or 4 bytes.
Lines(tlvs) ==
  [i \in DOMAIN tlvs |->
     IF IsResult(tlvs[i]) THEN <<QMI_RESULT_TLV, 0, tlvs[i].value>>
     ELSE <<tlvs[i].tag, tlvs[i].size, IF tlvs[i].size \in {1, 2, 4} THEN tlvs[i].value ELSE None>>]

-----------------------------------------------------------------------------
Calls(as, msgs) == [i \in DOMAIN msgs |-> [as |-> as, msg |-> msgs[i], arg |-> "none"]]

First == Calls("first", <<EnableGet>>)

\* to_bytes() raises when the value does not fit, before anything is sent.
Script(m) ==
  CASE m = "get" -> First \o Calls("show", MsgIds)
    [] m = "port" -> Calls("show", MsgIds)
    [] m = "sweep" -> First \o Calls("sort", MsgIds)
    [] m = "wms" -> Calls("sort", MsgIds)
    [] m = "set" -> First \o (IF Val >= 256 ^ Width THEN <<>>
                              ELSE <<[as |-> "show", msg |-> SetMsg, arg |-> Val],
                                     [as |-> "show", msg |-> Back, arg |-> "none"]>>)

Init ==
  /\ ClientInit
  /\ mode \in {"get", "port", "sweep", "wms", "set"}
  /\ todo = Script(mode)
  /\ ok = <<>> /\ err = {} /\ shown = <<>> /\ given = {}
  /\ answers \in [ToSet(MsgIds) \union {EnableGet} ->
                    IF mode = "set" THEN {<<Result(0)>>} ELSE Answers]
  /\ setting \in (IF mode = "set" THEN {0, Refused} ELSE {0})

Ask ==
  /\ todo # <<>>
  /\ Send(Head(todo).msg, Head(todo).arg)
  /\ UNCHANGED sweepvars

Discards == Discard /\ UNCHANGED sweepvars

Sorted(msg, tlvs) ==
  LET r == ResultOf(tlvs)
  IN  /\ ok' = IF r = <<0>> THEN Append(ok, <<msg, Len(tlvs)>>) ELSE ok
      /\ err' = err \union (IF r \in {<<>>, <<0>>} THEN {} ELSE {<<r[1], msg>>})
      /\ UNCHANGED shown

Got ==
  /\ todo # <<>> /\ Returns
  /\ \A tlvs \in {parse_tlvs(Head(replies).body)} :
       IF Head(todo).as = "sort" THEN Sorted(Head(todo).msg, tlvs)
       ELSE shown' = Append(shown, <<Head(todo).msg, Lines(tlvs)>>) /\ UNCHANGED <<ok, err>>
  /\ todo' = Tail(todo)
  /\ UNCHANGED <<mode, answers, setting, given>>

\* Without an answer to its first question the program ends.
Missed ==
  /\ todo # <<>> /\ TimesOut
  /\ todo' = IF Head(todo).as = "first" THEN <<>> ELSE Tail(todo)
  /\ shown' = IF Head(todo).as = "sort" THEN shown ELSE Append(shown, <<Head(todo).msg, Timeout>>)
  /\ UNCHANGED <<mode, ok, err, answers, setting, given>>

\* The modem: a message has its answer; the setting is set unless refused.
Modem ==
  /\ requests # <<>>
  /\ LET q == Head(requests)
         tlvs == CASE mode = "set" /\ q.msg = SetMsg -> <<Result(IF setting = Refused THEN 94 ELSE 0)>>
                   [] mode = "set" /\ q.msg = Back -> <<Result(0)>> \o (IF setting = Refused THEN <<>>
                        ELSE <<[tag |-> 16, size |-> Width, value |-> setting]>>)
                   [] OTHER -> answers[q.msg]
     IN  /\ ModemAnswers(tlvs)
         /\ given' = given \union {<<q.msg, tlvs>>}
         /\ setting' = IF mode = "set" /\ q.msg = SetMsg /\ setting # Refused THEN q.arg ELSE setting
  /\ UNCHANGED <<mode, todo, ok, err, shown, answers>>

Next ==
  \/ Ask
  \/ Discards
  \/ Got
  \/ Missed
  \/ Modem

Spec == Init /\ [][Next]_vars

-----------------------------------------------------------------------------
TypeOK ==
  /\ ClientTypeOK
  /\ mode \in {"get", "port", "sweep", "wms", "set"}
  /\ Len(todo) <= Len(MsgIds) + 1
  /\ \A i \in DOMAIN ok : ok[i][1] \in ToSet(MsgIds)
  /\ \A e \in err : e[1] # 0 /\ e[2] \in ToSet(MsgIds)
  /\ Len(shown) <= Len(MsgIds) + 1

\* What is listed or printed of a message was in an answer to it, whatever
\* came late: a message listed as implemented has answered with result 0, and
\* a line printed is of a TLV that was sent.
HasResult(tlvs, code) == \E t \in ToSet(tlvs) : IsResult(t) /\ t.value = code

ListedIsAnswered ==
  /\ \A i \in DOMAIN ok : \E g \in given : g[1] = ok[i][1] /\ HasResult(g[2], 0)
  /\ \A e \in err : \E g \in given : g[1] = e[2] /\ HasResult(g[2], e[1])
  /\ \A i \in DOMAIN shown : shown[i][2] # Timeout =>
       \E g \in given : g[1] = shown[i][1] /\ IsPrefix(shown[i][2], Lines(g[2]))

\* What is read back after a value was set, in time or not, is that value,
\* when the modem takes it and as_int() makes a number of its bytes.
ReadBackIsSet ==
  mode = "set" /\ setting # Refused /\ Width \in {1, 2, 4} =>
    \A i \in DOMAIN shown : shown[i][1] = Back /\ shown[i][2] # Timeout =>
      \A j \in DOMAIN shown[i][2] : shown[i][2][j][1] = 16 => shown[i][2][j][3] = Val

\* The inductive invariant (MCModem_proofs).  The pending call is at the head
\* of the list, and an answer with its id is one the modem gave to it.
AnswersTheCall(r) == r.txn = wait.txn => <<wait.msg, r.body>> \in given

\* "set": the read-back is asked after the write, so the modem handles it
\* after the write.
Taken == setting \in {Val, Refused}
SetAhead(n) == \E i \in 1 .. n : requests[i].msg = SetMsg

WriteComesFirst ==
  mode = "set" =>
    /\ \A i \in DOMAIN todo :
         /\ todo[i].msg = SetMsg => todo[i].arg = Val
         /\ todo[i].msg = Back => i = 1 \/ todo[i - 1].msg = SetMsg
    /\ \A i \in DOMAIN requests :
         /\ requests[i].msg = SetMsg => requests[i].arg = Val
         /\ requests[i].msg = Back => Taken \/ SetAhead(i - 1)
    /\ \/ wait # NoCall /\ wait.msg = SetMsg
       \/ todo # <<>> /\ Head(todo).msg = Back
       => Taken \/ SetAhead(Len(requests))
    /\ \A g \in given : g[1] = Back /\ setting # Refused =>
         /\ Len(g[2]) = 2 /\ g[2][1] = Result(0)
         /\ g[2][2] = [tag |-> 16, size |-> Width, value |-> Val]

Known(m) ==
  ToSet(MsgIds) \union {EnableGet} \union (IF m = "set" THEN {SetMsg, Back} ELSE {})

IInv ==
  /\ IdsAreFresh /\ Queue(todo) /\ Queue(ok) /\ Queue(shown)
  /\ \A i \in DOMAIN shown : Queue(shown[i][2])
  /\ \A i \in DOMAIN todo : todo[i].msg \in Known(mode)
  /\ \A i \in DOMAIN requests : requests[i].msg \in Known(mode)
  /\ answers \in [ToSet(MsgIds) \union {EnableGet} -> Answers \union {<<Result(0)>>}]
  /\ \A g \in given : Queue(g[2])
  /\ \A i \in DOMAIN replies : AnswersTheCall(replies[i])
  /\ wait # NoCall => todo # <<>> /\ wait.msg = Head(todo).msg
  /\ WriteComesFirst
  /\ ListedIsAnswered

\* The results of a message that come whole, and the last of them.
Fits(m) ==
  {k \in DOMAIN answers[m] : /\ IsResult(answers[m][k])
                             /\ \A j \in 1 .. k : EndOf(answers[m], j) <= Room}
Code(m) == answers[m][Max(Fits(m))].value
Listed == {ok[j][1] : j \in DOMAIN ok}

\* With every answer in time, a sweep sorts every message whose result fits in
\* the buffer, and by the last result that does.
SweepIsComplete ==
  mode \in {"sweep", "wms"} /\ todo = <<>> /\ wait = NoCall /\ Undisturbed =>
    \A i \in DOMAIN MsgIds :
      LET m == MsgIds[i]
      IN  IF Fits(m) = {} THEN m \notin Listed \union {e[2] : e \in err}
          ELSE IF Code(m) = 0 THEN m \in Listed ELSE <<Code(m), m>> \in err

\* The inductive invariant of SweepIsComplete (MCModemInTime_proofs): the
\* messages asked so far are sorted, and nothing is sorted otherwise.
Done == Len(MsgIds) - Len(todo)

InTime ==
  /\ InStep
  /\ mode \in {"sweep", "wms"} /\ Undisturbed =>
       /\ Done >= -1
       /\ \A j \in DOMAIN todo :
            IF Done + j = 0 THEN todo[j].as = "first"
            ELSE todo[j].as = "sort" /\ todo[j].msg = MsgIds[Done + j]
       /\ IsAnswered => Head(replies).body = answers[wait.msg]
       /\ \A m \in Listed : Fits(m) # {} /\ Code(m) = 0
       /\ \A e \in err : Fits(e[2]) # {} /\ e[1] = Code(e[2])
       /\ \A i \in 1 .. Done : Fits(MsgIds[i]) # {} =>
            IF Code(MsgIds[i]) = 0 THEN MsgIds[i] \in Listed
            ELSE <<Code(MsgIds[i]), MsgIds[i]>> \in err
=============================================================================
