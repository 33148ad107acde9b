--------------------------- MODULE MCModem_proofs ---------------------------
(***************************************************************************)
(* Proofs about the programs that ask the modem, for every item, value,    *)
(* list of messages, range of subsystem ids and number of late, lost and   *)
(* refused answers.                                                        *)
(***************************************************************************)
EXTENDS MCModem, SequenceTheorems, FiniteSetTheorems, WellFoundedInduction, TLAPS

Client == INSTANCE QmiClient

-----------------------------------------------------------------------------
(* Sequences of whatever elements.                                         *)

LEMMA QueueIsSeq ==
  ASSUME NEW s, Client!Queue(s), NEW S, \A i \in 1 .. Len(s) : s[i] \in S
  PROVE  s \in Seq(S)
<1>1. s \in [1 .. Len(s) -> S] /\ Len(s) \in Nat BY DEF Client!Queue
<1> QED BY ONLY <1>1, SeqDef

LEMMA SeqIsQueue ==
  ASSUME NEW S, NEW s \in Seq(S)
  PROVE  Client!Queue(s) /\ DOMAIN s = 1 .. Len(s)
BY DEF Client!Queue

LEMMA QueueDomain ==
  ASSUME NEW s, Client!Queue(s)
  PROVE  DOMAIN s = 1 .. Len(s) /\ Len(s) \in Nat
BY DEF Client!Queue

LEMMA QueueAppend ==
  ASSUME NEW s, Client!Queue(s), NEW e
  PROVE  /\ Client!Queue(Append(s, e)) /\ Len(Append(s, e)) = Len(s) + 1
         /\ \A i \in 1 .. Len(s) : Append(s, e)[i] = s[i]
         /\ Append(s, e)[Len(s) + 1] = e
<1> DEFINE S == {s[i] : i \in 1 .. Len(s)} \union {e}
<1>1. s \in Seq(S) /\ e \in S BY QueueIsSeq
<1> HIDE DEF S
<1>2. Append(s, e) \in Seq(S) /\ Len(s) \in Nat BY <1>1
<1>3. Client!Queue(Append(s, e)) BY <1>2, SeqIsQueue
<1> QED BY <1>1, <1>2, <1>3

LEMMA QueueTail ==
  ASSUME NEW s, Client!Queue(s), s # <<>>
  PROVE  /\ Client!Queue(Tail(s)) /\ Len(Tail(s)) = Len(s) - 1 /\ Len(s) > 0
         /\ Head(s) = s[1] /\ 1 \in 1 .. Len(s)
         /\ \A i \in 1 .. Len(Tail(s)) : i + 1 \in 1 .. Len(s) /\ Tail(s)[i] = s[i + 1]
<1> DEFINE S == {s[i] : i \in 1 .. Len(s)}
<1>1. s \in Seq(S) BY QueueIsSeq
<1> HIDE DEF S
<1>2. Tail(s) \in Seq(S) /\ Len(s) \in Nat /\ Len(s) > 0 /\ Len(Tail(s)) = Len(s) - 1 BY <1>1
<1>3. Client!Queue(Tail(s)) BY <1>2, SeqIsQueue
<1>4. \A i \in 1 .. Len(Tail(s)) : i + 1 \in 1 .. Len(s) /\ Tail(s)[i] = s[i + 1] BY <1>1, <1>2
<1> QED BY <1>1, <1>2, <1>3, <1>4

-----------------------------------------------------------------------------
(* Client!: class Imss, whatever its program sends.                        *)

\* A new call: its id is larger than all before.
LEMMA SendKeeps ==
  ASSUME Client!IdsAreFresh, NEW m, NEW a, Client!Send(m, a), ConstantsAssumption
  PROVE  /\ Client!IdsAreFresh'
         /\ wait = Client!NoCall /\ wait' = [txn |-> txn, msg |-> m, arg |-> a] /\ wait' # Client!NoCall
         /\ replies' = replies /\ \A i \in DOMAIN replies : replies[i].txn # wait'.txn
         /\ DOMAIN requests' = 1 .. Len(requests) + 1 /\ DOMAIN requests = 1 .. Len(requests)
         /\ \A i \in 1 .. Len(requests) : requests'[i] = requests[i]
         /\ Len(requests') = Len(requests) + 1 /\ requests'[Len(requests) + 1] = wait'
         /\ Len(requests) \in Nat
<1> USE DEF Client!IdsAreFresh, Client!ClientTypeOK
<1>1. /\ wait = Client!NoCall /\ wait' = [txn |-> txn, msg |-> m, arg |-> a]
      /\ txn' = txn + 1 /\ txn < TxnLimit /\ replies' = replies /\ requests' = Append(requests, wait')
  BY DEF Client!Send
<1>2. TxnLimit \in Nat /\ txn \in Nat \ {0} /\ wait'.txn = txn BY <1>1 DEF ConstantsAssumption
<1>3. /\ Client!Queue(requests') /\ Len(requests') = Len(requests) + 1
      /\ \A i \in 1 .. Len(requests) : requests'[i] = requests[i]
      /\ requests'[Len(requests) + 1] = wait'
  BY <1>1, QueueAppend
<1>4. /\ DOMAIN requests = 1 .. Len(requests) /\ DOMAIN replies = 1 .. Len(replies)
      /\ DOMAIN requests' = 1 .. Len(requests') /\ Len(requests) \in Nat
  BY <1>3, QueueDomain
<1>5. wait' # Client!NoCall BY <1>2 DEF Client!NoCall
<1>6. \A i \in DOMAIN requests' :
        requests'[i].txn \in 1 .. txn' - 1 /\ (requests'[i].txn = wait'.txn => requests'[i] = wait')
  <2> SUFFICES ASSUME NEW i \in DOMAIN requests'
               PROVE  requests'[i].txn \in 1 .. txn' - 1 /\ (requests'[i].txn = wait'.txn => requests'[i] = wait')
    OBVIOUS
  <2>1. CASE i \in 1 .. Len(requests) BY <1>1, <1>2, <1>3, <1>4, <2>1
  <2>2. CASE i = Len(requests) + 1 BY <1>1, <1>2, <1>3, <2>2
  <2> QED BY <1>3, <1>4, <2>1, <2>2
<1>7. \A i \in DOMAIN replies' : replies'[i].txn \in 1 .. txn' - 1 BY <1>1, <1>2
<1>8. Client!IdsAreFresh'
  <2>1. txn' \in 1 .. TxnLimit /\ wait'.txn \in 0 .. txn' - 1 /\ wait'.txn # 0 BY <1>1, <1>2
  <2>2. Client!Queue(requests') /\ Client!Queue(replies') BY <1>1, <1>3
  <2> QED BY <1>6, <1>7, <2>1, <2>2
<1>9. \A i \in DOMAIN replies : replies[i].txn # wait'.txn BY <1>2
<1> QED BY <1>1, <1>3, <1>4, <1>5, <1>8, <1>9

\* The end of a call, answered or not: nothing under way has the id 0.
LEMMA CallEnds ==
  ASSUME Client!IdsAreFresh, wait' = Client!NoCall, UNCHANGED <<txn, requests>>,
         replies' = replies \/ (replies # <<>> /\ replies' = Tail(replies))
  PROVE  /\ Client!IdsAreFresh'
         /\ \A i \in DOMAIN replies' : replies'[i].txn # wait'.txn
<1> USE DEF Client!IdsAreFresh, Client!ClientTypeOK
<1>1. Client!Queue(replies') /\ \A i \in DOMAIN replies' : \E j \in DOMAIN replies : replies'[i] = replies[j]
  <2>1. CASE replies' = replies BY <2>1
  <2>2. CASE replies # <<>> /\ replies' = Tail(replies) BY <2>2, QueueTail, QueueDomain
  <2> QED BY <2>1, <2>2
<1>2. wait'.txn = 0 BY DEF Client!NoCall
<1>3. \A i \in DOMAIN replies' : replies'[i].txn \in 1 .. txn - 1 BY <1>1
<1> QED BY <1>1, <1>2, <1>3

\* A reply of another call is thrown away.
LEMMA DiscardKeeps ==
  ASSUME Client!IdsAreFresh, Client!Discard
  PROVE  /\ Client!IdsAreFresh' /\ UNCHANGED <<txn, wait, requests>>
         /\ \A i \in DOMAIN replies' : \E j \in DOMAIN replies : replies'[i] = replies[j]
<1> USE DEF Client!IdsAreFresh, Client!ClientTypeOK
<1>1. replies # <<>> /\ replies' = Tail(replies) /\ UNCHANGED <<txn, wait, requests>> BY DEF Client!Discard
<1>2. Client!Queue(replies') /\ \A i \in DOMAIN replies' : \E j \in DOMAIN replies : replies'[i] = replies[j]
  BY <1>1, QueueTail, QueueDomain
<1> QED BY <1>1, <1>2

\* The answer that ends a call is that call's own.
LEMMA ReturnsOwn ==
  ASSUME Client!IdsAreFresh, Client!Returns
  PROVE  /\ wait # Client!NoCall /\ wait' = Client!NoCall /\ UNCHANGED <<txn, requests>>
         /\ replies # <<>> /\ replies' = Tail(replies)
         /\ Head(replies) = replies[1] /\ 1 \in DOMAIN replies
         /\ replies[1].msg = wait.msg /\ replies[1].txn = wait.txn
BY QueueTail, QueueDomain DEF Client!IdsAreFresh, Client!Returns, Client!Matches

\* The modem takes a request and answers with its ids, or its answer is lost.
LEMMA AnswerKeeps ==
  ASSUME Client!IdsAreFresh, NEW body, Client!ModemAnswers(body)
  PROVE  /\ Client!IdsAreFresh' /\ UNCHANGED <<txn, wait>>
         /\ requests # <<>> /\ Head(requests) = requests[1] /\ 1 \in DOMAIN requests
         /\ requests[1].txn = wait.txn => requests[1] = wait
         /\ DOMAIN requests' = 1 .. Len(requests) - 1 /\ DOMAIN requests = 1 .. Len(requests)
         /\ Len(requests') = Len(requests) - 1 /\ Len(requests) \in Nat
         /\ \A i \in DOMAIN requests' : requests'[i] = requests[i + 1]
         /\ \A i \in DOMAIN replies' :
              \/ \E j \in DOMAIN replies : replies'[i] = replies[j]
              \/ replies'[i] = [txn |-> requests[1].txn, msg |-> requests[1].msg, body |-> body]
<1> DEFINE r == [txn |-> requests[1].txn, msg |-> requests[1].msg, body |-> body]
<1> USE DEF Client!IdsAreFresh, Client!ClientTypeOK
<1>1. /\ requests # <<>> /\ requests' = Tail(requests) /\ UNCHANGED <<txn, wait>>
      /\ replies' = replies \/ replies' = Append(replies, [txn |-> Head(requests).txn, msg |-> Head(requests).msg, body |-> body])
  BY DEF Client!ModemAnswers
<1>2. /\ Head(requests) = requests[1] /\ 1 \in DOMAIN requests /\ DOMAIN requests = 1 .. Len(requests)
      /\ Client!Queue(requests') /\ Len(requests') = Len(requests) - 1 /\ Len(requests) \in Nat
      /\ DOMAIN requests' = 1 .. Len(requests) - 1
      /\ \A i \in DOMAIN requests' : i + 1 \in DOMAIN requests /\ requests'[i] = requests[i + 1]
  BY <1>1, QueueTail, QueueDomain
<1>3. replies' = replies \/ replies' = Append(replies, r) BY <1>1, <1>2
<1>4. r.txn \in 1 .. txn - 1 BY <1>2
<1> HIDE DEF r
<1>5. /\ Client!Queue(replies')
      /\ \A i \in DOMAIN replies' : (\E j \in DOMAIN replies : replies'[i] = replies[j]) \/ replies'[i] = r
  <2>1. CASE replies' = replies BY <2>1
  <2>2. CASE replies' = Append(replies, r)
    <3>1. /\ Client!Queue(replies') /\ DOMAIN replies' = 1 .. Len(replies) + 1
          /\ DOMAIN replies = 1 .. Len(replies) /\ Len(replies) \in Nat
          /\ \A i \in 1 .. Len(replies) : replies'[i] = replies[i]
          /\ replies'[Len(replies) + 1] = r
      BY <2>2, QueueAppend, QueueDomain
    <3> QED BY <3>1
  <2> QED BY <1>3, <2>1, <2>2
<1>6. \A i \in DOMAIN requests' :
        requests'[i].txn \in 1 .. txn - 1 /\ (requests'[i].txn = wait.txn => requests'[i] = wait)
  BY <1>2
<1>7. \A i \in DOMAIN replies' : replies'[i].txn \in 1 .. txn - 1 BY <1>4, <1>5
<1>8. Client!IdsAreFresh' BY <1>1, <1>2, <1>5, <1>6, <1>7
<1> QED BY <1>1, <1>2, <1>5, <1>8 DEF r

-----------------------------------------------------------------------------
(* Setting!: setprovvolte.py and smsdomain.py.                             *)

LEMMA SettingStarts == ASSUME Setting!Init, ConstantsAssumption PROVE Setting!IInv
<1>1. Setting!IdsAreFresh
  BY DEF Setting!Init, Setting!ClientInit, Setting!IdsAreFresh, Setting!ClientTypeOK,
         Setting!Queue, Setting!NoCall, ConstantsAssumption
<1> QED
  BY <1>1 DEF Setting!Init, Setting!ClientInit, Setting!IInv, Setting!CallIsAwaited,
              Setting!ResultIsItsOwn, Setting!ReadIsCurrent, Setting!NoCall

\* Only an accepted set leads to "after", and only from "set".
LEMMA SettingShown ==
  ASSUME Setting!IInv, NEW v, Setting!Shown(v), pc \in {"before", "after", "final"}
  PROVE  pc' \in {"set", "final", "end"}
<1>1. program \in {"setprovvolte", "smsdomain"} BY DEF Setting!IInv
<1>2. Setting!GoOn => pc' \in {"set", "final"} BY DEF Setting!GoOn
<1>3. CASE pc = "before" BY <1>1, <1>3 DEF Setting!Shown
<1>4. CASE pc = "after" BY <1>2, <1>4 DEF Setting!Shown
<1>5. CASE pc = "final" BY <1>5 DEF Setting!Shown
<1> QED BY <1>3, <1>4, <1>5

\* Every step keeps the invariant.
LEMMA SettingSteps ==
  ASSUME Setting!IInv, [Setting!Next]_(Setting!vars), ConstantsAssumption PROVE Setting!IInv'
<1> DEFINE All == \A i \in DOMAIN replies : Setting!AnswersTheCall(replies[i])
<1>0. Client!IdsAreFresh /\ (Client!IdsAreFresh' => Setting!IdsAreFresh') /\ All
      /\ DOMAIN replies = 1 .. Len(replies)
      /\ (Client!IdsAreFresh' => DOMAIN replies' = 1 .. Len(replies'))
  BY QueueDomain
     DEF Setting!IInv, Setting!IdsAreFresh, Client!IdsAreFresh, Setting!ClientTypeOK, Client!ClientTypeOK,
         Setting!Queue, Client!Queue, Setting!NoCall, Client!NoCall
<1> USE DEF Setting!settingvars
<1>1. CASE Setting!Get
  <2>1. Client!Send("get", 0) BY <1>1 DEF Setting!Get, Setting!Send, Client!Send, Setting!NoCall, Client!NoCall
  <2>2. /\ Client!IdsAreFresh' /\ wait' = [txn |-> txn, msg |-> "get", arg |-> 0]
        /\ \A i \in DOMAIN replies : replies[i].txn # wait'.txn
        /\ replies' = replies
    BY <1>0, <2>1, SendKeeps
  <2>3. All' BY <2>2 DEF Setting!AnswersTheCall
  <2> QED
    BY <1>0, <1>1, <2>2, <2>3 DEF Setting!Get, Setting!IInv, Setting!CallIsAwaited,
                                  Setting!ResultIsItsOwn, Setting!ReadIsCurrent
<1>2. CASE Setting!Set
  <2>1. Client!Send("set", k) BY <1>2 DEF Setting!Set, Setting!Send, Client!Send, Setting!NoCall, Client!NoCall
  <2>2. /\ Client!IdsAreFresh' /\ wait' = [txn |-> txn, msg |-> "set", arg |-> k]
        /\ \A i \in DOMAIN replies : replies[i].txn # wait'.txn
        /\ replies' = replies
    BY <1>0, <2>1, SendKeeps
  <2>3. All' BY <2>2 DEF Setting!AnswersTheCall
  <2> QED
    BY <1>0, <1>2, <2>2, <2>3 DEF Setting!Set, Setting!IInv, Setting!CallIsAwaited,
                                  Setting!ResultIsItsOwn, Setting!ReadIsCurrent
<1>3. ASSUME Setting!GotGet \/ Setting!GotSet
      PROVE  /\ wait # Setting!NoCall
             /\ Client!IdsAreFresh' /\ All' /\ wait' = Client!NoCall
             /\ Setting!Returns => /\ replies[1] = Head(replies) /\ Setting!AnswersTheCall(replies[1])
                                   /\ replies[1].msg = wait.msg /\ replies[1].txn = wait.txn
  <2>1. Setting!Returns \/ Setting!TimesOut BY <1>3 DEF Setting!GotGet, Setting!GotSet
  <2>2. Setting!Returns => Client!Returns
    BY DEF Setting!Returns, Client!Returns, Setting!Matches, Client!Matches, Setting!NoCall, Client!NoCall
  <2>3. /\ wait # Client!NoCall /\ wait' = Client!NoCall /\ UNCHANGED <<txn, requests>>
        /\ replies' = replies \/ (replies # <<>> /\ replies' = Tail(replies))
    BY <1>0, <2>1, <2>2, ReturnsOwn DEF Setting!TimesOut, Setting!NoCall, Client!NoCall
  <2>4. Client!IdsAreFresh' /\ \A i \in DOMAIN replies' : replies'[i].txn # wait'.txn
    BY <1>0, <2>3, CallEnds
  <2>5. All' BY <2>4 DEF Setting!AnswersTheCall
  <2>6. Setting!Returns => /\ replies[1] = Head(replies) /\ 1 \in DOMAIN replies
                           /\ replies[1].msg = wait.msg /\ replies[1].txn = wait.txn
    BY <1>0, <2>2, ReturnsOwn
  <2> QED BY <1>0, <2>3, <2>4, <2>5, <2>6 DEF Setting!NoCall, Client!NoCall
<1>4. CASE Setting!GotGet
  <2>1. pc \in {"before", "after", "final"} /\ pc' \in {"set", "final", "end"}
    BY <1>4, SettingShown DEF Setting!GotGet
  <2>2. wait.msg = "get" BY <1>3, <1>4, <2>1 DEF Setting!IInv, Setting!CallIsAwaited
  <2>3. Setting!ReadIsCurrent'
    BY <1>3, <1>4, <2>2 DEF Setting!GotGet, Setting!ReadIsCurrent, Setting!AnswersTheCall
  <2> QED
    BY <1>0, <1>3, <1>4, <2>1, <2>3 DEF Setting!GotGet, Setting!IInv, Setting!CallIsAwaited,
                                        Setting!ResultIsItsOwn, Setting!NoCall, Client!NoCall
<1>5. CASE Setting!GotSet
  <2>1. Setting!GoOn => pc' \in {"set", "final"} BY DEF Setting!GoOn
  <2>2. wait.msg = "set" /\ wait.arg = k BY <1>3, <1>5 DEF Setting!GotSet, Setting!IInv, Setting!CallIsAwaited
  <2>3. pc' = "after" => Setting!Returns /\ result' = Head(replies).body.result /\ k' = k
    BY <1>5, <2>1 DEF Setting!GotSet
  <2>4. Setting!ResultIsItsOwn'
    BY <1>3, <1>5, <2>2, <2>3 DEF Setting!ResultIsItsOwn, Setting!AnswersTheCall
  <2> QED
    BY <1>0, <1>3, <1>5, <2>4 DEF Setting!GotSet, Setting!IInv, Setting!CallIsAwaited,
                                  Setting!ReadIsCurrent, Setting!NoCall, Client!NoCall
<1>6. CASE Setting!Discards
  <2>1. Client!Discard
    BY <1>6 DEF Setting!Discards, Setting!Discard, Client!Discard, Setting!Matches, Client!Matches,
                Setting!NoCall, Client!NoCall
  <2>2. /\ Client!IdsAreFresh' /\ UNCHANGED <<txn, wait, requests>>
        /\ \A i \in DOMAIN replies' : \E j \in DOMAIN replies : replies'[i] = replies[j]
    BY <1>0, <2>1, DiscardKeeps
  <2>3. UNCHANGED Setting!settingvars BY <1>6 DEF Setting!Discards
  <2>4. All' BY <1>0, <2>2, <2>3 DEF Setting!AnswersTheCall
  <2> QED
    BY <1>0, <2>2, <2>3, <2>4 DEF Setting!IInv, Setting!CallIsAwaited,
                                  Setting!ResultIsItsOwn, Setting!ReadIsCurrent
<1>7. CASE Setting!ModemGets
  <2> DEFINE b == [value |-> setting]
  <2>1. Client!ModemAnswers(b) /\ Head(requests).msg = "get" BY <1>7 DEF Setting!ModemGets, Setting!ModemAnswers, Client!ModemAnswers
  <2> HIDE DEF b
  <2>2. /\ Client!IdsAreFresh' /\ UNCHANGED <<txn, wait>> /\ requests[1].msg = "get"
        /\ \A i \in DOMAIN replies' :
             \/ \E j \in DOMAIN replies : replies'[i] = replies[j]
             \/ replies'[i] = [txn |-> requests[1].txn, msg |-> requests[1].msg, body |-> b]
    BY <1>0, <2>1, AnswerKeeps
  <2>3. UNCHANGED Setting!settingvars BY <1>7 DEF Setting!ModemGets
  <2>4. b.value \in during BY DEF b, Setting!IInv
  <2>5. All' BY <1>0, <2>2, <2>3, <2>4 DEF Setting!AnswersTheCall
  <2> QED
    BY <1>0, <2>2, <2>3, <2>5 DEF Setting!IInv, Setting!CallIsAwaited,
                                  Setting!ResultIsItsOwn, Setting!ReadIsCurrent
<1>8. CASE Setting!ModemSets
  <2> DEFINE a == Setting!Attempts(program)[Head(requests).arg]
             does == IF a[2] = width THEN meaning[a[1]] ELSE "refused"
             b == [result |-> [of |-> Head(requests).arg, ok |-> does # "refused"]]
  <2>1. Client!ModemAnswers(b) /\ Head(requests).msg = "set"
    BY <1>8 DEF Setting!ModemSets, Setting!ModemAnswers, Client!ModemAnswers
  <2>2. b.result.of = Head(requests).arg OBVIOUS
  <2> HIDE DEF b
  <2>3. /\ Client!IdsAreFresh' /\ UNCHANGED <<txn, wait>> /\ Head(requests) = requests[1]
        /\ requests[1].txn = wait.txn => requests[1] = wait
        /\ \A i \in DOMAIN replies' :
             \/ \E j \in DOMAIN replies : replies'[i] = replies[j]
             \/ replies'[i] = [txn |-> requests[1].txn, msg |-> requests[1].msg, body |-> b]
    BY <1>0, <2>1, AnswerKeeps
  <2>4. /\ UNCHANGED <<program, pc, k, result, seen, verdict>>
        /\ setting' \in during' /\ during \subseteq during'
    BY <1>8 DEF Setting!ModemSets
  <2>5. All' BY <1>0, <2>1, <2>2, <2>3, <2>4 DEF Setting!AnswersTheCall
  <2> QED
    BY <1>0, <2>3, <2>4, <2>5 DEF Setting!IInv, Setting!CallIsAwaited,
                                  Setting!ResultIsItsOwn, Setting!ReadIsCurrent
<1>9. CASE UNCHANGED Setting!vars
  BY <1>9 DEF Setting!vars, Setting!client, Setting!IInv, Setting!IdsAreFresh, Setting!ClientTypeOK,
              Setting!Queue, Setting!AnswersTheCall, Setting!CallIsAwaited, Setting!ResultIsItsOwn,
              Setting!ReadIsCurrent
<1> QED BY <1>1, <1>2, <1>4, <1>5, <1>6, <1>7, <1>8, <1>9 DEF Setting!Next

-----------------------------------------------------------------------------
(* Bind!: bindprobe.py.                                                    *)

LEMMA BindStarts == ASSUME Bind!Init, ConstantsAssumption PROVE Bind!IInv
<1>1. Bind!IdsAreFresh
  BY DEF Bind!Init, Bind!ClientInit, Bind!IdsAreFresh, Bind!ClientTypeOK, Bind!Queue, Bind!NoCall,
         ConstantsAssumption
<1> QED BY <1>1 DEF Bind!Init, Bind!ClientInit, Bind!IInv, Bind!FlippedIsTrue, Bind!NoCall

LEMMA BindSteps ==
  ASSUME Bind!IInv, [Bind!Next]_(Bind!vars), ConstantsAssumption PROVE Bind!IInv'
<1> DEFINE All == \A i \in DOMAIN replies : Bind!AnswersTheProbe(replies[i])
<1>0. Client!IdsAreFresh /\ (Client!IdsAreFresh' => Bind!IdsAreFresh') /\ All
  BY DEF Bind!IInv, Bind!IdsAreFresh, Client!IdsAreFresh, Bind!ClientTypeOK, Client!ClientTypeOK,
         Bind!Queue, Client!Queue, Bind!NoCall, Client!NoCall
<1> USE DEF Bind!probevars
<1>1. CASE Bind!Ask
  <2>1. Client!Send(Head(todo).msg, Head(todo)) /\ todo # <<>>
    BY <1>1 DEF Bind!Ask, Bind!Send, Client!Send, Bind!NoCall, Client!NoCall
  <2>2. /\ Client!IdsAreFresh' /\ wait'.arg = Head(todo)
        /\ \A i \in DOMAIN replies : replies[i].txn # wait'.txn
        /\ replies' = replies
    BY <1>0, <2>1, SendKeeps
  <2>3. All' BY <2>2 DEF Bind!AnswersTheProbe
  <2> QED BY <1>0, <1>1, <2>1, <2>2, <2>3 DEF Bind!Ask, Bind!IInv, Bind!FlippedIsTrue
<1>2. CASE Bind!Got
  <2>1. Bind!Returns => Client!Returns
    BY DEF Bind!Returns, Client!Returns, Bind!Matches, Client!Matches, Bind!NoCall, Client!NoCall
  <2>2. /\ wait # Client!NoCall /\ wait' = Client!NoCall /\ UNCHANGED <<txn, requests>>
        /\ replies' = replies \/ (replies # <<>> /\ replies' = Tail(replies))
    BY <1>0, <1>2, <2>1, ReturnsOwn DEF Bind!Got, Bind!TimesOut, Bind!NoCall, Client!NoCall
  <2>3. Client!IdsAreFresh' /\ \A i \in DOMAIN replies' : replies'[i].txn # wait'.txn
    BY <1>0, <2>2, CallEnds
  <2>4. All' BY <2>3 DEF Bind!AnswersTheProbe
  <2>5. wait.arg = Head(todo) BY <2>2 DEF Bind!IInv, Bind!NoCall, Client!NoCall
  <2>6. ASSUME Bind!Returns, Head(replies).body PROVE <<Head(todo).phase, Head(todo).msg>> \in answered
    <3>1. Bind!AnswersTheProbe(replies[1]) /\ replies[1].txn = wait.txn /\ Head(replies) = replies[1]
      BY <1>0, <2>1, <2>6, ReturnsOwn
    <3> QED BY <2>5, <2>6, <3>1 DEF Bind!AnswersTheProbe
  <2>7. flipped' \subseteq answered
    BY <1>2, <2>6 DEF Bind!Got, Bind!Took, Bind!IInv, Bind!FlippedIsTrue
  <2>8. UNCHANGED answered BY <1>2 DEF Bind!Got
  <2> QED BY <1>0, <2>2, <2>3, <2>4, <2>7, <2>8 DEF Bind!IInv, Bind!FlippedIsTrue, Bind!NoCall, Client!NoCall
<1>3. CASE Bind!Discards
  <2>1. Client!Discard
    BY <1>3 DEF Bind!Discards, Bind!Discard, Client!Discard, Bind!Matches, Client!Matches,
                Bind!NoCall, Client!NoCall
  <2>2. /\ Client!IdsAreFresh' /\ UNCHANGED <<txn, wait, requests>>
        /\ \A i \in DOMAIN replies' : \E j \in DOMAIN replies : replies'[i] = replies[j]
    BY <1>0, <2>1, DiscardKeeps
  <2>3. UNCHANGED Bind!probevars BY <1>3 DEF Bind!Discards
  <2>4. All' BY <1>0, <2>2, <2>3 DEF Bind!AnswersTheProbe
  <2> QED BY <1>0, <2>2, <2>3, <2>4 DEF Bind!IInv, Bind!FlippedIsTrue
<1>4. CASE Bind!Modem
  <2> DEFINE p == Head(requests).arg
  <2>1. PICK b \in BOOLEAN :
          /\ Bind!ModemAnswers(b)
          /\ answered' = IF b THEN answered \union {<<p.phase, p.msg>>} ELSE answered
    BY <1>4 DEF Bind!Modem
  <2>2. Client!ModemAnswers(b) BY <2>1 DEF Bind!ModemAnswers, Client!ModemAnswers
  <2>3. /\ Client!IdsAreFresh' /\ UNCHANGED <<txn, wait>> /\ Head(requests) = requests[1]
        /\ requests[1].txn = wait.txn => requests[1] = wait
        /\ \A i \in DOMAIN replies' :
             \/ \E j \in DOMAIN replies : replies'[i] = replies[j]
             \/ replies'[i] = [txn |-> requests[1].txn, msg |-> requests[1].msg, body |-> b]
    BY <1>0, <2>2, AnswerKeeps
  <2>4. UNCHANGED <<todo, flipped, hits, accepts, binder>> BY <1>4 DEF Bind!Modem
  <2>5. ASSUME NEW i \in DOMAIN replies' PROVE Bind!AnswersTheProbe(replies[i])'
    <3>1. CASE \E j \in DOMAIN replies : replies'[i] = replies[j]
      BY <1>0, <2>1, <2>3, <3>1 DEF Bind!AnswersTheProbe
    <3>2. CASE replies'[i] = [txn |-> requests[1].txn, msg |-> requests[1].msg, body |-> b]
      BY <2>1, <2>3, <3>2 DEF Bind!AnswersTheProbe
    <3> QED BY <2>3, <3>1, <3>2
  <2> QED BY <1>0, <2>1, <2>3, <2>4, <2>5 DEF Bind!IInv, Bind!FlippedIsTrue
<1>5. CASE UNCHANGED Bind!vars
  BY <1>5 DEF Bind!vars, Bind!client, Bind!IInv, Bind!IdsAreFresh, Bind!ClientTypeOK,
              Bind!Queue, Bind!AnswersTheProbe, Bind!FlippedIsTrue
<1> QED BY <1>1, <1>2, <1>3, <1>4, <1>5 DEF Bind!Next

-----------------------------------------------------------------------------
(* Sweep!: qmiims.py and wmsprobe.py as programs.                          *)

LEMMA QueueBegin ==
  ASSUME NEW s, Client!Queue(s), NEW m \in 0 .. Len(s)
  PROVE  SubSeq(s, 1, m) = [i \in 1 .. m |-> s[i]] /\ Len(SubSeq(s, 1, m)) = m
<1> DEFINE S == {s[i] : i \in 1 .. Len(s)}
<1>1. s \in Seq(S) /\ Len(s) \in Nat BY QueueIsSeq, QueueDomain
<1> HIDE DEF S
<1> QED BY <1>1

LEMMA QueueConcat ==
  ASSUME NEW s, Client!Queue(s), NEW t, Client!Queue(t)
  PROVE  /\ Client!Queue(s \o t) /\ Len(s \o t) = Len(s) + Len(t)
         /\ \A i \in 1 .. Len(s) + Len(t) :
              (s \o t)[i] = IF i <= Len(s) THEN s[i] ELSE t[i - Len(s)]
<1> DEFINE S == {s[i] : i \in 1 .. Len(s)} \union {t[i] : i \in 1 .. Len(t)}
<1>1. s \in Seq(S) /\ t \in Seq(S) BY QueueIsSeq
<1> HIDE DEF S
<1>2. /\ s \o t \in Seq(S) /\ Len(s \o t) = Len(s) + Len(t)
      /\ \A i \in 1 .. Len(s) + Len(t) : (s \o t)[i] = IF i <= Len(s) THEN s[i] ELSE t[i - Len(s)]
  BY <1>1, ConcatProperties
<1> QED BY <1>2, SeqIsQueue

\* What the parse gives is how the answer begins.
LEMMA ParseIsBegin ==
  ASSUME NEW t, Client!Queue(t)
  PROVE  /\ Client!Queue(Sweep!parse_tlvs(t)) /\ Len(Sweep!parse_tlvs(t)) <= Len(t)
         /\ \A i \in 1 .. Len(Sweep!parse_tlvs(t)) : Sweep!parse_tlvs(t)[i] = t[i]
<1> DEFINE S == Sweep!Complete(t)
<1>2. Sweep!parse_tlvs(t) = SubSeq(t, 1, Sweep!Cardinality(S)) BY DEF Sweep!parse_tlvs
<1>3. Sweep!Cardinality(S) = Cardinality(S) BY Zenon DEF Sweep!Cardinality, Cardinality
<1>4. S \subseteq 1 .. Len(t) /\ Len(t) \in Nat BY QueueDomain DEF Sweep!Complete
<1> HIDE DEF S
<1>5. Cardinality(S) \in 0 .. Len(t)
  <2>1. IsFiniteSet(1 .. Len(t)) /\ Cardinality(1 .. Len(t)) = Len(t) BY <1>4, FS_Interval
  <2>2. IsFiniteSet(S) /\ Cardinality(S) <= Len(t) BY <1>4, <2>1, FS_Subset
  <2> QED BY <1>4, <2>2, FS_CardinalityType
<1>6. Sweep!parse_tlvs(t) = [i \in 1 .. Cardinality(S) |-> t[i]] /\ Len(Sweep!parse_tlvs(t)) = Cardinality(S)
  BY <1>2, <1>3, <1>5, QueueBegin
<1> QED BY <1>4, <1>5, <1>6 DEF Client!Queue

\* The largest of some places in a sequence.
LEMMA MaxIsLargest ==
  ASSUME NEW n \in Nat, NEW S, S \subseteq 1 .. n, S # {}
  PROVE  Sweep!Max(S) \in S /\ \A x \in S : x <= Sweep!Max(S)
<1> DEFINE T == {n - x : x \in S}
<1>0. \A x \in S : x \in Nat /\ n - x \in Nat OBVIOUS
<1>1. T \subseteq Nat /\ T # {} BY <1>0
<1>2. PICK y \in T : \A z \in T : <<z, y>> \notin OpToRel(<, Nat)
  BY <1>1, WFMin, NatLessThanWellFounded
<1>3. PICK x \in S : y = n - x BY <1>2
<1>4. \A z \in S : x >= z
  <2> SUFFICES ASSUME NEW z \in S PROVE x >= z OBVIOUS
  <2>1. n - z \in T /\ n - z \in Nat /\ y \in Nat BY <1>1
  <2>2. ~(n - z < y) BY <1>2, <2>1 DEF OpToRel
  <2> QED BY <1>3, <2>1, <2>2
<1> HIDE DEF T
<1>5. Sweep!Max(S) \in S /\ \A z \in S : Sweep!Max(S) >= z BY <1>4 DEF Sweep!Max
<1> QED BY <1>0, <1>5

\* The result of a sweep was one of the answer's.
LEMMA ResultIsThere ==
  ASSUME NEW t, Client!Queue(t), Sweep!ResultOf(t) # <<>>
  PROVE  \E i \in 1 .. Len(t) : Sweep!IsResult(t[i]) /\ Sweep!ResultOf(t) = <<t[i].value>>
<1> DEFINE S == {i \in DOMAIN t : Sweep!IsResult(t[i])}
<1>1. S # {} /\ Sweep!ResultOf(t) = <<t[Sweep!Max(S)].value>> BY DEF Sweep!ResultOf
<1>2. S \subseteq 1 .. Len(t) /\ Len(t) \in Nat BY QueueDomain
<1>3. Sweep!Max(S) \in S BY <1>1, <1>2, MaxIsLargest
<1> QED BY <1>1, <1>2, <1>3

LEMMA ResultIsAnswered ==
  ASSUME NEW t, Client!Queue(t), Sweep!ResultOf(Sweep!parse_tlvs(t)) # <<>>
  PROVE  \E c : Sweep!ResultOf(Sweep!parse_tlvs(t)) = <<c>> /\ Sweep!HasResult(t, c)
<1>1. /\ Client!Queue(Sweep!parse_tlvs(t)) /\ Len(Sweep!parse_tlvs(t)) <= Len(t)
      /\ \A i \in 1 .. Len(Sweep!parse_tlvs(t)) : Sweep!parse_tlvs(t)[i] = t[i]
  BY ParseIsBegin
<1>2. PICK i \in 1 .. Len(Sweep!parse_tlvs(t)) :
        /\ Sweep!IsResult(Sweep!parse_tlvs(t)[i])
        /\ Sweep!ResultOf(Sweep!parse_tlvs(t)) = <<Sweep!parse_tlvs(t)[i].value>>
  BY <1>1, ResultIsThere
<1>3. i \in DOMAIN t BY <1>1, QueueDomain
<1>4. Sweep!IsResult(t[i]) /\ Sweep!ResultOf(Sweep!parse_tlvs(t)) = <<t[i].value>> BY <1>1, <1>2
<1> QED BY <1>3, <1>4 DEF Sweep!HasResult, Sweep!ToSet

\* The lines printed are the first of the answer's.
LEMMA LinesBegin ==
  ASSUME NEW t, Client!Queue(t)
  PROVE  Sweep!IsPrefix(Sweep!Lines(Sweep!parse_tlvs(t)), Sweep!Lines(t))
<1> DEFINE p == Sweep!parse_tlvs(t)
<1>1. Client!Queue(p) /\ Len(p) <= Len(t) /\ \A i \in 1 .. Len(p) : p[i] = t[i] BY ParseIsBegin
<1> HIDE DEF p
<1>2. DOMAIN p = 1 .. Len(p) /\ DOMAIN t = 1 .. Len(t) /\ Len(p) \in Nat /\ Len(t) \in Nat
  BY <1>1, QueueDomain
<1>3. /\ Client!Queue(Sweep!Lines(p)) /\ Len(Sweep!Lines(p)) = Len(p)
      /\ Client!Queue(Sweep!Lines(t)) /\ Len(Sweep!Lines(t)) = Len(t)
  BY <1>2 DEF Sweep!Lines, Client!Queue
<1>4. ASSUME NEW i \in 1 .. Len(p) PROVE Sweep!Lines(p)[i] = Sweep!Lines(t)[i]
  <2>1. i \in DOMAIN p /\ i \in DOMAIN t /\ p[i] = t[i] BY <1>1, <1>2
  <2> QED BY ONLY <2>1 DEF Sweep!Lines
<1>5. SubSeq(Sweep!Lines(p), 1, Len(p)) = [i \in 1 .. Len(p) |-> Sweep!Lines(p)[i]]
  BY <1>2, <1>3, QueueBegin
<1>6. SubSeq(Sweep!Lines(t), 1, Len(p)) = [i \in 1 .. Len(p) |-> Sweep!Lines(t)[i]]
  BY <1>1, <1>2, <1>3, QueueBegin
<1>7. SubSeq(Sweep!Lines(p), 1, Len(p)) = SubSeq(Sweep!Lines(t), 1, Len(p)) BY <1>4, <1>5, <1>6
<1>8. Sweep!IsPrefix(Sweep!Lines(p), Sweep!Lines(t)) BY <1>1, <1>3, <1>7 DEF Sweep!IsPrefix
<1> QED BY <1>8 DEF p

\* Concatenation, not to be expanded.
Then(f, t) == f \o t

LEMMA QueueAfterOne ==
  ASSUME NEW f, Client!Queue(f), Len(f) = 1, NEW t, Client!Queue(t), NEW x, x = Then(f, t)
  PROVE  /\ Client!Queue(x) /\ Len(t) \in Nat
         /\ x = [i \in 1 .. 1 + Len(t) |-> IF i = 1 THEN f[1] ELSE t[i - 1]]
<1>1. /\ Client!Queue(x) /\ Len(x) = Len(f) + Len(t)
      /\ \A i \in 1 .. Len(f) + Len(t) : x[i] = IF i <= Len(f) THEN f[i] ELSE t[i - Len(f)]
  BY QueueConcat DEF Then
<1>2. x = [i \in 1 .. 1 + Len(t) |-> x[i]] /\ Len(t) \in Nat BY <1>1, QueueDomain DEF Client!Queue
<1>3. \A i \in 1 .. 1 + Len(t) : x[i] = IF i = 1 THEN f[1] ELSE t[i - 1] BY <1>1, <1>2
<1> QED BY <1>1, <1>2, <1>3

LEMMA SweepIsClient ==
  /\ \A q : Sweep!Queue(q) <=> Client!Queue(q)
  /\ Sweep!IdsAreFresh <=> Client!IdsAreFresh
  /\ Sweep!IdsAreFresh' <=> Client!IdsAreFresh'
  /\ Sweep!NoCall = Client!NoCall
BY DEF Sweep!IdsAreFresh, Client!IdsAreFresh, Sweep!ClientTypeOK, Client!ClientTypeOK,
       Sweep!Queue, Client!Queue, Sweep!NoCall, Client!NoCall

\* What a program has to send at first.
LEMMA ScriptIs ==
  ASSUME NEW m \in {"get", "port", "sweep", "wms", "set"}, ConstantsAssumption
  PROVE  /\ Client!Queue(Sweep!Script(m))
         /\ \A i \in DOMAIN Sweep!Script(m) : Sweep!Script(m)[i].msg \in Sweep!Known(m)
         /\ m = "set" => /\ Sweep!Script(m)[1].msg = Sweep!EnableGet
                         /\ \A i \in DOMAIN Sweep!Script(m) :
                              /\ Sweep!Script(m)[i].msg = Sweep!SetMsg => Sweep!Script(m)[i].arg = Val
                              /\ Sweep!Script(m)[i].msg = Sweep!Back => Sweep!Script(m)[i - 1].msg = Sweep!SetMsg
<1> DEFINE F == Sweep!First
<1>1. /\ Client!Queue(F) /\ Len(F) = 1 /\ F[1].msg = Sweep!EnableGet
      /\ \A i \in 1 .. 1 : F[i].msg \in Sweep!Known(m)
  BY DEF Sweep!First, Sweep!Calls, Client!Queue, Sweep!Known
<1>0. Client!Queue(F) /\ Len(F) = 1 BY <1>1
<1>2. ASSUME NEW as
      PROVE  /\ Client!Queue(Sweep!Calls(as, MsgIds))
             /\ \A i \in 1 .. Len(Sweep!Calls(as, MsgIds)) : Sweep!Calls(as, MsgIds)[i].msg \in Sweep!Known(m)
  <2>1. DOMAIN MsgIds = 1 .. Len(MsgIds) /\ Len(MsgIds) \in Nat BY DEF ConstantsAssumption
  <2>2. /\ DOMAIN Sweep!Calls(as, MsgIds) = 1 .. Len(MsgIds)
        /\ Sweep!Calls(as, MsgIds) = [i \in 1 .. Len(MsgIds) |-> [as |-> as, msg |-> MsgIds[i], arg |-> "none"]]
    BY <2>1 DEF Sweep!Calls
  <2>3. Len(Sweep!Calls(as, MsgIds)) = Len(MsgIds) BY <2>1, <2>2
  <2>4. Client!Queue(Sweep!Calls(as, MsgIds)) BY <2>2, <2>3 DEF Client!Queue
  <2>5. \A i \in 1 .. Len(MsgIds) : MsgIds[i] \in Sweep!Known(m) BY <2>1 DEF Sweep!Known, Sweep!ToSet
  <2>6. \A i \in 1 .. Len(MsgIds) : Sweep!Calls(as, MsgIds)[i].msg = MsgIds[i] BY <2>2
  <2> QED BY <2>3, <2>4, <2>5, <2>6
<1> HIDE DEF F
<1>4. CASE m \in {"get", "sweep", "port", "wms"}
  <2>1. m # "set" BY <1>4
  <2>2. \E as : Sweep!Script(m) = F \o Sweep!Calls(as, MsgIds) \/ Sweep!Script(m) = Sweep!Calls(as, MsgIds)
    BY <1>4 DEF Sweep!Script, F
  <2>3. PICK as : Sweep!Script(m) = F \o Sweep!Calls(as, MsgIds) \/ Sweep!Script(m) = Sweep!Calls(as, MsgIds) BY <2>2
  <2>4. CASE Sweep!Script(m) = Sweep!Calls(as, MsgIds) BY <1>2, <2>1, <2>4, QueueDomain
  <2>5. CASE Sweep!Script(m) = F \o Sweep!Calls(as, MsgIds)
    <3> DEFINE c == Sweep!Calls(as, MsgIds)
               s == Sweep!Script(m)
    <3>1. Client!Queue(c) /\ \A i \in 1 .. Len(c) : c[i].msg \in Sweep!Known(m) BY <1>2
    <3>2. s = Then(F, c) BY <2>5 DEF Then
    <3> HIDE DEF c, s
    <3>5. Len(c) \in Nat BY <3>1, QueueDomain
    <3>6. /\ Client!Queue(Then(F, c))
          /\ Then(F, c) = [i \in 1 .. 1 + Len(c) |-> IF i = 1 THEN F[1] ELSE c[i - 1]]
      BY ONLY <1>0, <3>1, QueueAfterOne
    <3>3. /\ Client!Queue(s) /\ Len(c) \in Nat
          /\ s = [i \in 1 .. 1 + Len(c) |-> IF i = 1 THEN F[1] ELSE c[i - 1]]
      BY ONLY <3>2, <3>5, <3>6
    <3>4. ASSUME NEW i \in DOMAIN s PROVE s[i].msg \in Sweep!Known(m)
      <4>1. i \in 1 .. 1 + Len(c) /\ s[i] = IF i = 1 THEN F[1] ELSE c[i - 1] BY <3>3
      <4>2. i # 1 => i - 1 \in 1 .. Len(c) BY <3>3, <4>1
      <4> QED BY <1>1, <3>1, <4>1, <4>2
    <3> QED BY <2>1, <3>3, <3>4 DEF s
  <2> QED BY <2>3, <2>4, <2>5
<1>5. CASE m = "set"
  <2> DEFINE s == Sweep!Script(m)
             e == <<>>
             w == <<[as |-> "show", msg |-> Sweep!SetMsg, arg |-> Val],
                    [as |-> "show", msg |-> Sweep!Back, arg |-> "none"]>>
  <2>1. s = Then(F, e) \/ s = Then(F, w) BY <1>5 DEF Sweep!Script, F, Then
  <2>2. Sweep!SetMsg = "0x70" /\ Sweep!Back = "0x71" /\ Sweep!EnableGet = "0x90"
    BY DEF Sweep!SetMsg, Sweep!Back, Sweep!EnableGet
  <2>3. /\ Client!Queue(e) /\ Len(e) = 0 /\ Client!Queue(w) /\ Len(w) = 2
        /\ w[1].msg = "0x70" /\ w[1].arg = Val /\ w[2].msg = "0x71"
    BY DEF Client!Queue, Sweep!SetMsg, Sweep!Back
  <2>6. Client!Queue(e) /\ Client!Queue(w) BY <2>3
  <2> HIDE DEF e, s, w
  <2>4. CASE s = Then(F, e)
    <3>0. /\ Client!Queue(s)
          /\ s = [i \in 1 .. 1 + Len(e) |-> IF i = 1 THEN F[1] ELSE e[i - 1]]
      BY ONLY <1>0, <2>6, <2>4, QueueAfterOne
    <3>1. Client!Queue(s) /\ DOMAIN s = 1 .. 1 /\ s[1] = F[1] BY <2>3, <3>0
    <3> QED BY <1>1, <2>2, <3>1 DEF s
  <2>5. CASE s = Then(F, w)
    <3>0. /\ Client!Queue(s)
          /\ s = [i \in 1 .. 1 + Len(w) |-> IF i = 1 THEN F[1] ELSE w[i - 1]]
      BY ONLY <1>0, <2>6, <2>5, QueueAfterOne
    <3>1. /\ Client!Queue(s) /\ DOMAIN s = 1 .. 3
          /\ s[1] = F[1] /\ s[2] = w[1] /\ s[3] = w[2]
      BY <2>3, <3>0
    <3>2. /\ DOMAIN s = {1, 2, 3} /\ s[1].msg = "0x90" /\ s[2].msg = "0x70" /\ s[2].arg = Val
          /\ s[3].msg = "0x71" /\ Sweep!Known(m) = Sweep!ToSet(MsgIds) \union {"0x90", "0x70", "0x71"}
      BY <1>1, <1>5, <2>2, <2>3, <3>1 DEF Sweep!Known
    <3> QED BY <2>2, <3>1, <3>2 DEF s
  <2> QED BY <1>5, <2>1, <2>4, <2>5 DEF s
<1> QED BY <1>4, <1>5

LEMMA SweepStarts == ASSUME Sweep!Init, ConstantsAssumption PROVE Sweep!IInv
<1>1. Sweep!IdsAreFresh
  BY DEF Sweep!Init, Sweep!ClientInit, Sweep!IdsAreFresh, Sweep!ClientTypeOK, Sweep!Queue, Sweep!NoCall,
         ConstantsAssumption
<1>2. /\ mode \in {"get", "port", "sweep", "wms", "set"} /\ todo = Sweep!Script(mode)
      /\ ok = <<>> /\ err = {} /\ shown = <<>> /\ given = {}
      /\ requests = <<>> /\ replies = <<>> /\ wait = Sweep!NoCall
      /\ answers \in [Sweep!ToSet(MsgIds) \union {Sweep!EnableGet} ->
                        IF mode = "set" THEN {<<Sweep!Result(0)>>} ELSE Answers]
  BY DEF Sweep!Init, Sweep!ClientInit
<1>3. /\ Client!Queue(todo)
      /\ \A i \in DOMAIN todo : todo[i].msg \in Sweep!Known(mode)
      /\ mode = "set" => /\ todo[1].msg = Sweep!EnableGet
                         /\ \A i \in DOMAIN todo :
                              /\ todo[i].msg = Sweep!SetMsg => todo[i].arg = Val
                              /\ todo[i].msg = Sweep!Back => todo[i - 1].msg = Sweep!SetMsg
  BY <1>2, ScriptIs
<1>4. Sweep!Queue(todo) /\ Sweep!Queue(ok) /\ Sweep!Queue(shown)
  BY <1>2, <1>3, SweepIsClient DEF Sweep!Queue
<1>5. answers \in [Sweep!ToSet(MsgIds) \union {Sweep!EnableGet} -> Answers \union {<<Sweep!Result(0)>>}]
  BY <1>2
<1>6. Sweep!WriteComesFirst
  <2>1. todo # <<>> => Head(todo) = todo[1] BY <1>3, QueueTail
  <2> QED BY <1>2, <1>3, <2>1 DEF Sweep!WriteComesFirst, Sweep!EnableGet, Sweep!Back, Sweep!NoCall
<1>7. Sweep!ListedIsAnswered BY <1>2 DEF Sweep!ListedIsAnswered
<1> QED BY <1>1, <1>2, <1>3, <1>4, <1>5, <1>6, <1>7 DEF Sweep!IInv

\* A message is sent: the read-back of a "set" after its write.
LEMMA SweepAsks ==
  ASSUME Sweep!IInv, Sweep!Ask, ConstantsAssumption PROVE Sweep!IInv'
<1>0. PICK n : n = Len(requests) OBVIOUS
<1>1. /\ todo # <<>> /\ Client!Send(Head(todo).msg, Head(todo).arg) /\ UNCHANGED Sweep!sweepvars
  BY DEF Sweep!Ask, Sweep!Send, Client!Send, Sweep!NoCall, Client!NoCall
<1>2. Client!IdsAreFresh /\ Client!Queue(todo) BY SweepIsClient DEF Sweep!IInv
<1>3. /\ Client!IdsAreFresh' /\ wait = Client!NoCall
      /\ wait' = [txn |-> txn, msg |-> Head(todo).msg, arg |-> Head(todo).arg]
      /\ replies' = replies /\ \A i \in DOMAIN replies : replies[i].txn # wait'.txn
      /\ DOMAIN requests' = 1 .. n + 1 /\ DOMAIN requests = 1 .. n
      /\ \A i \in 1 .. n : requests'[i] = requests[i]
      /\ Len(requests') = n + 1 /\ requests'[n + 1] = wait' /\ n \in Nat
  BY <1>0, <1>1, <1>2, SendKeeps
<1>4. UNCHANGED <<mode, todo, ok, err, shown, answers, setting, given>> BY <1>1 DEF Sweep!sweepvars
<1>5. Head(todo) = todo[1] /\ 1 \in DOMAIN todo BY <1>1, <1>2, QueueTail, QueueDomain
<1>6. \A i \in DOMAIN requests' : i \in DOMAIN requests \/ (i = n + 1 /\ requests'[i] = wait') BY <1>3
<1>7. \A i \in DOMAIN requests' : requests'[i].msg \in Sweep!Known(mode)
  BY <1>3, <1>5, <1>6 DEF Sweep!IInv
<1>8. Sweep!WriteComesFirst'
  <2> SUFFICES ASSUME mode = "set" PROVE Sweep!WriteComesFirst' BY <1>4 DEF Sweep!WriteComesFirst
  <2> USE DEF Sweep!Taken, Sweep!SetAhead
  <2>1. /\ \A i \in DOMAIN todo : /\ todo[i].msg = Sweep!SetMsg => todo[i].arg = Val
                                  /\ todo[i].msg = Sweep!Back => i = 1 \/ todo[i - 1].msg = Sweep!SetMsg
        /\ \A i \in 1 .. n : /\ requests[i].msg = Sweep!SetMsg => requests[i].arg = Val
                             /\ requests[i].msg = Sweep!Back => Sweep!Taken \/ Sweep!SetAhead(i - 1)
        /\ Head(todo).msg = Sweep!Back => Sweep!Taken \/ Sweep!SetAhead(n)
    BY <1>0, <1>1, <1>3 DEF Sweep!IInv, Sweep!WriteComesFirst
  <2>2. \A i \in 1 .. n + 1 : /\ requests'[i].msg = Sweep!SetMsg => requests'[i].arg = Val
                              /\ requests'[i].msg = Sweep!Back => Sweep!Taken' \/ Sweep!SetAhead(i - 1)'
    <3> SUFFICES ASSUME NEW i \in 1 .. n + 1
                 PROVE  /\ requests'[i].msg = Sweep!SetMsg => requests'[i].arg = Val
                        /\ requests'[i].msg = Sweep!Back => Sweep!Taken' \/ Sweep!SetAhead(i - 1)'
      OBVIOUS
    <3>1. CASE i \in 1 .. n BY <1>3, <1>4, <2>1, <3>1
    <3>2. CASE i = n + 1
      <4>1. requests'[i] = wait' /\ \A j \in 1 .. n : requests'[j] = requests[j] BY <1>3, <3>2
      <4>2. wait'.msg = Sweep!SetMsg => wait'.arg = Val BY <1>3, <1>5, <2>1
      <4>3. wait'.msg = Sweep!Back => Sweep!Taken \/ Sweep!SetAhead(n) BY <1>3, <2>1
      <4>4. i - 1 = n BY <1>3, <3>2
      <4> QED BY <1>4, <4>1, <4>2, <4>3, <4>4
    <3> QED BY <1>3, <3>1, <3>2
  <2>3. wait'.msg = Sweep!SetMsg => Sweep!SetAhead(n + 1)' BY <1>3
  <2>4. Sweep!SetAhead(n) => Sweep!SetAhead(n + 1)' BY <1>3
  <2>5. Len(requests') = n + 1 /\ DOMAIN requests' = 1 .. n + 1 BY <1>3
  <2>6. \A g \in given : g[1] = Sweep!Back /\ setting # Sweep!Refused =>
          /\ Len(g[2]) = 2 /\ g[2][1] = Sweep!Result(0)
          /\ g[2][2] = [tag |-> 16, size |-> Width, value |-> Val]
    BY DEF Sweep!IInv, Sweep!WriteComesFirst
  <2> HIDE DEF Sweep!SetAhead
  <2> QED BY <1>4, <2>1, <2>2, <2>3, <2>4, <2>5, <2>6 DEF Sweep!WriteComesFirst
<1>9. \A i \in DOMAIN replies' : Sweep!AnswersTheCall(replies[i])'
  BY <1>3 DEF Sweep!AnswersTheCall
<1>10. Sweep!ListedIsAnswered' BY <1>4 DEF Sweep!IInv, Sweep!ListedIsAnswered
<1> QED
  BY <1>1, <1>3, <1>4, <1>7, <1>8, <1>9, <1>10, SweepIsClient DEF Sweep!IInv

LEMMA SweepDiscards ==
  ASSUME Sweep!IInv, Sweep!Discards PROVE Sweep!IInv'
<1>1. Client!Discard /\ UNCHANGED Sweep!sweepvars
  BY DEF Sweep!Discards, Sweep!Discard, Client!Discard, Sweep!Matches, Client!Matches,
         Sweep!NoCall, Client!NoCall
<1>2. Client!IdsAreFresh BY SweepIsClient DEF Sweep!IInv
<1>3. /\ Client!IdsAreFresh' /\ UNCHANGED <<txn, wait, requests>>
      /\ \A i \in DOMAIN replies' : \E j \in DOMAIN replies : replies'[i] = replies[j]
  BY <1>1, <1>2, DiscardKeeps
<1>4. UNCHANGED <<mode, todo, ok, err, shown, answers, setting, given>> BY <1>1 DEF Sweep!sweepvars
<1>5. Sweep!WriteComesFirst'
  BY <1>3, <1>4 DEF Sweep!IInv, Sweep!WriteComesFirst, Sweep!Taken, Sweep!SetAhead
<1>6. \A i \in DOMAIN replies' : Sweep!AnswersTheCall(replies[i])'
  BY <1>3, <1>4 DEF Sweep!IInv, Sweep!AnswersTheCall
<1>7. Sweep!ListedIsAnswered' BY <1>4 DEF Sweep!IInv, Sweep!ListedIsAnswered
<1> QED BY <1>3, <1>4, <1>5, <1>6, <1>7, SweepIsClient DEF Sweep!IInv

\* The end of a call, but for what is made of its answer.
LEMMA SweepCallEnds ==
  ASSUME Sweep!IInv, todo # <<>>, Sweep!Returns \/ Sweep!TimesOut, todo' = Tail(todo) \/ todo' = <<>>,
         UNCHANGED <<mode, answers, setting, given>>,
         Sweep!Queue(ok)', Sweep!Queue(shown)', \A i \in DOMAIN shown' : Sweep!Queue(shown[i][2])',
         Sweep!ListedIsAnswered'
  PROVE  Sweep!IInv'
<1>1. Sweep!Returns => Client!Returns
  BY DEF Sweep!Returns, Client!Returns, Sweep!Matches, Client!Matches, Sweep!NoCall, Client!NoCall
<1>2. Client!IdsAreFresh /\ Client!Queue(todo) BY SweepIsClient DEF Sweep!IInv
<1>3. /\ wait # Client!NoCall /\ wait' = Client!NoCall /\ UNCHANGED <<txn, requests>>
      /\ replies' = replies \/ (replies # <<>> /\ replies' = Tail(replies))
  BY <1>1, <1>2, ReturnsOwn DEF Sweep!TimesOut, Sweep!NoCall, Client!NoCall
<1>4. Client!IdsAreFresh' /\ \A i \in DOMAIN replies' : replies'[i].txn # wait'.txn
  BY <1>2, <1>3, CallEnds
<1>5. \A i \in DOMAIN replies' : Sweep!AnswersTheCall(replies[i])' BY <1>4 DEF Sweep!AnswersTheCall
<1>6. /\ Client!Queue(Tail(todo)) /\ Len(Tail(todo)) = Len(todo) - 1 /\ Head(todo) = todo[1]
      /\ DOMAIN todo = 1 .. Len(todo) /\ Len(todo) \in Nat
      /\ \A i \in 1 .. Len(Tail(todo)) : i + 1 \in 1 .. Len(todo) /\ Tail(todo)[i] = todo[i + 1]
  BY <1>2, QueueTail, QueueDomain
<1>7. DOMAIN Tail(todo) = 1 .. Len(Tail(todo)) /\ (Tail(todo) # <<>> => Head(Tail(todo)) = Tail(todo)[1])
  BY <1>6, QueueTail, QueueDomain
<1>8. Client!Queue(todo') /\ \A i \in DOMAIN todo' : todo'[i].msg \in Sweep!Known(mode)
  <2>1. CASE todo' = Tail(todo) BY <1>6, <1>7, <2>1 DEF Sweep!IInv
  <2>2. CASE todo' = <<>> BY <2>2 DEF Client!Queue
  <2> QED BY <2>1, <2>2
<1>9. Sweep!WriteComesFirst'
  <2> SUFFICES ASSUME mode = "set" PROVE Sweep!WriteComesFirst' BY DEF Sweep!WriteComesFirst
  <2>1. /\ \A i \in DOMAIN todo : /\ todo[i].msg = Sweep!SetMsg => todo[i].arg = Val
                                  /\ todo[i].msg = Sweep!Back => i = 1 \/ todo[i - 1].msg = Sweep!SetMsg
        /\ wait.msg = Sweep!SetMsg => Sweep!Taken \/ Sweep!SetAhead(Len(requests))
        /\ wait.msg = todo[1].msg
    BY <1>3, <1>6 DEF Sweep!IInv, Sweep!WriteComesFirst, Sweep!NoCall, Client!NoCall
  <2>2. CASE todo' = <<>>
    BY <1>3, <2>2 DEF Sweep!IInv, Sweep!WriteComesFirst, Sweep!Taken, Sweep!SetAhead, Sweep!NoCall,
                      Client!NoCall
  <2>3. CASE todo' = Tail(todo)
    <3>1. \A i \in DOMAIN todo' : /\ todo'[i].msg = Sweep!SetMsg => todo'[i].arg = Val
                                  /\ todo'[i].msg = Sweep!Back => i = 1 \/ todo'[i - 1].msg = Sweep!SetMsg
      <4> SUFFICES ASSUME NEW i \in 1 .. Len(Tail(todo))
                   PROVE  /\ Tail(todo)[i].msg = Sweep!SetMsg => Tail(todo)[i].arg = Val
                          /\ Tail(todo)[i].msg = Sweep!Back => i = 1 \/ Tail(todo)[i - 1].msg = Sweep!SetMsg
        BY <1>7, <2>3
      <4>1. i + 1 \in DOMAIN todo /\ Tail(todo)[i] = todo[i + 1] /\ i + 1 # 1 /\ (i + 1) - 1 = i BY <1>6
      <4>2. i # 1 => i - 1 \in 1 .. Len(Tail(todo)) /\ Tail(todo)[i - 1] = todo[i] BY <1>6
      <4> QED BY <2>1, <4>1, <4>2
    <3>2. todo' # <<>> /\ Head(todo').msg = Sweep!Back => Sweep!Taken \/ Sweep!SetAhead(Len(requests))
      <4> SUFFICES ASSUME todo' # <<>>, Head(todo').msg = Sweep!Back
                   PROVE  Sweep!Taken \/ Sweep!SetAhead(Len(requests))
        OBVIOUS
      <4>1. Tail(todo) # <<>> /\ Tail(todo)[1].msg = Sweep!Back BY <1>7, <2>3
      <4>2. 1 \in 1 .. Len(Tail(todo)) BY <1>6, <4>1, QueueTail
      <4>3. 2 \in DOMAIN todo /\ todo[2].msg = Sweep!Back BY <1>6, <4>1, <4>2
      <4>4. todo[1].msg = Sweep!SetMsg BY <2>1, <4>3
      <4> QED BY <2>1, <4>4
    <3> QED
      BY <1>3, <2>3, <3>1, <3>2
         DEF Sweep!IInv, Sweep!WriteComesFirst, Sweep!Taken, Sweep!SetAhead, Sweep!NoCall, Client!NoCall
  <2> QED BY <2>2, <2>3
<1> QED BY <1>3, <1>4, <1>5, <1>8, <1>9, SweepIsClient DEF Sweep!IInv

\* What is listed or printed of an answer was in it.
LEMMA SweepGets ==
  ASSUME Sweep!IInv, Sweep!Got PROVE Sweep!IInv'
<1> DEFINE m == Head(todo).msg
           t == Head(replies).body
           p == Sweep!parse_tlvs(t)
<1>1. /\ todo # <<>> /\ Sweep!Returns /\ todo' = Tail(todo)
      /\ UNCHANGED <<mode, answers, setting, given>>
      /\ IF Head(todo).as = "sort" THEN Sweep!Sorted(m, p)
         ELSE shown' = Append(shown, <<m, Sweep!Lines(p)>>) /\ UNCHANGED <<ok, err>>
  BY DEF Sweep!Got
<1>2. Sweep!Returns => Client!Returns
  BY DEF Sweep!Returns, Client!Returns, Sweep!Matches, Client!Matches, Sweep!NoCall, Client!NoCall
<1>3. Client!IdsAreFresh /\ Client!Queue(ok) /\ Client!Queue(shown) BY SweepIsClient DEF Sweep!IInv
<1>4. /\ wait # Client!NoCall /\ Head(replies) = replies[1] /\ 1 \in DOMAIN replies
      /\ replies[1].txn = wait.txn
  BY <1>1, <1>2, <1>3, ReturnsOwn
<1>5. wait.msg = m /\ <<m, t>> \in given
  BY <1>4 DEF Sweep!IInv, Sweep!AnswersTheCall, Sweep!NoCall, Client!NoCall
<1> HIDE DEF m, t
<1>6. Client!Queue(t)
  <2>1. \A g \in given : Sweep!Queue(g[2]) BY DEF Sweep!IInv
  <2> QED BY <1>5, <2>1, SweepIsClient
<1>7. Client!Queue(p) /\ Sweep!IsPrefix(Sweep!Lines(p), Sweep!Lines(t)) BY <1>6, ParseIsBegin, LinesBegin
<1>8. Client!Queue(Sweep!Lines(p))
  <2>1. DOMAIN p = 1 .. Len(p) /\ Len(p) \in Nat BY <1>7, QueueDomain
  <2> QED BY <2>1 DEF Sweep!Lines, Client!Queue
<1>9. Sweep!ResultOf(p) # <<>> => \E c : Sweep!ResultOf(p) = <<c>> /\ Sweep!HasResult(t, c)
  BY <1>6, ResultIsAnswered
<1> HIDE DEF p
<1> DEFINE l == Sweep!Lines(p)
<1>10. /\ \A i \in DOMAIN ok : \E g \in given : g[1] = ok[i][1] /\ Sweep!HasResult(g[2], 0)
       /\ \A e \in err : \E g \in given : g[1] = e[2] /\ Sweep!HasResult(g[2], e[1])
       /\ \A i \in DOMAIN shown : Sweep!Queue(shown[i][2])
       /\ \A i \in DOMAIN shown : shown[i][2] # Sweep!Timeout =>
            \E g \in given : g[1] = shown[i][1] /\ Sweep!IsPrefix(shown[i][2], Sweep!Lines(g[2]))
  BY DEF Sweep!IInv, Sweep!ListedIsAnswered
<1>11. CASE Head(todo).as = "sort"
  <2> DEFINE r == Sweep!ResultOf(p)
             z == <<m, Len(p)>>
  <2>1. /\ ok' = IF r = <<0>> THEN Append(ok, z) ELSE ok
        /\ err' = err \union (IF r \in {<<>>, <<0>>} THEN {} ELSE {<<r[1], m>>})
        /\ UNCHANGED shown
    BY <1>1, <1>11 DEF Sweep!Sorted
  <2>2. z[1] = m OBVIOUS
  <2> HIDE DEF r, z
  <2>3. r # <<>> => \E c : r = <<c>> /\ r[1] = c /\ Sweep!HasResult(t, c) BY <1>9 DEF r
  <2>4. r = <<0>> => Sweep!HasResult(t, 0)
    <3> SUFFICES ASSUME r = << 0 >> PROVE Sweep!HasResult(t, 0) OBVIOUS
    <3>1. r # <<>> /\ r[1] = 0 OBVIOUS
    <3> QED BY <2>3, <3>1
  <2>5. Client!Queue(ok') /\ \A i \in DOMAIN ok' : \E g \in given : g[1] = ok'[i][1] /\ Sweep!HasResult(g[2], 0)
    <3>1. CASE r = <<0>>
      <4>1. /\ Client!Queue(ok') /\ Len(ok') = Len(ok) + 1 /\ Len(ok) \in Nat
            /\ DOMAIN ok' = 1 .. Len(ok) + 1 /\ DOMAIN ok = 1 .. Len(ok)
            /\ \A i \in 1 .. Len(ok) : ok'[i] = ok[i]
            /\ ok'[Len(ok) + 1] = z
        BY <1>3, <2>1, <3>1, QueueAppend, QueueDomain
      <4>2. \A i \in DOMAIN ok' : (i \in DOMAIN ok /\ ok'[i] = ok[i]) \/ ok'[i] = z BY <4>1
      <4>3. \E g \in given : g[1] = z[1] /\ Sweep!HasResult(g[2], 0) BY <1>5, <2>2, <2>4, <3>1
      <4> QED BY <1>10, <4>1, <4>2, <4>3
    <3>2. CASE r # <<0>> BY <1>3, <1>10, <2>1, <3>2
    <3> QED BY <3>1, <3>2
  <2>6. \A e \in err' : \E g \in given : g[1] = e[2] /\ Sweep!HasResult(g[2], e[1])
    <3> SUFFICES ASSUME NEW e \in err', e \notin err
                 PROVE  \E g \in given : g[1] = e[2] /\ Sweep!HasResult(g[2], e[1])
      BY <1>10
    <3>1. r # <<>> /\ e[1] = r[1] /\ e[2] = m BY <2>1
    <3> QED BY <1>5, <2>3, <3>1
  <2>7. Sweep!ListedIsAnswered' BY <1>1, <1>10, <2>1, <2>5, <2>6 DEF Sweep!ListedIsAnswered
  <2> QED BY <1>1, <1>3, <1>10, <2>1, <2>5, <2>7, SweepIsClient, SweepCallEnds
<1>12. CASE Head(todo).as # "sort"
  <2> DEFINE z == <<m, l>>
  <2>1. shown' = Append(shown, z) /\ UNCHANGED <<ok, err>> BY <1>1, <1>12
  <2>2. z[1] = m /\ z[2] = l OBVIOUS
  <2>3. Client!Queue(l) /\ Sweep!IsPrefix(l, Sweep!Lines(t)) BY <1>7, <1>8
  <2> HIDE DEF z, l
  <2>4. /\ Client!Queue(shown') /\ Len(shown') = Len(shown) + 1 /\ Len(shown) \in Nat
        /\ DOMAIN shown' = 1 .. Len(shown) + 1 /\ DOMAIN shown = 1 .. Len(shown)
        /\ \A i \in 1 .. Len(shown) : shown'[i] = shown[i]
        /\ shown'[Len(shown) + 1] = z
    BY <1>3, <2>1, QueueAppend, QueueDomain
  <2>5. \A i \in DOMAIN shown' : (i \in DOMAIN shown /\ shown'[i] = shown[i]) \/ shown'[i] = z BY <2>4
  <2>6. \A i \in DOMAIN shown' : Sweep!Queue(shown'[i][2]) BY <1>10, <2>2, <2>3, <2>5, SweepIsClient
  <2>7. \E g \in given : g[1] = z[1] /\ Sweep!IsPrefix(z[2], Sweep!Lines(g[2]))
    BY <1>5, <2>2, <2>3
  <2>8. Sweep!ListedIsAnswered' BY <1>1, <1>10, <2>1, <2>5, <2>7 DEF Sweep!ListedIsAnswered, Sweep!Timeout
  <2> QED BY <1>1, <1>3, <2>1, <2>4, <2>6, <2>8, SweepIsClient, SweepCallEnds
<1> QED BY <1>11, <1>12

\* Nothing is listed of a call without an answer.
LEMMA SweepMisses ==
  ASSUME Sweep!IInv, Sweep!Missed PROVE Sweep!IInv'
<1> DEFINE z == <<Head(todo).msg, Sweep!Timeout>>
<1>1. /\ todo # <<>> /\ Sweep!TimesOut /\ (todo' = Tail(todo) \/ todo' = <<>>)
      /\ UNCHANGED <<mode, answers, setting, given, ok, err>>
      /\ shown' = shown \/ shown' = Append(shown, z)
  BY DEF Sweep!Missed
<1>2. z[2] = Sweep!Timeout OBVIOUS
<1>3. Sweep!Queue(Sweep!Timeout) BY DEF Sweep!Queue, Sweep!Timeout
<1> HIDE DEF z
<1>4. Client!Queue(shown) /\ \A i \in DOMAIN shown : Sweep!Queue(shown[i][2])
  BY SweepIsClient DEF Sweep!IInv
<1>5. /\ Client!Queue(shown')
      /\ \A i \in DOMAIN shown' : (i \in DOMAIN shown /\ shown'[i] = shown[i]) \/ shown'[i] = z
  <2>1. CASE shown' = shown BY <1>4, <2>1
  <2>2. CASE shown' = Append(shown, z)
    <3>1. /\ Client!Queue(shown') /\ Len(shown') = Len(shown) + 1 /\ Len(shown) \in Nat
          /\ DOMAIN shown' = 1 .. Len(shown) + 1 /\ DOMAIN shown = 1 .. Len(shown)
          /\ \A i \in 1 .. Len(shown) : shown'[i] = shown[i]
          /\ shown'[Len(shown) + 1] = z
      BY <1>4, <2>2, QueueAppend, QueueDomain
    <3> QED BY <3>1
  <2> QED BY <1>1, <2>1, <2>2
<1>6. Sweep!ListedIsAnswered'
  BY <1>1, <1>2, <1>5 DEF Sweep!IInv, Sweep!ListedIsAnswered
<1>7. \A i \in DOMAIN shown' : Sweep!Queue(shown'[i][2]) BY <1>2, <1>3, <1>4, <1>5
<1>8. Sweep!Queue(ok)' BY <1>1 DEF Sweep!IInv, Sweep!Queue
<1> QED BY <1>1, <1>5, <1>6, <1>7, <1>8, SweepIsClient, SweepCallEnds

\* What the modem answers to a message.
SweepAnswer(q) ==
  CASE mode = "set" /\ q.msg = Sweep!SetMsg -> <<Sweep!Result(IF setting = Sweep!Refused THEN 94 ELSE 0)>>
    [] mode = "set" /\ q.msg = Sweep!Back -> <<Sweep!Result(0)>> \o (IF setting = Sweep!Refused THEN <<>>
         ELSE <<[tag |-> 16, size |-> Width, value |-> setting]>>)
    [] OTHER -> answers[q.msg]

LEMMA SweepAnswerIs ==
  ASSUME Sweep!IInv, NEW q, q.msg \in Sweep!Known(mode), ConstantsAssumption
  PROVE  /\ Client!Queue(SweepAnswer(q))
         /\ mode = "set" /\ q.msg = Sweep!Back /\ setting # Sweep!Refused =>
              /\ Len(SweepAnswer(q)) = 2 /\ SweepAnswer(q)[1] = Sweep!Result(0)
              /\ SweepAnswer(q)[2] = [tag |-> 16, size |-> Width, value |-> setting]
<1>0. Sweep!SetMsg # Sweep!Back BY DEF Sweep!SetMsg, Sweep!Back
<1>1. ASSUME NEW a PROVE Client!Queue(<<a>>) /\ Len(<<a>>) = 1 /\ <<a>>[1] = a BY DEF Client!Queue
<1>2. CASE mode = "set" /\ q.msg = Sweep!SetMsg
  <2>1. SweepAnswer(q) = <<Sweep!Result(IF setting = Sweep!Refused THEN 94 ELSE 0)>>
    BY <1>0, <1>2, Zenon DEF SweepAnswer
  <2>2. Client!Queue(SweepAnswer(q)) BY <1>1, <2>1
  <2> QED BY <1>0, <1>2, <2>2
<1>3. CASE mode = "set" /\ q.msg = Sweep!Back
  <2> DEFINE x == SweepAnswer(q)
             f == <<Sweep!Result(0)>>
             e == <<>>
             v == [tag |-> 16, size |-> Width, value |-> setting]
             w == <<v>>
  <2>1. x = Then(f, IF setting = Sweep!Refused THEN e ELSE w) BY <1>0, <1>3 DEF SweepAnswer, Then
  <2>2. Client!Queue(f) /\ Len(f) = 1 /\ f[1] = Sweep!Result(0) BY <1>1
  <2>3. Client!Queue(e) BY DEF Client!Queue
  <2>4. Client!Queue(w) /\ Len(w) = 1 /\ w[1] = v BY <1>1
  <2> HIDE DEF x, f, e, v, w
  <2>5. CASE setting = Sweep!Refused
    <3>1. Client!Queue(f) /\ Len(f) = 1 /\ Client!Queue(e) /\ x = Then(f, e) BY <2>1, <2>2, <2>3, <2>5
    <3>2. Client!Queue(x) BY ONLY <3>1, QueueAfterOne
    <3> QED BY <2>5, <3>2 DEF x
  <2>6. CASE setting # Sweep!Refused
    <3>1. Client!Queue(f) /\ Len(f) = 1 /\ Client!Queue(w) /\ x = Then(f, w) BY <2>1, <2>2, <2>4, <2>6
    <3>2. Client!Queue(x) /\ x = [i \in 1 .. 1 + Len(w) |-> IF i = 1 THEN f[1] ELSE w[i - 1]]
      BY ONLY <3>1, QueueAfterOne
    <3>3. DOMAIN x = 1 .. 2 /\ x[1] = f[1] /\ x[2] = w[1] BY <2>4, <3>2
    <3>4. Len(x) = 2
      <4>1. DOMAIN x = 1 .. Len(x) /\ Len(x) \in Nat BY <3>2, QueueDomain
      <4> QED BY <3>3, <4>1
    <3> QED BY <2>2, <2>4, <3>2, <3>3, <3>4 DEF x, v
  <2> QED BY <2>5, <2>6
<1>4. CASE mode # "set" \/ q.msg \notin {Sweep!SetMsg, Sweep!Back}
  <2>1. SweepAnswer(q) = answers[q.msg] BY <1>4 DEF SweepAnswer
  <2>2. q.msg \in Sweep!ToSet(MsgIds) \union {Sweep!EnableGet} BY <1>4 DEF Sweep!Known
  <2>3. answers[q.msg] \in Answers \union {<<Sweep!Result(0)>>} BY <2>2 DEF Sweep!IInv
  <2>4. \A a \in Answers : Client!Queue(a) BY SeqIsQueue DEF ConstantsAssumption
  <2> QED BY <1>1, <1>4, <2>1, <2>3, <2>4
<1> QED BY <1>2, <1>3, <1>4

\* The modem answers in order: a value that was to be set before another was
\* asked for is set by then.
LEMMA SweepAnswers ==
  ASSUME Sweep!IInv, Sweep!Modem, ConstantsAssumption PROVE Sweep!IInv'
<1> DEFINE q == Head(requests)
<1>0. PICK n : n = Len(requests) OBVIOUS
<1>1. PICK t : t = SweepAnswer(q) OBVIOUS
<1>2. /\ Client!ModemAnswers(t) /\ given' = given \union {<<q.msg, t>>}
      /\ setting' = IF mode = "set" /\ q.msg = Sweep!SetMsg /\ setting # Sweep!Refused THEN q.arg ELSE setting
      /\ UNCHANGED <<mode, todo, ok, err, shown, answers>>
  BY <1>1 DEF Sweep!Modem, SweepAnswer, Sweep!ModemAnswers, Client!ModemAnswers
<1>3. Client!IdsAreFresh BY SweepIsClient DEF Sweep!IInv
<1>4. /\ Client!IdsAreFresh' /\ UNCHANGED <<txn, wait>>
      /\ q = requests[1] /\ 1 \in DOMAIN requests
      /\ requests[1].txn = wait.txn => requests[1] = wait
      /\ DOMAIN requests' = 1 .. n - 1 /\ DOMAIN requests = 1 .. n
      /\ Len(requests') = n - 1 /\ n \in Nat
      /\ \A i \in DOMAIN requests' : requests'[i] = requests[i + 1]
      /\ \A i \in DOMAIN replies' :
           \/ \E j \in DOMAIN replies : replies'[i] = replies[j]
           \/ replies'[i] = [txn |-> requests[1].txn, msg |-> requests[1].msg, body |-> t]
  BY <1>0, <1>2, <1>3, AnswerKeeps
<1> HIDE DEF q
<1>5. q.msg \in Sweep!Known(mode) BY <1>4 DEF Sweep!IInv
<1>6. /\ Client!Queue(t)
      /\ mode = "set" /\ q.msg = Sweep!Back /\ setting # Sweep!Refused =>
              /\ Len(t) = 2 /\ t[1] = Sweep!Result(0)
              /\ t[2] = [tag |-> 16, size |-> Width, value |-> setting]
  BY <1>1, <1>5, SweepAnswerIs
<1>7. \A g \in given' : Sweep!Queue(g[2])
  BY <1>2, <1>6, SweepIsClient DEF Sweep!IInv
<1>8. \A i \in DOMAIN replies' : Sweep!AnswersTheCall(replies[i])'
  <2> SUFFICES ASSUME NEW i \in DOMAIN replies' PROVE Sweep!AnswersTheCall(replies[i])' OBVIOUS
  <2>1. CASE \E j \in DOMAIN replies : replies'[i] = replies[j]
    BY <1>2, <1>4, <2>1 DEF Sweep!IInv, Sweep!AnswersTheCall
  <2>2. CASE replies'[i] = [txn |-> requests[1].txn, msg |-> requests[1].msg, body |-> t]
    BY <1>2, <1>4, <2>2 DEF Sweep!AnswersTheCall
  <2> QED BY <1>4, <2>1, <2>2
<1>9. Sweep!WriteComesFirst'
  <2> SUFFICES ASSUME mode = "set" PROVE Sweep!WriteComesFirst' BY <1>2 DEF Sweep!WriteComesFirst
  <2>1. /\ \A i \in DOMAIN todo : /\ todo[i].msg = Sweep!SetMsg => todo[i].arg = Val
                                  /\ todo[i].msg = Sweep!Back => i = 1 \/ todo[i - 1].msg = Sweep!SetMsg
        /\ \A i \in 1 .. n : /\ requests[i].msg = Sweep!SetMsg => requests[i].arg = Val
                             /\ requests[i].msg = Sweep!Back => Sweep!Taken \/ Sweep!SetAhead(i - 1)
        /\ \/ wait # Sweep!NoCall /\ wait.msg = Sweep!SetMsg
           \/ todo # <<>> /\ Head(todo).msg = Sweep!Back
           => Sweep!Taken \/ Sweep!SetAhead(n)
        /\ \A g \in given : g[1] = Sweep!Back /\ setting # Sweep!Refused =>
             /\ Len(g[2]) = 2 /\ g[2][1] = Sweep!Result(0)
             /\ g[2][2] = [tag |-> 16, size |-> Width, value |-> Val]
    BY <1>0, <1>4 DEF Sweep!IInv, Sweep!WriteComesFirst
  <2>2. q.msg = Sweep!SetMsg => q.arg = Val BY <1>4, <2>1
  <2>3. (Sweep!Taken \/ q.msg = Sweep!SetMsg) => Sweep!Taken'
    BY <1>2, <2>2 DEF Sweep!Taken
  <2>4. ASSUME NEW i \in 1 .. n, Sweep!Taken \/ Sweep!SetAhead(i)
        PROVE  Sweep!Taken' \/ \E j \in 1 .. i - 1 : requests'[j].msg = Sweep!SetMsg
    <3> SUFFICES ASSUME ~Sweep!Taken, q.msg # Sweep!SetMsg
                 PROVE  \E j \in 1 .. i - 1 : requests'[j].msg = Sweep!SetMsg
      BY <2>3
    <3>1. PICK j \in 1 .. i : requests[j].msg = Sweep!SetMsg BY <2>4 DEF Sweep!SetAhead
    <3>2. j # 1 BY <1>4, <3>1
    <3>3. j - 1 \in 1 .. i - 1 /\ j - 1 \in 1 .. n - 1 /\ (j - 1) + 1 = j BY <1>4, <2>4, <3>1, <3>2
    <3>4. requests'[j - 1] = requests[j] BY <1>4, <3>3
    <3> QED BY <3>1, <3>3, <3>4
  <2>5. Sweep!SetAhead(0) = FALSE BY DEF Sweep!SetAhead
  <2>6. q.msg = Sweep!Back => Sweep!Taken BY <1>4, <2>1, <2>5
  <2>7. \A i \in 1 .. n - 1 : /\ requests'[i].msg = Sweep!SetMsg => requests'[i].arg = Val
                              /\ requests'[i].msg = Sweep!Back =>
                                   Sweep!Taken' \/ \E j \in 1 .. i - 1 : requests'[j].msg = Sweep!SetMsg
    <3> SUFFICES ASSUME NEW i \in 1 .. n - 1
                 PROVE  /\ requests'[i].msg = Sweep!SetMsg => requests'[i].arg = Val
                        /\ requests'[i].msg = Sweep!Back =>
                             Sweep!Taken' \/ \E j \in 1 .. i - 1 : requests'[j].msg = Sweep!SetMsg
      OBVIOUS
    <3>1. requests'[i] = requests[i + 1] /\ i + 1 \in 1 .. n /\ (i + 1) - 1 = i /\ i \in 1 .. n BY <1>4
    <3> QED BY <2>1, <2>4, <3>1
  <2>8. \/ wait # Sweep!NoCall /\ wait.msg = Sweep!SetMsg
        \/ todo # <<>> /\ Head(todo).msg = Sweep!Back
        => Sweep!Taken' \/ \E j \in 1 .. n - 1 : requests'[j].msg = Sweep!SetMsg
    BY <1>4, <2>1, <2>4
  <2>9. \A g \in given' : g[1] = Sweep!Back /\ setting' # Sweep!Refused =>
          /\ Len(g[2]) = 2 /\ g[2][1] = Sweep!Result(0)
          /\ g[2][2] = [tag |-> 16, size |-> Width, value |-> Val]
    <3> SUFFICES ASSUME NEW g \in given', g[1] = Sweep!Back, setting' # Sweep!Refused
                 PROVE  /\ Len(g[2]) = 2 /\ g[2][1] = Sweep!Result(0)
                        /\ g[2][2] = [tag |-> 16, size |-> Width, value |-> Val]
      OBVIOUS
    <3>1. setting # Sweep!Refused BY <1>2
    <3>2. CASE g \in given BY <2>1, <3>1, <3>2
    <3>3. CASE g = <<q.msg, t>>
      <4>1. q.msg = Sweep!Back /\ g[2] = t BY <3>3
      <4>2. setting = Val BY <2>6, <3>1, <4>1 DEF Sweep!Taken
      <4> QED BY <1>6, <3>1, <4>1, <4>2
    <3> QED BY <1>2, <3>2, <3>3
  <2>10. Len(requests') = n - 1 /\ DOMAIN requests' = 1 .. n - 1 BY <1>4
  <2> QED BY <1>2, <1>4, <2>1, <2>7, <2>8, <2>9, <2>10 DEF Sweep!WriteComesFirst, Sweep!SetAhead
<1>10. Sweep!ListedIsAnswered' BY <1>2 DEF Sweep!IInv, Sweep!ListedIsAnswered
<1>11. \A i \in DOMAIN requests' : requests'[i].msg \in Sweep!Known(mode) BY <1>4 DEF Sweep!IInv
<1> QED BY <1>2, <1>4, <1>7, <1>8, <1>9, <1>10, <1>11, SweepIsClient DEF Sweep!IInv

LEMMA SweepSteps ==
  ASSUME Sweep!IInv, [Sweep!Next]_(Sweep!vars), ConstantsAssumption PROVE Sweep!IInv'
<1>1. CASE UNCHANGED Sweep!vars
  BY <1>1 DEF Sweep!vars, Sweep!sweepvars, Sweep!client, Sweep!IInv, Sweep!IdsAreFresh, Sweep!ClientTypeOK,
              Sweep!Queue, Sweep!AnswersTheCall, Sweep!WriteComesFirst, Sweep!Taken, Sweep!SetAhead,
              Sweep!ListedIsAnswered
<1> QED
  BY <1>1, SweepAsks, SweepDiscards, SweepGets, SweepMisses, SweepAnswers DEF Sweep!Next

\* Whatever "set" prints of the read-back is what was written.
LEMMA SweepReadsBack == ASSUME Sweep!IInv PROVE Sweep!ReadBackIsSet
<1> SUFFICES ASSUME mode = "set", setting # Sweep!Refused, Width \in {1, 2, 4},
                    NEW i \in DOMAIN shown, shown[i][1] = Sweep!Back, shown[i][2] # Sweep!Timeout,
                    NEW j \in DOMAIN shown[i][2], shown[i][2][j][1] = 16
             PROVE  shown[i][2][j][3] = Val
  BY DEF Sweep!ReadBackIsSet
<1> DEFINE s == shown[i][2]
<1>1. Client!Queue(s) BY SweepIsClient DEF Sweep!IInv
<1>2. PICK g \in given : g[1] = Sweep!Back /\ Sweep!IsPrefix(s, Sweep!Lines(g[2]))
  BY DEF Sweep!IInv, Sweep!ListedIsAnswered
<1> DEFINE t == g[2]
           l == Sweep!Lines(t)
<1>3. /\ Client!Queue(t) /\ Len(t) = 2 /\ t[1] = Sweep!Result(0)
      /\ t[2] = [tag |-> 16, size |-> Width, value |-> Val]
  BY <1>2, SweepIsClient DEF Sweep!IInv, Sweep!WriteComesFirst
<1> HIDE DEF t
<1>4. DOMAIN t = 1 .. 2 BY <1>3, QueueDomain
<1>5. Client!Queue(l) /\ Len(l) = 2 /\ l[1][1] # 16 /\ l[2][3] = Val
  BY <1>3, <1>4 DEF Sweep!Lines, Client!Queue, Sweep!IsResult, Sweep!Result, Sweep!QMI_RESULT_TLV
<1>6. Len(s) <= Len(l) /\ SubSeq(s, 1, Len(s)) = SubSeq(l, 1, Len(s))
  BY <1>2 DEF Sweep!IsPrefix, t
<1> HIDE DEF l
<1>7. DOMAIN s = 1 .. Len(s) /\ Len(s) \in Nat BY <1>1, QueueDomain
<1>8. /\ SubSeq(s, 1, Len(s)) = [x \in 1 .. Len(s) |-> s[x]]
      /\ SubSeq(l, 1, Len(s)) = [x \in 1 .. Len(s) |-> l[x]]
  BY <1>1, <1>5, <1>6, <1>7, QueueBegin
<1>9. s[j] = l[j] BY <1>6, <1>7, <1>8
<1>10. j = 1 \/ j = 2 BY <1>5, <1>6, <1>7
<1> QED BY <1>5, <1>9, <1>10

-----------------------------------------------------------------------------
(* Client!: no more than the pending call is under way.                    *)

LEMMA InStepSends ==
  ASSUME Client!InStep, Client!IdsAreFresh, NEW m, NEW a, Client!Send(m, a), ConstantsAssumption
  PROVE  /\ Client!InStep' /\ (Client!Undisturbed' <=> Client!Undisturbed)
         /\ Client!Undisturbed' => Client!IsAsked' /\ ~Client!IsAnswered'
<1>1. /\ wait = Client!NoCall /\ wait' # Client!NoCall /\ UNCHANGED <<replies, timeouts, lost>>
      /\ requests' = Append(requests, wait')
  BY SendKeeps DEF Client!Send
<1>2. Client!Undisturbed' <=> Client!Undisturbed BY <1>1 DEF Client!Undisturbed
<1>3. ASSUME Client!Undisturbed PROVE requests = <<>> /\ replies = <<>>
  BY <1>1, <1>3 DEF Client!InStep, Client!IsAsked, Client!IsAnswered
<1>4. Client!Undisturbed => Client!IsAsked' /\ ~Client!IsAnswered'
  BY <1>1, <1>3 DEF Client!IsAsked, Client!IsAnswered
<1> QED BY <1>1, <1>2, <1>4 DEF Client!InStep

LEMMA InStepEnds ==
  ASSUME Client!InStep, Client!IdsAreFresh, Client!Returns \/ Client!TimesOut
  PROVE  /\ Client!InStep' /\ wait' = Client!NoCall
         /\ Client!Undisturbed' =>
             Client!Undisturbed /\ Client!Returns /\ ~Client!TimesOut /\ Client!IsAnswered
<1>0. ASSUME Client!TimesOut PROVE ~Client!Undisturbed'
  <2>1. /\ wait # Client!NoCall /\ wait' = Client!NoCall /\ UNCHANGED <<requests, replies, lost>>
        /\ IF Client!Underway THEN timeouts' = timeouts + 1 ELSE timeouts' = timeouts
    BY <1>0 DEF Client!TimesOut
  <2>2. Client!Undisturbed => Client!Underway
    <3>1. ASSUME Client!IsAsked PROVE Client!Underway
      <4>1. 1 \in DOMAIN requests /\ requests[1] = wait BY <3>1 DEF Client!IsAsked
      <4> QED BY <4>1 DEF Client!Underway
    <3>2. ASSUME Client!IsAnswered PROVE Client!Underway
      <4>1. 1 \in DOMAIN replies /\ replies[1].txn = wait.txn
        BY <3>2 DEF Client!IsAnswered, Client!Matches
      <4> QED BY <4>1 DEF Client!Underway
    <3> QED BY <2>1, <3>1, <3>2 DEF Client!InStep
  <2> QED BY <2>1, <2>2 DEF Client!Undisturbed, Client!InStep
<1>1. CASE Client!Returns
  <2>1. wait' = Client!NoCall /\ replies' = Tail(replies) /\ UNCHANGED <<requests, timeouts, lost>>
        /\ wait # Client!NoCall /\ replies # <<>>
    BY <1>1 DEF Client!Returns
  <2>2. Client!Undisturbed' <=> Client!Undisturbed BY <2>1 DEF Client!Undisturbed
  <2>3. Client!Undisturbed => Client!IsAnswered BY <2>1 DEF Client!InStep, Client!IsAsked
  <2>4. ASSUME Client!IsAnswered PROVE requests' = <<>> /\ replies' = <<>>
    <3>1. PICK r : r = Head(replies) OBVIOUS
    <3>2. replies = <<r>> BY <2>4, <3>1 DEF Client!IsAnswered
    <3>3. Tail(<<r>>) = <<>> OBVIOUS
    <3> QED BY <2>1, <2>4, <3>2, <3>3 DEF Client!IsAnswered
  <2> QED BY <1>0, <1>1, <2>1, <2>2, <2>3, <2>4 DEF Client!InStep
<1>2. CASE Client!TimesOut
  <2>1. /\ wait # Client!NoCall /\ wait' = Client!NoCall /\ UNCHANGED <<requests, replies, lost>>
        /\ IF Client!Underway THEN timeouts' = timeouts + 1 ELSE timeouts' = timeouts
    BY <1>2 DEF Client!TimesOut
  <2>4. timeouts' \in Nat /\ lost' \in Nat BY <2>1 DEF Client!InStep
  <2> QED BY <1>0, <1>2, <2>1, <2>4 DEF Client!InStep
<1> QED BY <1>1, <1>2

LEMMA InStepDiscards ==
  ASSUME Client!InStep, Client!Discard
  PROVE  Client!InStep' /\ ~Client!Undisturbed /\ ~Client!Undisturbed'
<1>1. /\ wait # Client!NoCall /\ replies # <<>> /\ ~Client!Matches(Head(replies))
      /\ UNCHANGED <<timeouts, lost>>
  BY DEF Client!Discard
<1>2. ~Client!Undisturbed BY <1>1 DEF Client!InStep, Client!IsAsked, Client!IsAnswered
<1> QED BY <1>1, <1>2 DEF Client!InStep, Client!Undisturbed

LEMMA InStepAnswers ==
  ASSUME Client!InStep, NEW body, Client!ModemAnswers(body)
  PROVE  /\ Client!InStep' /\ wait' = wait
         /\ Client!Undisturbed' =>
              /\ Client!Undisturbed /\ Client!IsAsked /\ ~Client!IsAnswered /\ Head(requests) = wait
              /\ Client!IsAnswered' /\ Head(replies') = [txn |-> wait.txn, msg |-> wait.msg, body |-> body]
<1> DEFINE q == Head(requests)
           r == [txn |-> q.txn, msg |-> q.msg, body |-> body]
<1>1. /\ requests # <<>> /\ requests' = Tail(requests) /\ UNCHANGED <<wait, timeouts>>
      /\ \/ replies' = Append(replies, r) /\ lost' = lost
         \/ lost' = lost + 1
  BY DEF Client!ModemAnswers
<1>2. timeouts' \in Nat /\ lost' \in Nat BY <1>1 DEF Client!InStep
<1>3. SUFFICES ASSUME Client!Undisturbed'
      PROVE  /\ Client!Undisturbed /\ Client!IsAsked /\ ~Client!IsAnswered /\ q = wait
             /\ Client!IsAnswered' /\ Head(replies') = [txn |-> wait.txn, msg |-> wait.msg, body |-> body]
  BY <1>1, <1>2 DEF Client!InStep
<1>4. Client!Undisturbed /\ replies' = Append(replies, r)
  BY <1>1, <1>3 DEF Client!Undisturbed, Client!InStep
<1>5. Client!IsAsked BY <1>1, <1>4 DEF Client!InStep, Client!IsAnswered
<1>6. q = wait /\ requests' = <<>> /\ replies' = <<r>> /\ requests # <<>>
  BY <1>1, <1>4, <1>5 DEF Client!IsAsked
<1>7. Head(replies') = [txn |-> wait.txn, msg |-> wait.msg, body |-> body] BY <1>6
<1>8. Client!IsAnswered'
  BY <1>1, <1>5, <1>6, <1>7 DEF Client!IsAnswered, Client!IsAsked, Client!Matches
<1>9. ~Client!IsAnswered BY <1>6 DEF Client!IsAnswered
<1> QED BY <1>4, <1>5, <1>6, <1>7, <1>8, <1>9

\* The programs instantiate the client under names of their own.
LEMMA SettingInStep ==
  /\ Setting!InStep <=> Client!InStep
  /\ Setting!InStep' <=> Client!InStep'
  /\ Setting!IsAsked <=> Client!IsAsked
  /\ Setting!IsAnswered <=> Client!IsAnswered
  /\ Setting!IsAnswered' <=> Client!IsAnswered'
  /\ Setting!Undisturbed <=> Client!Undisturbed
  /\ Setting!Undisturbed' <=> Client!Undisturbed'
  /\ Setting!NoCall = Client!NoCall
  /\ Setting!IdsAreFresh => Client!IdsAreFresh
  /\ Setting!Returns => Client!Returns
  /\ Setting!TimesOut => Client!TimesOut
  /\ Setting!Discard => Client!Discard
BY DEF Setting!InStep, Client!InStep, Setting!IsAsked, Client!IsAsked, Setting!IsAnswered, Client!IsAnswered,
       Setting!Undisturbed, Client!Undisturbed, Setting!NoCall, Client!NoCall, Setting!Matches, Client!Matches,
       Setting!IdsAreFresh, Client!IdsAreFresh, Setting!ClientTypeOK, Client!ClientTypeOK, Setting!Queue, Client!Queue,
       Setting!Returns, Client!Returns, Setting!TimesOut, Client!TimesOut, Setting!Underway, Client!Underway,
       Setting!Discard, Client!Discard

LEMMA BindInStep ==
  /\ Bind!InStep <=> Client!InStep
  /\ Bind!InStep' <=> Client!InStep'
  /\ Bind!IsAsked <=> Client!IsAsked
  /\ Bind!IsAnswered <=> Client!IsAnswered
  /\ Bind!IsAnswered' <=> Client!IsAnswered'
  /\ Bind!Undisturbed <=> Client!Undisturbed
  /\ Bind!Undisturbed' <=> Client!Undisturbed'
  /\ Bind!NoCall = Client!NoCall
  /\ Bind!IdsAreFresh => Client!IdsAreFresh
  /\ Bind!Returns => Client!Returns
  /\ Bind!TimesOut => Client!TimesOut
  /\ Bind!Discard => Client!Discard
BY DEF Bind!InStep, Client!InStep, Bind!IsAsked, Client!IsAsked, Bind!IsAnswered, Client!IsAnswered,
       Bind!Undisturbed, Client!Undisturbed, Bind!NoCall, Client!NoCall, Bind!Matches, Client!Matches,
       Bind!IdsAreFresh, Client!IdsAreFresh, Bind!ClientTypeOK, Client!ClientTypeOK, Bind!Queue, Client!Queue,
       Bind!Returns, Client!Returns, Bind!TimesOut, Client!TimesOut, Bind!Underway, Client!Underway,
       Bind!Discard, Client!Discard

LEMMA SweepInStep ==
  /\ Sweep!InStep <=> Client!InStep
  /\ Sweep!InStep' <=> Client!InStep'
  /\ Sweep!IsAsked <=> Client!IsAsked
  /\ Sweep!IsAnswered <=> Client!IsAnswered
  /\ Sweep!IsAnswered' <=> Client!IsAnswered'
  /\ Sweep!Undisturbed <=> Client!Undisturbed
  /\ Sweep!Undisturbed' <=> Client!Undisturbed'
  /\ Sweep!NoCall = Client!NoCall
  /\ Sweep!IdsAreFresh => Client!IdsAreFresh
  /\ Sweep!Returns => Client!Returns
  /\ Sweep!TimesOut => Client!TimesOut
  /\ Sweep!Discard => Client!Discard
BY DEF Sweep!InStep, Client!InStep, Sweep!IsAsked, Client!IsAsked, Sweep!IsAnswered, Client!IsAnswered,
       Sweep!Undisturbed, Client!Undisturbed, Sweep!NoCall, Client!NoCall, Sweep!Matches, Client!Matches,
       Sweep!IdsAreFresh, Client!IdsAreFresh, Sweep!ClientTypeOK, Client!ClientTypeOK, Sweep!Queue, Client!Queue,
       Sweep!Returns, Client!Returns, Sweep!TimesOut, Client!TimesOut, Sweep!Underway, Client!Underway,
       Sweep!Discard, Client!Discard

-----------------------------------------------------------------------------
(* Setting!: a change is seen.                                             *)

LEMMA SettingTimelyStart == ASSUME Setting!Init PROVE Setting!InTime
BY DEF Setting!Init, Setting!ClientInit, Setting!InTime, Setting!InStep, Setting!Want

LEMMA SettingTimely ==
  ASSUME Setting!IInv, Setting!InTime, [Setting!Next]_(Setting!vars), ConstantsAssumption
  PROVE  Setting!InTime'
<1>0. Client!IdsAreFresh /\ Client!InStep /\ (wait # Client!NoCall <=> wait # Setting!NoCall)
  BY SettingInStep DEF Setting!IInv, Setting!InTime
<1>a. Setting!GoOn => pc' \in {"set", "final"} /\ (verdict' = verdict \/ (pc' = "final" /\ verdict' = "unchanged"))
  BY DEF Setting!GoOn
<1> USE DEF Setting!settingvars
<1>1. CASE Setting!Get \/ Setting!Set
  <2>1. Client!Send("get", 0) \/ Client!Send("set", k)
    BY <1>1 DEF Setting!Get, Setting!Set, Setting!Send, Client!Send, Setting!NoCall, Client!NoCall
  <2>2. /\ Client!InStep' /\ (Client!Undisturbed' <=> Client!Undisturbed)
        /\ Client!Undisturbed' => ~Client!IsAnswered' /\ ~Client!IsAnswered
    <3>1. wait = Client!NoCall BY <2>1 DEF Client!Send
    <3> QED BY <1>0, <2>1, <3>1, InStepSends DEF Client!IsAnswered
  <2>3. UNCHANGED <<program, pc, verdict, setting>> BY <1>1 DEF Setting!Get, Setting!Set
  <2> QED BY <2>2, <2>3, SettingInStep DEF Setting!InTime, Setting!Want
<1>2. CASE Setting!GotGet \/ Setting!GotSet
  <2>1. Client!Returns \/ Client!TimesOut BY <1>2, SettingInStep DEF Setting!GotGet, Setting!GotSet
  <2>2. /\ Client!InStep' /\ ~Client!IsAnswered'
        /\ Client!Undisturbed' =>
             Client!Undisturbed /\ Client!Returns /\ ~Client!TimesOut /\ Client!IsAnswered
    BY <1>0, <2>1, InStepEnds DEF Client!IsAnswered
  <2>3. UNCHANGED <<program, setting>> BY <1>2 DEF Setting!GotGet, Setting!GotSet
  <2>4. Client!Undisturbed' => ~Setting!TimesOut BY <2>2, SettingInStep
  <2>5. CASE Setting!GotGet
    <3>1. pc \in {"before", "after", "final"} /\ Setting!Shown(seen') BY <2>5 DEF Setting!GotGet
    <3>2. CASE pc = "before"
      <4>1. (pc' = "end" /\ verdict' = "already") \/ (pc' = "set" /\ verdict' = verdict)
        <5>1. program \in {"setprovvolte", "smsdomain"} BY DEF Setting!IInv
        <5> QED BY <3>1, <3>2, <5>1 DEF Setting!Shown
      <4> QED BY <2>2, <2>3, <3>2, <4>1, SettingInStep DEF Setting!InTime, Setting!Want
    <3>3. CASE pc = "after"
      <4>1. IF seen' = "wanted" THEN pc' = "end" /\ verdict' = "accepted" ELSE Setting!GoOn
        BY <3>1, <3>3 DEF Setting!Shown, Setting!Want
      <4>2. verdict # "unchanged" BY <3>3 DEF Setting!InTime
      <4>3. Client!Undisturbed' => seen' = setting
        BY <2>2, <2>4, <2>5, <3>3, SettingInStep DEF Setting!GotGet, Setting!InTime
      <4>4. Client!Undisturbed' => setting \in {"old", "wanted"}
        BY <2>2, SettingInStep DEF Setting!InTime, Setting!Want
      <4> QED BY <1>a, <2>2, <2>3, <4>1, <4>2, <4>3, <4>4, SettingInStep DEF Setting!InTime, Setting!Want
    <3>4. CASE pc = "final"
      <4>1. pc' = "end" /\ verdict' = verdict BY <3>1, <3>4 DEF Setting!Shown
      <4> QED BY <2>2, <2>3, <3>4, <4>1, SettingInStep DEF Setting!InTime, Setting!Want
    <3> QED BY <3>1, <3>2, <3>3, <3>4
  <2>6. CASE Setting!GotSet
    <3>1. pc = "set" /\ verdict # "unchanged" BY <2>6 DEF Setting!GotSet, Setting!InTime
    <3>2. (pc' = "after" /\ verdict' = verdict) \/ Setting!GoOn BY <2>6 DEF Setting!GotSet
    <3>3. Client!Undisturbed' =>
            IF Head(replies).body.result.ok THEN pc' = "after" ELSE Setting!GoOn
      BY <2>4, <2>6, SettingInStep DEF Setting!GotSet
    <3> QED BY <1>a, <2>2, <2>3, <3>1, <3>2, <3>3, SettingInStep DEF Setting!InTime, Setting!Want
  <2> QED BY <1>2, <2>5, <2>6
<1>3. CASE Setting!Discards
  <2>1. Client!InStep' /\ ~Client!Undisturbed' BY <1>0, <1>3, SettingInStep, InStepDiscards DEF Setting!Discards
  <2>2. UNCHANGED <<pc, verdict>> BY <1>3 DEF Setting!Discards
  <2> QED BY <2>1, <2>2, SettingInStep DEF Setting!InTime
<1>4. CASE Setting!ModemGets
  <2>1. Client!ModemAnswers([value |-> setting]) /\ Head(requests).msg = "get" /\ UNCHANGED Setting!settingvars
    BY <1>4 DEF Setting!ModemGets, Setting!ModemAnswers, Client!ModemAnswers
  <2>2. /\ Client!InStep'
        /\ Client!Undisturbed' =>
              /\ Client!Undisturbed /\ ~Client!IsAnswered /\ Head(requests) = wait /\ wait # Client!NoCall
              /\ Client!IsAnswered' /\ Head(replies').body = [value |-> setting]
    BY <1>0, <2>1, InStepAnswers DEF Client!IsAsked
  <2>3. Client!Undisturbed' => pc # "set"
    BY <1>0, <2>1, <2>2 DEF Setting!IInv, Setting!CallIsAwaited
  <2> QED BY <2>1, <2>2, <2>3, SettingInStep DEF Setting!InTime
<1>5. CASE Setting!ModemSets
  <2> DEFINE a == Setting!Attempts(program)[Head(requests).arg]
             does == IF a[2] = width THEN meaning[a[1]] ELSE "refused"
             b == [result |-> [of |-> Head(requests).arg, ok |-> does # "refused"]]
  <2>1. Client!ModemAnswers(b) /\ Head(requests).msg = "set"
    BY <1>5 DEF Setting!ModemSets, Setting!ModemAnswers, Client!ModemAnswers
  <2>2. /\ UNCHANGED <<program, pc, verdict>>
        /\ setting' = IF does = "setting" THEN "wanted" ELSE setting
    BY <1>5 DEF Setting!ModemSets, Setting!Want
  <2>3. does = "setting" => b.result.ok OBVIOUS
  <2> HIDE DEF b, does
  <2>4. /\ Client!InStep'
        /\ Client!Undisturbed' =>
              /\ Client!Undisturbed /\ ~Client!IsAnswered /\ Head(requests) = wait /\ wait # Client!NoCall
              /\ Client!IsAnswered' /\ Head(replies').body = b
    BY <1>0, <2>1, InStepAnswers DEF Client!IsAsked
  <2>5. Client!Undisturbed' => pc = "set"
    BY <1>0, <2>1, <2>4 DEF Setting!IInv, Setting!CallIsAwaited
  <2> QED BY <2>2, <2>3, <2>4, <2>5, SettingInStep DEF Setting!InTime, Setting!Want
<1>6. CASE UNCHANGED Setting!vars
  BY <1>6 DEF Setting!vars, Setting!client, Setting!InTime, Setting!InStep, Setting!Undisturbed,
              Setting!IsAsked, Setting!IsAnswered, Setting!Matches
<1> QED BY <1>1, <1>2, <1>3, <1>4, <1>5, <1>6 DEF Setting!Next

LEMMA SettingSaid == ASSUME Setting!InTime PROVE Setting!UnchangedWhenSaid
BY DEF Setting!InTime, Setting!UnchangedWhenSaid

-----------------------------------------------------------------------------
(* Bind!: the setter that binds is found.                                  *)

\* The two selectors of a setter follow each other.
Asks(t, i, setter, selector) ==
  i \in 1 .. Len(t) /\ t[i].phase = "C" /\ t[i].msg = setter /\ t[i].payload = selector

IsPlan(t) ==
  /\ Client!Queue(t)
  /\ \A i \in 1 .. Len(t) :
       /\ Bind!IsProbe(t[i])
       /\ Asks(t, i, t[i].msg, "u32") => Asks(t, i + 1, t[i].msg, "u8")

IsLed(t) == \A i \in 1 .. Len(t) : Asks(t, i, t[i].msg, "u8") => Asks(t, i - 1, t[i].msg, "u32")

LEMMA PlansJoin ==
  ASSUME NEW s, IsPlan(s), IsLed(s), NEW t, IsPlan(t), IsLed(t)
  PROVE  IsPlan(s \o t) /\ IsLed(s \o t)
<1>1. /\ Client!Queue(s \o t) /\ Len(s \o t) = Len(s) + Len(t) /\ Len(s) \in Nat /\ Len(t) \in Nat
      /\ \A i \in 1 .. Len(s) + Len(t) :
           (s \o t)[i] = IF i <= Len(s) THEN s[i] ELSE t[i - Len(s)]
  BY QueueConcat, QueueDomain DEF IsPlan
<1> DEFINE u == s \o t
<1>2. ASSUME NEW i \in 1 .. Len(s) + Len(t)
      PROVE  /\ Bind!IsProbe(u[i])
             /\ Asks(u, i, u[i].msg, "u32") => Asks(u, i + 1, u[i].msg, "u8")
             /\ Asks(u, i, u[i].msg, "u8") => Asks(u, i - 1, u[i].msg, "u32")
  <2> HIDE DEF u
  <2>0. /\ Len(u) = Len(s) + Len(t)
        /\ \A j \in 1 .. Len(s) + Len(t) : u[j] = IF j <= Len(s) THEN s[j] ELSE t[j - Len(s)]
    BY <1>1 DEF u
  <2>1. CASE i <= Len(s)
    <3>1. i \in 1 .. Len(s) /\ u[i] = s[i] BY <1>1, <2>0, <2>1
    <3>2. Bind!IsProbe(u[i]) BY <3>1 DEF IsPlan
    <3>3. ASSUME Asks(u, i, u[i].msg, "u32") PROVE Asks(u, i + 1, u[i].msg, "u8")
      <4>1. Asks(s, i + 1, s[i].msg, "u8") BY <3>1, <3>3 DEF IsPlan, Asks
      <4> QED BY <1>1, <2>0, <3>1, <4>1 DEF Asks
    <3>4. ASSUME Asks(u, i, u[i].msg, "u8") PROVE Asks(u, i - 1, u[i].msg, "u32")
      <4>1. Asks(s, i - 1, s[i].msg, "u32") BY <3>1, <3>4 DEF IsLed, Asks
      <4> QED BY <1>1, <2>0, <3>1, <4>1 DEF Asks
    <3> QED BY <3>2, <3>3, <3>4
  <2>2. CASE i > Len(s)
    <3> DEFINE j == i - Len(s)
    <3>1. j \in 1 .. Len(t) /\ u[i] = t[j] BY <1>1, <2>0, <2>2
    <3>2. Bind!IsProbe(u[i]) BY <3>1 DEF IsPlan
    <3>3. ASSUME Asks(u, i, u[i].msg, "u32") PROVE Asks(u, i + 1, u[i].msg, "u8")
      <4>1. Asks(t, j + 1, t[j].msg, "u8") BY <3>1, <3>3 DEF IsPlan, Asks
      <4> QED BY <1>1, <2>0, <2>2, <3>1, <4>1 DEF Asks
    <3>4. ASSUME Asks(u, i, u[i].msg, "u8") PROVE Asks(u, i - 1, u[i].msg, "u32")
      <4>1. Asks(t, j - 1, t[j].msg, "u32") BY <3>1, <3>4 DEF IsLed, Asks
      <4> QED BY <1>1, <2>0, <2>2, <3>1, <4>1 DEF Asks
    <3> QED BY <3>2, <3>3, <3>4
  <2> QED BY <1>1, <2>1, <2>2
<1> QED BY <1>1, <1>2 DEF IsPlan, IsLed

LEMMA PlanOf ==
  ASSUME NEW part, part # "C", NEW ids, Client!Queue(ids), NEW payload,
         \A i \in 1 .. Len(ids) : Bind!IsProbe([phase |-> part, msg |-> ids[i], payload |-> payload])
  PROVE  IsPlan(Bind!Probes(part, ids, payload)) /\ IsLed(Bind!Probes(part, ids, payload))
<1> DEFINE t == Bind!Probes(part, ids, payload)
<1>1. t = [i \in 1 .. Len(ids) |-> [phase |-> part, msg |-> ids[i], payload |-> payload]] /\ Len(ids) \in Nat
  BY QueueDomain DEF Bind!Probes
<1> HIDE DEF t
<1>2. Client!Queue(t) /\ Len(t) = Len(ids) BY <1>1 DEF Client!Queue
<1>3. \A i \in 1 .. Len(t) : t[i].phase # "C" /\ Bind!IsProbe(t[i]) BY <1>1, <1>2
<1>4. IsPlan(t) /\ IsLed(t) BY <1>2, <1>3 DEF IsPlan, IsLed, Asks
<1> QED BY <1>4 DEF t

LEMMA Halves ==
  ASSUME NEW n \in Nat, NEW i \in 1 .. 2 * n
  PROVE  /\ (i + 1) \div 2 \in 1 .. n
         /\ i % 2 = 1 => i + 1 \in 1 .. 2 * n /\ (i + 2) \div 2 = (i + 1) \div 2 /\ (i + 1) % 2 = 0
         /\ i % 2 # 1 => i - 1 \in 1 .. 2 * n /\ i \div 2 = (i + 1) \div 2 /\ (i - 1) % 2 = 1
<1> DEFINE half == i \div 2
<1>1. half \in Nat /\ (i = 2 * half \/ i = 2 * half + 1) OBVIOUS
<1> HIDE DEF half
<1>2. CASE i = 2 * half
  <2>1. i % 2 = 0 /\ (i + 1) \div 2 = half /\ i \div 2 = half /\ (i - 1) % 2 = 1 BY <1>1, <1>2
  <2> QED BY <1>1, <1>2, <2>1
<1>3. CASE i = 2 * half + 1
  <2>1. i % 2 = 1 /\ (i + 1) \div 2 = half + 1 /\ (i + 2) \div 2 = half + 1 /\ (i + 1) % 2 = 0 BY <1>1, <1>3
  <2> QED BY <1>1, <1>3, <2>1
<1> QED BY <1>1, <1>2, <1>3

LEMMA PlanOfHunt == ASSUME ConstantsAssumption PROVE IsPlan(Bind!Hunt) /\ IsLed(Bind!Hunt)
<1> DEFINE n == Len(Setters)
           t == Bind!Hunt
<1>1. n \in Nat /\ Setters = [i \in 1 .. n |-> Setters[i]] BY DEF ConstantsAssumption, IsSequence
<1>2. t = [i \in 1 .. 2 * n |-> [phase |-> "C", msg |-> Setters[(i + 1) \div 2],
                                 payload |-> IF i % 2 = 1 THEN "u32" ELSE "u8"]]
  BY DEF Bind!Hunt
<1>3. \A i \in 1 .. 2 * n : (i + 1) \div 2 \in 1 .. n BY <1>1, Halves
<1>4. \A i \in 1 .. n : Setters[i] \in Bind!ToSet(Setters)
  BY <1>1 DEF Bind!ToSet
<1> HIDE DEF t, n
<1>5. Client!Queue(t) /\ Len(t) = 2 * n BY <1>1, <1>2 DEF Client!Queue
<1>6. ASSUME NEW i \in 1 .. 2 * n
      PROVE  /\ Bind!IsProbe(t[i])
             /\ Asks(t, i, t[i].msg, "u32") => Asks(t, i + 1, t[i].msg, "u8")
             /\ Asks(t, i, t[i].msg, "u8") => Asks(t, i - 1, t[i].msg, "u32")
  <2>1. /\ t[i].phase = "C" /\ t[i].msg = Setters[(i + 1) \div 2]
        /\ t[i].payload = IF i % 2 = 1 THEN "u32" ELSE "u8"
    BY <1>2
  <2>2. Bind!IsProbe(t[i]) BY <1>3, <1>4, <2>1 DEF Bind!IsProbe, Bind!Selectors
  <2>3. CASE i % 2 = 1
    <3>1. i + 1 \in 1 .. 2 * n /\ (i + 2) \div 2 = (i + 1) \div 2 /\ (i + 1) % 2 # 1
      BY <1>1, <2>3, Halves
    <3>2. /\ t[i + 1].phase = "C" /\ t[i + 1].payload = "u8"
          /\ t[i + 1].msg = Setters[(i + 2) \div 2]
      <4>1. (i + 1) + 1 = i + 2 OBVIOUS
      <4> QED BY <1>2, <3>1, <4>1
    <3> QED BY <1>5, <2>1, <2>2, <2>3, <3>1, <3>2 DEF Asks
  <2>4. CASE i % 2 # 1
    <3>1. i - 1 \in 1 .. 2 * n /\ i \div 2 = (i + 1) \div 2 /\ (i - 1) % 2 = 1
      BY <1>1, <2>4, Halves
    <3>2. /\ t[i - 1].phase = "C" /\ t[i - 1].payload = "u32"
          /\ t[i - 1].msg = Setters[i \div 2]
      <4>1. (i - 1) + 1 = i OBVIOUS
      <4> QED BY <1>2, <3>1, <4>1
    <3> QED BY <1>5, <2>1, <2>2, <2>4, <3>1, <3>2 DEF Asks
  <2> QED BY <2>3, <2>4
<1>7. IsPlan(t) /\ IsLed(t) BY <1>5, <1>6 DEF IsPlan, IsLed
<1> QED BY <1>7 DEF t

LEMMA BindTimelyStart == ASSUME Bind!Init, ConstantsAssumption PROVE Bind!InTime
<1>1. IsPlan(todo) /\ IsLed(todo)
  <2>1. Client!Queue(Internal) /\ \A i \in 1 .. Len(Internal) : Internal[i] \in Bind!ToSet(Internal)
    BY DEF ConstantsAssumption, IsSequence, Client!Queue, Bind!ToSet
  <2> DEFINE p1 == Bind!Probes("baseline", <<Bind!EnableGet>>, "empty")
             p2 == Bind!Probes("A", Internal, "u32")
             p3 == Bind!Probes("B", Internal, "u8")
             p4 == Bind!Hunt
             p5 == Bind!Probes("D", <<"0x28">>, "empty")
  <2>2. IsPlan(p1) /\ IsLed(p1) BY PlanOf DEF Client!Queue, Bind!IsProbe
  <2>3. IsPlan(p2) /\ IsLed(p2) BY <2>1, PlanOf DEF Bind!IsProbe
  <2>4. IsPlan(p3) /\ IsLed(p3) BY <2>1, PlanOf DEF Bind!IsProbe
  <2>5. IsPlan(p4) /\ IsLed(p4) BY PlanOfHunt
  <2>6. IsPlan(p5) /\ IsLed(p5) BY PlanOf DEF Client!Queue, Bind!IsProbe
  <2>7. todo = p1 \o p2 \o p3 \o p4 \o p5 BY DEF Bind!Init, Bind!Bindprobe
  <2> HIDE DEF p1, p2, p3, p4, p5
  <2>8. IsPlan(p1 \o p2) /\ IsLed(p1 \o p2) BY <2>2, <2>3, PlansJoin
  <2>9. IsPlan(p1 \o p2 \o p3) /\ IsLed(p1 \o p2 \o p3) BY <2>4, <2>8, PlansJoin
  <2>10. IsPlan(p1 \o p2 \o p3 \o p4) /\ IsLed(p1 \o p2 \o p3 \o p4) BY <2>5, <2>9, PlansJoin
  <2> QED BY <2>6, <2>7, <2>10, PlansJoin
<1>2. Bind!InStep /\ ~Bind!IsAnswered
  BY DEF Bind!Init, Bind!ClientInit, Bind!InStep, Bind!IsAnswered
<1>3. /\ hits = <<>> /\ answered = {} /\ bound = FALSE
      /\ binder \in {Bind!Nobody} \union (Bind!ToSet(Setters) \X Bind!Selectors)
  BY DEF Bind!Init
<1>4. Bind!Queue(todo) /\ Bind!Queue(hits) /\ DOMAIN todo = 1 .. Len(todo)
  BY <1>1, <1>3, QueueDomain DEF IsPlan, Client!Queue, Bind!Queue
<1>5. \A i, m, s : Bind!IsHunt(i, m, s) <=> Asks(todo, i, m, s)
  BY <1>4 DEF Bind!IsHunt, Asks
<1>6. \A i \in 1 .. Len(todo) : todo[i].phase = "C" => todo[i].payload \in Bind!Selectors
  BY <1>1 DEF IsPlan, Bind!IsProbe
<1>7. ~Bind!BinderAnswered BY <1>3 DEF Bind!BinderAnswered
<1>8. \A i \in 1 .. Len(todo) :
        /\ Bind!IsProbe(todo[i])
        /\ Bind!IsHunt(i, todo[i].msg, "u32") => Bind!IsHunt(i + 1, todo[i].msg, "u8")
        /\ Bind!IsHunt(i, todo[i].msg, "u8") => Bind!IsHunt(i - 1, todo[i].msg, "u32")
  BY <1>1, <1>5 DEF IsPlan, IsLed
<1>9. \A i \in DOMAIN todo : Bind!IsHunt(i, binder[1], "u8") => Bind!IsHunt(i - 1, binder[1], "u32")
  BY <1>4, <1>8 DEF Bind!IsHunt
<1> QED BY <1>2, <1>3, <1>4, <1>7, <1>8, <1>9 DEF Bind!InTime

\* u is t with d other probes in the place of its first e.
Rest(t, u, d, e) ==
  /\ Len(u) = Len(t) + d - e
  /\ \A i \in 1 .. Len(u) : i > d => i + e - d \in 1 .. Len(t) /\ u[i] = t[i + e - d]

Checks(t, p) == t[1] = [phase |-> "check", msg |-> "0x90", payload |-> p.msg] /\ 1 \in 1 .. Len(t)

LEMMA RestOfOne ==
  ASSUME NEW t, NEW u, Len(t) \in Nat, Len(u) = Len(t) - 1,
         \A i \in 1 .. Len(u) : i + 1 \in 1 .. Len(t) /\ u[i] = t[i + 1]
  PROVE  Rest(t, u, 0, 1)
<1>1. Len(u) = Len(t) + 0 - 1 OBVIOUS
<1>2. ASSUME NEW i \in 1 .. Len(u) PROVE i + 1 - 0 \in 1 .. Len(t) /\ u[i] = t[i + 1 - 0]
  <2>1. i + 1 - 0 = i + 1 OBVIOUS
  <2> QED BY <2>1
<1> QED BY <1>1, <1>2 DEF Rest

Before(c, r) == <<c>> \o r

LEMMA Prepend ==
  ASSUME NEW c, NEW r, Client!Queue(r), NEW x, x = Before(c, r)
  PROVE  /\ Client!Queue(x) /\ Len(x) = 1 + Len(r) /\ Len(r) \in Nat /\ x[1] = c
         /\ \A i \in 1 .. Len(x) : i > 1 => i - 1 \in 1 .. Len(r) /\ x[i] = r[i - 1]
<1>1. Client!Queue(<<c>>) /\ Len(<<c>>) = 1 /\ <<c>>[1] = c BY DEF Client!Queue
<1>2. /\ Client!Queue(x) /\ Len(x) = 1 + Len(r) /\ Len(r) \in Nat
      /\ \A i \in 1 .. 1 + Len(r) : x[i] = IF i <= 1 THEN <<c>>[i] ELSE r[i - 1]
  BY <1>1, QueueConcat, QueueDomain DEF Before
<1>3. x[1] = c BY <1>1, <1>2
<1>4. ASSUME NEW i \in 1 .. Len(x), i > 1 PROVE i - 1 \in 1 .. Len(r) /\ x[i] = r[i - 1]
  BY <1>2, <1>4
<1> QED BY <1>2, <1>3, <1>4

LEMMA TailOfTail ==
  ASSUME NEW s, Client!Queue(s), s # <<>>, Tail(s) # <<>>
  PROVE  /\ Client!Queue(Tail(Tail(s))) /\ Len(Tail(Tail(s))) = Len(s) - 2
         /\ \A i \in 1 .. Len(Tail(Tail(s))) : i + 2 \in 1 .. Len(s) /\ Tail(Tail(s))[i] = s[i + 2]
<1> DEFINE t == Tail(s)
           w == Tail(t)
<1>1. /\ Client!Queue(t) /\ t # <<>> /\ Len(t) = Len(s) - 1 /\ Len(s) \in Nat
      /\ \A i \in 1 .. Len(t) : i + 1 \in 1 .. Len(s) /\ t[i] = s[i + 1]
  BY QueueTail, QueueDomain
<1> HIDE DEF t
<1>2. /\ Client!Queue(w) /\ Len(w) = Len(t) - 1
      /\ \A i \in 1 .. Len(w) : i + 1 \in 1 .. Len(t) /\ w[i] = t[i + 1]
  BY <1>1, QueueTail
<1> HIDE DEF w
<1>3. ASSUME NEW i \in 1 .. Len(w) PROVE i + 2 \in 1 .. Len(s) /\ w[i] = s[i + 2]
  <2>1. i + 1 \in 1 .. Len(t) /\ w[i] = t[i + 1] BY <1>2
  <2>2. (i + 1) + 1 \in 1 .. Len(s) /\ w[i] = s[(i + 1) + 1] BY <1>1, <2>1
  <2>3. (i + 1) + 1 = i + 2 OBVIOUS
  <2> QED BY <2>2, <2>3
<1>4. Len(w) = Len(s) - 2 BY <1>1, <1>2
<1> QED BY <1>2, <1>3, <1>4 DEF w, t

\* r is t without its first e.
Skips(t, r, e) ==
  /\ Client!Queue(r) /\ Len(r) = Len(t) - e
  /\ \A i \in 1 .. Len(r) : i + e \in 1 .. Len(t) /\ r[i] = t[i + e]

LEMMA RestOfMore ==
  ASSUME NEW t, Len(t) \in Nat, NEW c, NEW r, NEW x, x = Before(c, r), NEW e, e \in 1 .. 2, Skips(t, r, e)
  PROVE  Rest(t, x, 1, e) /\ Client!Queue(x) /\ x[1] = c /\ 1 \in 1 .. Len(x)
<1>1. /\ Client!Queue(x) /\ Len(x) = 1 + Len(r) /\ Len(r) \in Nat /\ x[1] = c
      /\ \A i \in 1 .. Len(x) : i > 1 => i - 1 \in 1 .. Len(r) /\ x[i] = r[i - 1]
  BY Prepend DEF Skips
<1>2. Len(x) = Len(t) + 1 - e /\ 1 \in 1 .. Len(x) BY <1>1 DEF Skips
<1>3. ASSUME NEW i \in 1 .. Len(x), i > 1 PROVE i + e - 1 \in 1 .. Len(t) /\ x[i] = t[i + e - 1]
  <2>1. (i - 1) + e \in 1 .. Len(t) /\ x[i] = t[(i - 1) + e] BY <1>1, <1>3 DEF Skips
  <2>2. (i - 1) + e = i + e - 1 OBVIOUS
  <2> QED BY <2>1, <2>2
<1> QED BY <1>1, <1>2, <1>3 DEF Rest

\* The next probes, once one has been asked.
LEMMA PlanGoesOn ==
  ASSUME Bind!InTime, todo # <<>>, NEW took \in BOOLEAN, took => Head(todo).phase = "C",
         todo' = IF took THEN Bind!Accepted(Head(todo)) ELSE Tail(todo)
  PROVE  /\ Client!Queue(todo') /\ Head(todo) = todo[1] /\ 1 \in 1 .. Len(todo) /\ Len(todo) \in Nat
         /\ IF took
              THEN /\ Checks(todo', todo[1])
                   /\ \/ Rest(todo, todo', 1, 1) /\ todo[1].payload # "u32"
                      \/ /\ Rest(todo, todo', 1, 2) /\ Asks(todo, 1, todo[1].msg, "u32")
                         /\ Asks(todo, 2, todo[1].msg, "u8")
              ELSE Rest(todo, todo', 0, 1)
<1> DEFINE p == Head(todo)
           c == [phase |-> "check", msg |-> "0x90", payload |-> p.msg]
<1>1. Client!Queue(todo) /\ DOMAIN todo = 1 .. Len(todo) /\ Len(todo) \in Nat
  BY QueueDomain DEF Bind!InTime, Bind!Queue, Client!Queue
<1>2. /\ Client!Queue(Tail(todo)) /\ Len(Tail(todo)) = Len(todo) - 1 /\ p = todo[1] /\ 1 \in 1 .. Len(todo)
      /\ \A i \in 1 .. Len(Tail(todo)) : i + 1 \in 1 .. Len(todo) /\ Tail(todo)[i] = todo[i + 1]
  BY <1>1, QueueTail
<1>3. CASE ~took
  <2> DEFINE r == Tail(todo)
  <2>1. todo' = r BY <1>3
  <2> HIDE DEF r
  <2>2. /\ Client!Queue(todo') /\ Len(todo') = Len(todo) - 1
        /\ \A i \in 1 .. Len(todo') : i + 1 \in 1 .. Len(todo) /\ todo'[i] = todo[i + 1]
    BY <1>2, <2>1 DEF r
  <2>5. Rest(todo, todo', 0, 1) BY <1>1, <2>2, RestOfOne
  <2> QED BY <1>1, <1>2, <1>3, <2>2, <2>5
<1>4. CASE took
  <2>1. todo' = <<c>> \o Bind!NextSetter(p) BY <1>4 DEF Bind!Accepted, Bind!EnableGet
  <2>2. CASE p.payload = "u32"
    <3>1. Asks(todo, 1, todo[1].msg, "u32") /\ Asks(todo, 2, todo[1].msg, "u8")
      <4>1. Bind!IsHunt(1, todo[1].msg, "u32") BY <1>1, <1>2, <1>4, <2>2 DEF Bind!IsHunt
      <4>2. Bind!IsHunt(1 + 1, todo[1].msg, "u8") BY <1>1, <1>2, <4>1 DEF Bind!InTime
      <4> QED BY <1>1, <4>1, <4>2 DEF Bind!IsHunt, Asks
    <3>2. Tail(todo) # <<>>
      <4>1. 2 \in 1 .. Len(todo) BY <3>1 DEF Asks
      <4>2. Len(Tail(todo)) # 0 BY <1>1, <1>2, <4>1
      <4>3. Len(<<>>) = 0 OBVIOUS
      <4> QED BY <4>2, <4>3
    <3> DEFINE r == Tail(Tail(todo))
    <3>3. Skips(todo, r, 2) BY <1>1, <3>2, TailOfTail DEF Skips
    <3>4. todo' = Before(c, r) BY <2>1, <2>2 DEF Bind!NextSetter, Before
    <3> HIDE DEF r
    <3>5. Rest(todo, todo', 1, 2) /\ Client!Queue(todo') /\ todo'[1] = c /\ 1 \in 1 .. Len(todo')
      <4> HIDE DEF c
      <4>1. 2 \in 1 .. 2 OBVIOUS
      <4> QED BY <1>1, <3>3, <3>4, <4>1, RestOfMore
    <3> QED BY <1>1, <1>2, <1>4, <3>1, <3>5 DEF Checks
  <2>3. CASE p.payload # "u32"
    <3> DEFINE r == Tail(todo)
    <3>1. todo' = Before(c, r) BY <2>1, <2>3 DEF Bind!NextSetter, Before
    <3>2. Skips(todo, r, 1) BY <1>2 DEF Skips
    <3> HIDE DEF r
    <3>3. Rest(todo, todo', 1, 1) /\ Client!Queue(todo') /\ todo'[1] = c /\ 1 \in 1 .. Len(todo')
      <4> HIDE DEF c
      <4>1. 1 \in 1 .. 2 OBVIOUS
      <4> QED BY <1>1, <3>1, <3>2, <4>1, RestOfMore
    <3> QED BY <1>1, <1>2, <1>4, <2>3, <3>3 DEF Checks
  <2> QED BY <2>2, <2>3
<1> QED BY <1>3, <1>4

\* What stays, whatever comes late, when a probe has been asked.
LEMMA BindPlanKeeps ==
  ASSUME Bind!InTime, Bind!Got
  PROVE  /\ Bind!Queue(todo') /\ Bind!Queue(hits')
         /\ \A i \in DOMAIN todo' :
              /\ Bind!IsProbe(todo[i])'
              /\ Bind!IsHunt(i, todo[i].msg, "u32")' => Bind!IsHunt(i + 1, todo[i].msg, "u8")'
         /\ binder # Bind!Nobody /\ ~Bind!HeadBinds /\ binder[2] = "u32"
            /\ (\A i \in DOMAIN todo : Bind!IsHunt(i, binder[1], "u8") => Bind!IsHunt(i - 1, binder[1], "u32"))
            => \A i \in DOMAIN todo' : Bind!IsHunt(i, binder[1], "u8")' => Bind!IsHunt(i - 1, binder[1], "u32")'
<1>0. /\ UNCHANGED binder /\ todo # <<>>
      /\ \E took \in BOOLEAN :
           /\ took => Head(todo).phase = "C"
           /\ todo' = IF took THEN Bind!Accepted(Head(todo)) ELSE Tail(todo)
  <2>1. CASE Bind!Returns /\ Bind!Took(Head(todo), Head(replies).body)
    <3> DEFINE took == Head(todo).phase = "C" /\ Head(replies).body
    <3>1. took \in BOOLEAN /\ (took => Head(todo).phase = "C") OBVIOUS
    <3>2. todo' = IF took THEN Bind!Accepted(Head(todo)) ELSE Tail(todo) BY <2>1 DEF Bind!Took
    <3> QED BY <3>1, <3>2 DEF Bind!Got
  <2>2. CASE Bind!TimesOut /\ Bind!Took(Head(todo), FALSE)
    BY <2>2 DEF Bind!Took, Bind!Got
  <2> QED BY <2>1, <2>2 DEF Bind!Got
<1>1. PICK took \in BOOLEAN :
        /\ took => Head(todo).phase = "C"
        /\ todo' = IF took THEN Bind!Accepted(Head(todo)) ELSE Tail(todo)
  BY <1>0
<1>2. /\ Client!Queue(todo') /\ Head(todo) = todo[1] /\ 1 \in 1 .. Len(todo) /\ Len(todo) \in Nat
      /\ IF took
           THEN /\ Checks(todo', todo[1])
                /\ \/ Rest(todo, todo', 1, 1) /\ todo[1].payload # "u32"
                   \/ /\ Rest(todo, todo', 1, 2) /\ Asks(todo, 1, todo[1].msg, "u32")
                      /\ Asks(todo, 2, todo[1].msg, "u8")
           ELSE Rest(todo, todo', 0, 1)
  BY <1>0, <1>1, PlanGoesOn
<1>3. Bind!Queue(hits')
  <2>1. \A x : Bind!Queue(x) <=> Client!Queue(x) BY DEF Bind!Queue, Client!Queue
  <2>2. hits' = hits \/ hits' = Append(hits, Head(todo).payload) BY DEF Bind!Got, Bind!Took
  <2>3. Client!Queue(hits) BY <2>1 DEF Bind!InTime
  <2>4. Client!Queue(Append(hits, Head(todo).payload)) BY <2>3, QueueAppend
  <2>5. Client!Queue(hits') BY <2>2, <2>3, <2>4
  <2> QED BY <2>5 DEF Bind!Queue, Client!Queue
<1>4. Bind!Queue(todo') /\ DOMAIN todo' = 1 .. Len(todo') /\ Len(todo') \in Nat
      /\ DOMAIN todo = 1 .. Len(todo)
  BY <1>2, QueueDomain DEF Bind!InTime, Bind!Queue, Client!Queue
<1>5. /\ \A i, m, s : Bind!IsHunt(i, m, s) <=> Asks(todo, i, m, s)
      /\ \A i, m, s : Bind!IsHunt(i, m, s)' <=> Asks(todo', i, m, s)
  BY <1>4 DEF Bind!IsHunt, Asks
<1>6. PICK d \in 0 .. 1, e \in 1 .. 2 :
        /\ Rest(todo, todo', d, e)
        /\ d = 1 => Checks(todo', todo[1]) /\ todo[1].phase = "C"
        /\ d = 0 => e = 1
        /\ e = 2 => Asks(todo, 1, todo[1].msg, "u32") /\ Asks(todo, 2, todo[1].msg, "u8")
        /\ d = 1 /\ e = 1 => todo[1].payload # "u32"
  <2>1. 0 \in 0 .. 1 /\ 1 \in 0 .. 1 /\ 1 \in 1 .. 2 /\ 2 \in 1 .. 2 OBVIOUS
  <2>2. CASE ~took BY <1>2, <2>1, <2>2
  <2>3. CASE took /\ Rest(todo, todo', 1, 1) BY <1>1, <1>2, <2>1, <2>3
  <2>4. CASE took /\ Rest(todo, todo', 1, 2) BY <1>1, <1>2, <2>1, <2>4
  <2> QED BY <1>2, <2>2, <2>3, <2>4
<1>7. \A i \in 1 .. Len(todo') : i > d => i + e - d \in 1 .. Len(todo) /\ todo'[i] = todo[i + e - d]
  BY <1>6 DEF Rest
<1>8. Len(todo') = Len(todo) + d - e BY <1>6 DEF Rest
<1>9. d = 1 => todo'[1].phase = "check" /\ todo'[1].msg = "0x90" BY <1>6 DEF Checks
<1>10. ASSUME NEW i \in DOMAIN todo'
       PROVE  /\ Bind!IsProbe(todo'[i])
              /\ Asks(todo', i, todo'[i].msg, "u32") => Asks(todo', i + 1, todo'[i].msg, "u8")
  <2>1. CASE i <= d
    <3>1. i = 1 /\ d = 1 BY <1>4, <2>1
    <3> QED BY <1>9, <3>1 DEF Bind!IsProbe, Bind!EnableGet, Asks
  <2>2. CASE i > d
    <3>1. i + e - d \in DOMAIN todo /\ todo'[i] = todo[i + e - d] BY <1>4, <1>7, <2>2
    <3>2. Bind!IsProbe(todo'[i]) BY <3>1 DEF Bind!InTime
    <3>3. ASSUME Asks(todo', i, todo'[i].msg, "u32") PROVE Asks(todo', i + 1, todo'[i].msg, "u8")
      <4>1. Asks(todo, i + e - d, todo[i + e - d].msg, "u32") BY <1>4, <3>1, <3>3 DEF Asks
      <4>2. Asks(todo, (i + e - d) + 1, todo[i + e - d].msg, "u8") BY <1>5, <3>1, <4>1 DEF Bind!InTime
      <4>3. (i + e - d) + 1 \in 1 .. Len(todo) BY <4>2 DEF Asks
      <4>4. i + 1 \in 1 .. Len(todo') /\ i + 1 > d /\ (i + 1) + e - d = (i + e - d) + 1 BY <1>2, <1>4, <1>8, <2>2, <4>3
      <4>5. todo'[i + 1] = todo[(i + e - d) + 1] BY <1>7, <4>4
      <4> QED BY <3>1, <4>2, <4>4, <4>5 DEF Asks
    <3> QED BY <3>2, <3>3
  <2> QED BY <1>4, <2>1, <2>2
<1>11. \A i \in DOMAIN todo' :
         /\ Bind!IsProbe(todo[i])'
         /\ Bind!IsHunt(i, todo[i].msg, "u32")' => Bind!IsHunt(i + 1, todo[i].msg, "u8")'
  <2>1. \A i \in DOMAIN todo' : Bind!IsProbe(todo[i])' <=> Bind!IsProbe(todo'[i]) BY DEF Bind!IsProbe
  <2>2. \A i \in DOMAIN todo' :
          /\ Bind!IsHunt(i, todo[i].msg, "u32")' <=> Asks(todo', i, todo'[i].msg, "u32")
          /\ Bind!IsHunt(i + 1, todo[i].msg, "u8")' <=> Asks(todo', i + 1, todo'[i].msg, "u8")
    BY <1>4 DEF Bind!IsHunt, Asks
  <2> QED BY <1>10, <2>1, <2>2
<1>12. ASSUME binder # Bind!Nobody, ~Bind!HeadBinds, binder[2] = "u32",
              \A i \in DOMAIN todo : Bind!IsHunt(i, binder[1], "u8") => Bind!IsHunt(i - 1, binder[1], "u32"),
              NEW i \in DOMAIN todo', Asks(todo', i, binder[1], "u8")
       PROVE  Asks(todo', i - 1, binder[1], "u32")
  <2>1. i > d BY <1>4, <1>9, <1>12 DEF Asks
  <2>2. i + e - d \in DOMAIN todo /\ todo'[i] = todo[i + e - d] BY <1>4, <1>7, <2>1
  <2>3. Asks(todo, i + e - d, binder[1], "u8") BY <1>4, <1>12, <2>2 DEF Asks
  <2>4. Asks(todo, (i + e - d) - 1, binder[1], "u32") BY <1>5, <1>12, <2>2, <2>3
  <2>5. ~Asks(todo, 1, binder[1], "u32") BY <1>0, <1>5, <1>12 DEF Bind!HeadBinds
  <2>6. (i + e - d) - 1 # 1 BY <2>4, <2>5
  <2>7. (i + e - d) - 1 # 2 \/ e # 2 BY <1>6, <2>4 DEF Asks
  <2>8. i - 1 \in 1 .. Len(todo') /\ i - 1 > d BY <1>2, <1>4, <2>1, <2>2, <2>6, <2>7
  <2>9. todo'[i - 1] = todo[(i - 1) + e - d] BY <1>7, <2>8
  <2>10. (i - 1) + e - d = (i + e - d) - 1 BY <2>8
  <2> QED BY <2>4, <2>8, <2>9, <2>10 DEF Asks
<1> QED BY <1>0, <1>3, <1>4, <1>5, <1>11, <1>12
LEMMA HeadStays ==
  ASSUME NEW s, Client!Queue(s), s # <<>>, NEW x
  PROVE  Append(s, x) # <<>> /\ Head(Append(s, x)) = Head(s)
<1>1. /\ Client!Queue(Append(s, x)) /\ Len(Append(s, x)) = Len(s) + 1 /\ Len(s) > 0
      /\ Head(s) = s[1] /\ 1 \in 1 .. Len(s) /\ Append(s, x)[1] = s[1] /\ Len(s) \in Nat
  BY QueueAppend, QueueTail, QueueDomain
<1> DEFINE t == Append(s, x)
<1>2. Client!Queue(t) /\ t # <<>> BY <1>1
<1> HIDE DEF t
<1>3. Head(t) = t[1] BY <1>2, QueueTail
<1> QED BY <1>1, <1>2, <1>3 DEF t

LEMMA BindTimelyGot ==
  ASSUME Bind!IInv, Bind!InTime, Bind!Got PROVE Bind!InTime'
<1>1. Client!IdsAreFresh /\ Client!InStep /\ (Client!Returns \/ Client!TimesOut)
  BY BindInStep DEF Bind!IInv, Bind!InTime, Bind!Got
<1>2. /\ Bind!InStep' /\ ~Bind!IsAnswered'
      /\ Bind!Undisturbed' => Bind!Undisturbed /\ ~Bind!TimesOut /\ Bind!IsAnswered
  <2>1. /\ Client!InStep' /\ wait' = Client!NoCall
        /\ Client!Undisturbed' =>
             Client!Undisturbed /\ Client!Returns /\ ~Client!TimesOut /\ Client!IsAnswered
    BY <1>1, InStepEnds
  <2>2. ~Client!IsAnswered' BY <2>1 DEF Client!IsAnswered
  <2> QED BY <2>1, <2>2, BindInStep
<1>3. UNCHANGED <<accepts, binder, bound, answered>> /\ todo # <<>> BY DEF Bind!Got
<1>4. Bind!BinderAnswered' <=> Bind!BinderAnswered BY <1>3 DEF Bind!BinderAnswered, Bind!Nobody
<1>5. ASSUME Bind!Undisturbed', binder # Bind!Nobody
      PROVE  IF bound
               THEN \/ hits' # <<>> /\ Head(hits') = binder[1]
                    \/ hits' = <<>> /\ Bind!HeadChecks' /\ Head(todo').payload = binder[1]
               ELSE hits' = <<>> /\ ~Bind!HeadBinds
  <2> DEFINE p == Head(todo)
             b == Head(replies).body
  <2>1. Bind!Took(p, b) BY <1>2, <1>5 DEF Bind!Got
  <2>2. CASE bound /\ hits # <<>> /\ Head(hits) = binder[1]
    <3>1. \A x : hits' = Append(hits, x) => hits' # <<>> /\ Head(hits') = Head(hits)
      <4>1. Client!Queue(hits) BY DEF Bind!InTime, Bind!Queue, Client!Queue
      <4> QED BY <2>2, <4>1, HeadStays
    <3> QED BY <2>1, <2>2, <3>1 DEF Bind!Took
  <2>3. CASE bound /\ hits = <<>> /\ Bind!HeadBinds /\ b = TRUE
    <3>1. p = todo[1] /\ p.phase = "C" /\ p.msg = binder[1]
      <4>1. Client!Queue(todo) BY DEF Bind!InTime, Bind!Queue, Client!Queue
      <4> QED BY <1>3, <2>3, <4>1, QueueTail DEF Bind!HeadBinds, Bind!IsHunt
    <3>2. todo' = Before([phase |-> "check", msg |-> "0x90", payload |-> p.msg], Bind!NextSetter(p))
      BY <2>1, <2>3, <3>1 DEF Bind!Took, Bind!Accepted, Bind!EnableGet, Before
    <3>3. Client!Queue(todo') /\ Checks(todo', todo[1])
      <4>1. todo' = IF TRUE THEN Bind!Accepted(p) ELSE Tail(todo) BY <2>1, <2>3, <3>1 DEF Bind!Took
      <4> QED BY <1>3, <3>1, <4>1, PlanGoesOn
    <3>4. todo' # <<>> /\ Head(todo') = todo'[1]
      BY <3>3 DEF Checks, Client!Queue
    <3>5. Bind!HeadChecks' /\ Head(todo').payload = binder[1]
      BY <3>1, <3>3, <3>4 DEF Checks, Bind!HeadChecks
    <3>6. hits' = hits BY <2>1, <3>1 DEF Bind!Took
    <3> QED BY <2>3, <3>5, <3>6
  <2>4. CASE bound /\ hits = <<>> /\ Bind!HeadChecks /\ p.payload = binder[1]
    <3>1. b = bound BY <1>2, <1>3, <1>5, <2>4 DEF Bind!InTime
    <3>2. hits' = Append(hits, p.payload) BY <2>1, <2>4, <3>1 DEF Bind!Took, Bind!HeadChecks
    <3> QED BY <2>4, <3>2
  <2>5. CASE ~bound
    <3>1. hits = <<>> /\ ~Bind!HeadBinds BY <1>2, <1>3, <1>5, <2>5 DEF Bind!InTime
    <3>2. Bind!HeadChecks => b = bound BY <1>2, <1>3, <1>5 DEF Bind!InTime
    <3>3. hits' = hits BY <1>3, <2>1, <2>5, <3>2 DEF Bind!Took, Bind!HeadChecks
    <3> QED BY <2>5, <3>1, <3>3
  <2> QED BY <1>2, <1>3, <1>5, <2>2, <2>3, <2>4, <2>5 DEF Bind!InTime
<1>6. ASSUME Bind!Undisturbed', binder # Bind!Nobody, ~bound, binder[2] = "u32"
      PROVE  \A i \in DOMAIN todo' : Bind!IsHunt(i, binder[1], "u8")' => Bind!IsHunt(i - 1, binder[1], "u32")'
  BY <1>2, <1>3, <1>5, <1>6, BindPlanKeeps DEF Bind!InTime
<1>7. ASSUME Bind!Undisturbed', binder # Bind!Nobody
      PROVE  Bind!BinderAnswered' => bound'
  BY <1>2, <1>3, <1>4, <1>7 DEF Bind!InTime
<1>8. bound' \in BOOLEAN /\ binder' \in {Bind!Nobody} \union (Bind!ToSet(Setters) \X Bind!Selectors)
  BY <1>3 DEF Bind!InTime
<1> QED BY <1>2, <1>3, <1>5, <1>6, <1>7, <1>8, BindPlanKeeps DEF Bind!InTime

LEMMA BindTimelyModem ==
  ASSUME Bind!IInv, Bind!InTime, Bind!Modem, ConstantsAssumption PROVE Bind!InTime'
<1> DEFINE p == Head(requests).arg
<1>0. Client!IdsAreFresh /\ Client!InStep BY BindInStep DEF Bind!IInv, Bind!InTime
<1>1. PICK b \in BOOLEAN :
        /\ p.msg = Bind!EnableGet => b = bound
        /\ p.phase = "C" => b = (<<p.msg, p.payload>> = binder \/ <<p.msg, p.payload>> \in accepts)
        /\ Client!ModemAnswers(b)
        /\ bound' = (bound \/ <<p.msg, p.payload>> = binder)
        /\ answered' = IF b THEN answered \union {<<p.phase, p.msg>>} ELSE answered
  BY DEF Bind!Modem, Bind!ModemAnswers, Client!ModemAnswers
<1>2. UNCHANGED <<todo, hits, accepts, binder>> BY DEF Bind!Modem
<1>3. /\ Bind!InStep' /\ wait' = wait
      /\ Bind!Undisturbed' =>
              /\ Bind!Undisturbed /\ ~Bind!IsAnswered /\ Head(requests) = wait /\ wait # Bind!NoCall
              /\ Bind!IsAnswered' /\ Head(replies').body = b
  BY <1>0, <1>1, InStepAnswers, BindInStep DEF Client!IsAsked
<1>4. /\ Bind!Queue(todo') /\ Bind!Queue(hits') /\ bound' \in BOOLEAN
      /\ binder' \in {Bind!Nobody} \union (Bind!ToSet(Setters) \X Bind!Selectors)
      /\ \A i \in DOMAIN todo' :
           /\ Bind!IsProbe(todo[i])'
           /\ Bind!IsHunt(i, todo[i].msg, "u32")' => Bind!IsHunt(i + 1, todo[i].msg, "u8")'
  BY <1>1, <1>2 DEF Bind!InTime, Bind!IsProbe, Bind!IsHunt, Bind!Queue
<1> SUFFICES ASSUME Bind!Undisturbed', binder' # Bind!Nobody
             PROVE  /\ Bind!BinderAnswered' => bound'
                    /\ Bind!IsAnswered' /\ Bind!HeadBinds' => bound'
                    /\ Bind!IsAnswered' /\ Bind!HeadChecks' => Head(replies').body = bound'
                    /\ IF bound'
                         THEN \/ hits' # <<>> /\ Head(hits') = binder'[1]
                              \/ hits' = <<>> /\ Bind!IsAnswered' /\ Bind!HeadBinds' /\ Head(replies').body = TRUE
                              \/ hits' = <<>> /\ Bind!HeadChecks' /\ Head(todo').payload = binder'[1]
                         ELSE /\ hits' = <<>>
                              /\ binder'[2] = "u32" =>
                                   \A i \in DOMAIN todo' :
                                     Bind!IsHunt(i, binder[1], "u8")' => Bind!IsHunt(i - 1, binder[1], "u32")'
  BY <1>3, <1>4 DEF Bind!InTime
<1>5. /\ Bind!Undisturbed /\ ~Bind!IsAnswered /\ Head(requests) = wait /\ Bind!IsAnswered'
      /\ Head(replies').body = b /\ todo # <<>> /\ p = Head(todo) /\ binder # Bind!Nobody
  BY <1>2, <1>3 DEF Bind!IInv
<1>6. p = todo[1] /\ 1 \in DOMAIN todo
  <2>1. Client!Queue(todo) BY DEF Bind!InTime, Bind!Queue, Client!Queue
  <2> QED BY <1>5, <2>1, QueueTail, QueueDomain
<1>7. Bind!IsProbe(p) BY <1>6 DEF Bind!InTime
<1> HIDE DEF p
<1>8. /\ binder = <<binder[1], binder[2]>> /\ binder[1] \in Bind!ToSet(Setters)
      /\ binder[2] \in {"u32", "u8"}
  BY <1>5 DEF Bind!InTime, Bind!Selectors
<1>9. binder[1] # "0x90" /\ binder[1] \notin Bind!ToSet(Internal)
  BY <1>8 DEF ConstantsAssumption, Bind!ToSet
<1>10. /\ Bind!HeadBinds' <=> Bind!HeadBinds
       /\ Bind!HeadChecks' <=> Bind!HeadChecks
       /\ \A i, m, s : Bind!IsHunt(i, m, s)' <=> Bind!IsHunt(i, m, s)
       /\ \A m, s : Bind!IsHunt(1, m, s) <=> p.phase = "C" /\ p.msg = m /\ p.payload = s
       /\ Bind!HeadChecks <=> p.phase = "check"
  BY <1>2, <1>5, <1>6 DEF Bind!HeadBinds, Bind!HeadChecks, Bind!IsHunt
<1>11. <<p.msg, p.payload>> = binder => p.phase = "C"
  BY <1>7, <1>8, <1>9 DEF Bind!IsProbe, Bind!EnableGet
<1>12. <<p.msg, p.payload>> = binder => Bind!HeadBinds /\ b = TRUE
  BY <1>1, <1>5, <1>8, <1>10, <1>11 DEF Bind!HeadBinds
<1>13. Bind!HeadBinds => <<p.msg, p.payload>> = binder
  BY <1>8, <1>10 DEF Bind!HeadBinds
<1>14. Bind!HeadChecks => b = bound /\ bound' = bound
  <2>1. ASSUME Bind!HeadChecks PROVE p.msg = "0x90" /\ <<p.msg, p.payload>> # binder
    BY <1>7, <1>8, <1>9, <1>10, <2>1 DEF Bind!IsProbe, Bind!EnableGet
  <2>2. bound \in BOOLEAN BY DEF Bind!InTime
  <2> QED BY <1>1, <2>1, <2>2 DEF Bind!EnableGet
<1>15. Bind!BinderAnswered' => bound'
  <2> SUFFICES ASSUME Bind!BinderAnswered', ~bound, <<p.msg, p.payload>> # binder PROVE FALSE
    BY <1>1
  <2>1. ~Bind!BinderAnswered BY <1>5 DEF Bind!InTime
  <2>2. <<"C", binder[1]>> \in answered' /\ (binder[2] = "u8" => <<binder[1], "u32">> \notin accepts)
    BY <1>2 DEF Bind!BinderAnswered
  <2>3. <<"C", binder[1]>> \notin answered BY <1>5, <2>1, <2>2 DEF Bind!BinderAnswered
  <2>4. b /\ p.phase = "C" /\ p.msg = binder[1] BY <1>1, <2>2, <2>3
  <2>5. p.payload \in {"u32", "u8"} BY <1>7, <2>4 DEF Bind!IsProbe, Bind!Selectors
  <2>6. <<p.msg, p.payload>> \in accepts BY <1>1, <2>4
  <2>7. p.payload # binder[2] BY <1>8, <2>4
  <2>8. p.payload = "u8" /\ binder[2] = "u32" BY <1>8, <2>2, <2>4, <2>5, <2>6, <2>7
  <2>9. Bind!IsHunt(1, binder[1], "u8") BY <1>10, <2>4, <2>8
  <2>10. Bind!IsHunt(1 - 1, binder[1], "u32") BY <1>5, <1>6, <2>8, <2>9 DEF Bind!InTime
  <2>11. 1 - 1 \in DOMAIN todo BY <2>10 DEF Bind!IsHunt
  <2> QED BY <2>11 DEF Bind!InTime, Bind!Queue
<1>16. CASE bound
  <2>1. bound' BY <1>1, <1>16
  <2> QED BY <1>2, <1>5, <1>10, <1>14, <1>15, <1>16, <2>1 DEF Bind!InTime
<1>17. CASE ~bound /\ <<p.msg, p.payload>> = binder
  <2>1. bound' /\ Bind!HeadBinds /\ b = TRUE /\ hits = <<>> BY <1>1, <1>5, <1>12, <1>17 DEF Bind!InTime
  <2>2. ~Bind!HeadChecks BY <1>10, <1>11, <1>17
  <2> QED BY <1>2, <1>5, <1>10, <1>15, <2>1, <2>2
<1>18. CASE ~bound /\ <<p.msg, p.payload>> # binder
  <2>1. ~bound' /\ ~Bind!HeadBinds BY <1>1, <1>13, <1>18
  <2>2. /\ hits = <<>>
        /\ binder[2] = "u32" =>
             \A i \in DOMAIN todo : Bind!IsHunt(i, binder[1], "u8") => Bind!IsHunt(i - 1, binder[1], "u32")
    BY <1>5, <1>18 DEF Bind!InTime
  <2>3. binder'[2] = "u32" =>
             \A i \in DOMAIN todo' : Bind!IsHunt(i, binder[1], "u8")' => Bind!IsHunt(i - 1, binder[1], "u32")'
    BY <1>2, <2>2 DEF Bind!IsHunt
  <2> QED BY <1>2, <1>5, <1>10, <1>14, <1>15, <2>1, <2>2, <2>3
<1> QED BY <1>16, <1>17, <1>18

LEMMA BindTimely ==
  ASSUME Bind!IInv, Bind!InTime, [Bind!Next]_(Bind!vars), ConstantsAssumption
  PROVE  Bind!InTime'
<1>0. Client!IdsAreFresh /\ Client!InStep BY BindInStep DEF Bind!IInv, Bind!InTime
<1>1. CASE /\ UNCHANGED Bind!probevars /\ Bind!InStep'
           /\ Bind!Undisturbed' => Bind!Undisturbed /\ ~Bind!IsAnswered /\ ~Bind!IsAnswered'
  BY <1>1 DEF Bind!probevars, Bind!InTime, Bind!BinderAnswered, Bind!Nobody, Bind!IsProbe, Bind!IsHunt,
              Bind!HeadBinds, Bind!HeadChecks, Bind!Queue, Bind!Selectors
<1>2. CASE Bind!Ask
  <2>1. Client!Send(Head(todo).msg, Head(todo))
    BY <1>2 DEF Bind!Ask, Bind!Send, Client!Send, Bind!NoCall, Client!NoCall
  <2>2. wait = Client!NoCall BY <2>1 DEF Client!Send
  <2>3. /\ Client!InStep' /\ (Client!Undisturbed' <=> Client!Undisturbed) /\ ~Client!IsAnswered
        /\ Client!Undisturbed' => Client!IsAsked' /\ ~Client!IsAnswered'
    BY <1>0, <2>1, <2>2, InStepSends DEF Client!IsAnswered
  <2>4. UNCHANGED Bind!probevars BY <1>2 DEF Bind!Ask
  <2> QED BY <1>1, <2>3, <2>4, BindInStep
<1>3. CASE Bind!Discards
  <2>1. Bind!InStep' /\ ~Bind!Undisturbed' BY <1>0, <1>3, BindInStep, InStepDiscards DEF Bind!Discards
  <2> QED BY <1>3, <2>1 DEF Bind!Discards, Bind!probevars, Bind!InTime, Bind!IsProbe, Bind!IsHunt,
                         Bind!Queue, Bind!Nobody, Bind!Selectors
<1>4. CASE UNCHANGED Bind!vars
  BY <1>4 DEF Bind!vars, Bind!client, Bind!probevars, Bind!InTime, Bind!InStep, Bind!Undisturbed, Bind!IsAsked,
              Bind!IsAnswered, Bind!Matches, Bind!BinderAnswered, Bind!Nobody, Bind!IsProbe, Bind!IsHunt,
              Bind!HeadBinds, Bind!HeadChecks, Bind!Queue, Bind!Selectors
<1> QED BY <1>2, <1>3, <1>4, BindTimelyGot, BindTimelyModem DEF Bind!Next

LEMMA BinderFound == ASSUME Bind!InTime PROVE Bind!BinderIsFound
BY DEF Bind!InTime, Bind!BinderIsFound, Bind!HeadBinds, Bind!HeadChecks, Bind!BinderAnswered

-----------------------------------------------------------------------------
(* F3!: diag/f3probe.py.                                                   *)

LEMMA MasksStart == ASSUME F3!Init, ConstantsAssumption PROVE F3!IInv
<1> SUFFICES ASSUME program = "f3probe" PROVE F3!IInv BY DEF F3!IInv
<1>1. /\ argv \in Argv /\ todo = F3!Probes(argv) /\ requests = <<>> /\ pc = "send" /\ errors = 0
      /\ mask = [s \in F3!AllIds |-> 0]
  BY DEF F3!Init, F3!ChannelInit
<1>2. argv \in Seq(Nat \X Nat) /\ Len(argv) \in Nat BY <1>1 DEF ConstantsAssumption
<1>3. Len(todo) = 3 * Len(argv) /\ DOMAIN todo = 1 .. 3 * Len(argv) /\ F3!Queue(todo)
  BY <1>1, <1>2 DEF F3!Probes, F3!Queue
<1>4. ASSUME NEW i \in DOMAIN todo PROVE F3!IsOwn(todo[i])
  <2> DEFINE d == (i + 2) \div 3
  <2>1. i \in 1 .. 3 * Len(argv) BY <1>3
  <2>2. d \in 1 .. Len(argv) BY <1>2, <2>1
  <2> HIDE DEF d
  <2>3. d \in DOMAIN argv BY <1>2, <2>2
  <2>4. todo[i] = F3!set_mask(argv[d], F3!Level) \/ todo[i] = F3!get_mask(argv[d])
    BY <1>1, <2>1, <1>2 DEF F3!Probes, d
  <2>5. todo[i].sub # "set_all" /\ todo[i].lo = argv[d][1] /\ todo[i].hi = argv[d][2]
    BY <2>4 DEF F3!set_mask, F3!get_mask, F3!Request
  <2>6. argv[d][1] .. argv[d][2] \subseteq F3!Asked BY <2>3 DEF F3!Asked, F3!Ids
  <2> QED BY <2>5, <2>6 DEF F3!IsOwn
<1>5. F3!Queue(requests) BY <1>1 DEF F3!Queue
<1> QED BY <1>1, <1>3, <1>4, <1>5 DEF F3!IInv

\* Whatever is sent is the program's own, and sets a level of 0 from the
\* lowering on.
LEMMA MasksAsks == ASSUME F3!IInv, F3!Asks PROVE F3!IInv'
<1> SUFFICES ASSUME program = "f3probe" PROVE F3!IInv' BY DEF F3!IInv, F3!Asks
<1> USE DEF F3!IInv
<1>0. \A q : F3!Queue(q) <=> Client!Queue(q) BY DEF F3!Queue, Client!Queue
<1>1. PICK n : n = Len(requests) OBVIOUS
<1>2. /\ todo # <<>> /\ requests' = Append(requests, Head(todo))
      /\ \/ pc = "send" /\ pc' = "wait"
         \/ pc = "lower" /\ pc' = "lowered"
      /\ UNCHANGED <<errors, program, argv, todo, mask>>
  BY DEF F3!Asks, F3!Send
<1>3. /\ Head(todo) = todo[1] /\ 1 \in DOMAIN todo /\ DOMAIN todo = 1 .. Len(todo) /\ Len(todo) \in Nat
      /\ F3!Queue(requests') /\ n \in Nat /\ Len(requests') = n + 1 /\ DOMAIN requests' = 1 .. n + 1
      /\ DOMAIN requests = 1 .. n
      /\ \A i \in 1 .. n : requests'[i] = requests[i]
      /\ requests'[n + 1] = todo[1]
  BY <1>0, <1>1, <1>2, QueueTail, QueueAppend, QueueDomain
<1>4. \A i \in DOMAIN requests' : F3!IsOwn(requests[i])'
  <2>1. F3!Asked' = F3!Asked BY <1>2 DEF F3!Asked
  <2>2. \A i \in DOMAIN requests' : i \in DOMAIN requests \/ i = n + 1 BY <1>3
  <2> QED BY <1>3, <2>1, <2>2 DEF F3!IsOwn
<1>5. \A i \in DOMAIN todo' : F3!IsOwn(todo[i])' BY <1>2 DEF F3!IsOwn, F3!Asked
<1>6. ASSUME pc' = "lowered", errors' = 0, NEW s \in F3!Asked'
      PROVE  F3!Down(s)' \/ F3!Unsent(s)'
  <2>1. pc = "lower" /\ \A i \in DOMAIN todo : todo[i].level = 0 BY <1>2, <1>6
  <2>2. F3!Down(s) \/ F3!Unsent(s) BY <1>2, <1>6, <2>1 DEF F3!Asked
  <2>3. todo[1].level = 0 BY <1>3, <2>1
  <2>4. ASSUME NEW i \in 1 .. n, F3!NoneRaises(i, s) PROVE F3!NoneRaises(i, s)'
    <3> SUFFICES ASSUME NEW j \in i .. n + 1, F3!Covers(requests'[j], s) PROVE requests'[j].level = 0
      BY <1>3 DEF F3!NoneRaises, F3!Covers
    <3>1. CASE j = n + 1 BY <1>3, <2>3, <3>1
    <3>2. CASE j \in i .. n
      <4>1. requests'[j] = requests[j] BY <1>3, <3>2
      <4> QED BY <1>1, <2>4, <3>2, <4>1 DEF F3!NoneRaises
    <3> QED BY <1>3, <3>1, <3>2
  <2>5. CASE F3!Unsent(s)
    <3>1. PICK i \in DOMAIN todo : F3!Covers(todo[i], s) BY <2>5 DEF F3!Unsent
    <3>2. CASE i > 1 BY <1>2, <3>1, <3>2 DEF F3!Unsent, F3!Covers
    <3>3. CASE i = 1
      <4>1. F3!Covers(requests'[n + 1], s) BY <1>3, <3>1, <3>3
      <4>2. F3!NoneRaises(n + 1, s)' BY <1>3, <2>3 DEF F3!NoneRaises
      <4>3. n + 1 \in 1 .. Len(requests') BY <1>3
      <4> QED BY <4>1, <4>2, <4>3 DEF F3!Down, F3!Covers
    <3> QED BY <1>3, <3>1, <3>2, <3>3
  <2>6. CASE s \in F3!AllIds /\ mask[s] = 0 /\ F3!NoneRaises(1, s)
    <3>1. F3!NoneRaises(1, s)'
      <4>1. CASE n = 0 BY <1>3, <2>3, <4>1 DEF F3!NoneRaises
      <4>2. CASE n > 0 BY <1>3, <2>4, <2>6, <4>2
      <4> QED BY <1>3, <4>1, <4>2
    <3> QED BY <1>2, <2>6, <3>1 DEF F3!Down, F3!AllIds
  <2>7. CASE \E i \in 1 .. Len(requests) : F3!Covers(requests[i], s) /\ F3!NoneRaises(i, s)
    <3>1. PICK i \in 1 .. n : F3!Covers(requests[i], s) /\ F3!NoneRaises(i, s) BY <1>1, <2>7
    <3>2. F3!NoneRaises(i, s)' /\ requests'[i] = requests[i] /\ i \in 1 .. Len(requests')
      BY <1>3, <2>4, <3>1
    <3> QED BY <3>1, <3>2 DEF F3!Down, F3!Covers
  <2> QED BY <2>2, <2>5, <2>6, <2>7 DEF F3!Down
<1>7. F3!Queue(todo)' BY <1>2 DEF F3!Queue
<1>8. \A s \in (F3!AllIds \ F3!Asked)' : mask'[s] = 0 BY <1>2 DEF F3!AllIds, F3!Asked
<1>9. pc' = "lowered" => \A i \in DOMAIN todo' : todo'[i].level = 0 BY <1>2
<1> QED BY <1>2, <1>3, <1>4, <1>5, <1>6, <1>7, <1>8, <1>9

\* An answer, or none, leaves what is under way and what is to be sent.
LEMMA MasksAnswered == ASSUME F3!IInv, F3!Answered PROVE F3!IInv'
<1> SUFFICES ASSUME program = "f3probe" PROVE F3!IInv' BY DEF F3!IInv, F3!Answered
<1> USE DEF F3!IInv
<1>0. \A q : F3!Queue(q) <=> Client!Queue(q) BY DEF F3!Queue, Client!Queue
<1>1. PICK r : F3!Takes(r) BY DEF F3!Answered
<1>2. /\ todo' = Tail(todo) \o <<>>
      /\ \/ pc = "wait" /\ pc' = "send"
         \/ pc = "lowered" /\ pc' = "lower"
      /\ UNCHANGED <<requests, errors, program, argv, mask>>
  BY <1>1 DEF F3!Answered, F3!Takes, F3!ThenRaises
<1>3. todo # <<>> BY <1>2
<1>4. /\ Client!Queue(Tail(todo)) /\ Len(Tail(todo)) = Len(todo) - 1
      /\ DOMAIN todo = 1 .. Len(todo) /\ Len(todo) \in Nat
      /\ DOMAIN Tail(todo) = 1 .. Len(todo) - 1
      /\ \A i \in 1 .. Len(todo) - 1 : i + 1 \in 1 .. Len(todo) /\ Tail(todo)[i] = todo[i + 1]
  BY <1>0, <1>3, QueueTail, QueueDomain
<1>5. todo' = Tail(todo)
  <2> DEFINE S == {Tail(todo)[i] : i \in 1 .. Len(Tail(todo))}
  <2>1. Tail(todo) \in Seq(S) BY <1>4, QueueIsSeq
  <2> QED BY <1>2, <2>1, ConcatEmptySeq
<1>6. \A i \in DOMAIN todo' : i + 1 \in DOMAIN todo /\ todo'[i] = todo[i + 1] BY <1>4, <1>5
<1>7. \A q : F3!IsOwn(q)' <=> F3!IsOwn(q) BY <1>2 DEF F3!IsOwn, F3!Asked
<1>8. /\ \A i \in DOMAIN requests' : F3!IsOwn(requests'[i])
      /\ \A i \in DOMAIN todo' : F3!IsOwn(todo'[i])
  BY <1>2, <1>6
<1>9. ASSUME pc' = "lower", errors' = 0, NEW s \in F3!Asked PROVE F3!Down(s)' \/ F3!Unsent(s)'
  <2>1. pc = "lowered" /\ (F3!Down(s) \/ F3!Unsent(s)) BY <1>2, <1>9
  <2>2. CASE F3!Down(s)
    BY <1>2, <2>2 DEF F3!Down, F3!NoneRaises, F3!Covers, F3!AllIds
  <2>3. CASE F3!Unsent(s)
    <3>1. PICK i \in DOMAIN todo : F3!Covers(todo[i], s) /\ i > 1 BY <2>1, <2>3 DEF F3!Unsent
    <3>2. i - 1 \in DOMAIN todo' /\ todo'[i - 1] = todo[i]
      <4>1. i - 1 \in 1 .. Len(todo) - 1 /\ (i - 1) + 1 = i BY <1>4, <3>1
      <4> QED BY <1>4, <1>5, <4>1
    <3> QED BY <1>9, <3>1, <3>2 DEF F3!Unsent, F3!Covers
  <2> QED BY <2>1, <2>2, <2>3
<1>10. F3!Asked' = F3!Asked BY <1>2 DEF F3!Asked
<1>11. pc' = "lower" => \A i \in DOMAIN todo' : todo'[i].level = 0 BY <1>2, <1>6
<1>12. F3!Queue(todo)' /\ F3!Queue(requests)' BY <1>0, <1>2, <1>4, <1>5 DEF F3!Queue
<1>13. \A s \in (F3!AllIds \ F3!Asked)' : mask'[s] = 0 BY <1>2 DEF F3!AllIds, F3!Asked
<1>14. (\A i \in DOMAIN requests' : F3!IsOwn(requests[i])') /\ (\A i \in DOMAIN todo' : F3!IsOwn(todo[i])')
  BY <1>8, <1>10 DEF F3!IsOwn
<1> QED BY <1>2, <1>9, <1>10, <1>11, <1>12, <1>13, <1>14

\* The lowering starts with every range of the program's still to be lowered.
LEMMA MasksListened == ASSUME F3!IInv, F3!Listened, ConstantsAssumption PROVE F3!IInv'
<1> SUFFICES ASSUME program = "f3probe" PROVE F3!IInv' BY DEF F3!IInv, F3!Listened
<1> USE DEF F3!IInv
<1>1. /\ pc' = "lower" /\ todo' = F3!Lowers(argv)
      /\ UNCHANGED <<requests, errors, program, argv, mask>>
  BY DEF F3!Listened, F3!chanvars
<1>2. argv \in Seq(Nat \X Nat) /\ Len(argv) \in Nat BY DEF ConstantsAssumption
<1>3. /\ DOMAIN todo' = DOMAIN argv /\ F3!Queue(todo')
      /\ \A i \in DOMAIN argv : todo'[i] = F3!set_mask(argv[i], 0)
  BY <1>1, <1>2 DEF F3!Lowers, F3!Queue
<1>4. ASSUME NEW i \in DOMAIN argv
      PROVE  /\ todo'[i].sub = "set" /\ todo'[i].lo = argv[i][1] /\ todo'[i].hi = argv[i][2]
             /\ todo'[i].level = 0
             /\ argv[i][1] .. argv[i][2] \subseteq F3!Asked
  BY <1>3 DEF F3!set_mask, F3!Request, F3!Asked, F3!Ids
<1>5. F3!Asked' = F3!Asked /\ F3!AllIds' = F3!AllIds BY <1>1 DEF F3!Asked, F3!AllIds
<1>6. \A i \in DOMAIN todo' : F3!IsOwn(todo[i])' BY <1>3, <1>4, <1>5 DEF F3!IsOwn
<1>7. \A i \in DOMAIN requests' : F3!IsOwn(requests[i])' BY <1>1, <1>5 DEF F3!IsOwn
<1>8. \A s \in F3!Asked : F3!Unsent(s)'
  <2> SUFFICES ASSUME NEW s \in F3!Asked PROVE F3!Unsent(s)' OBVIOUS
  <2>1. PICK i \in DOMAIN argv : s \in argv[i][1] .. argv[i][2] BY DEF F3!Asked, F3!Ids
  <2> QED BY <1>1, <1>3, <1>4, <2>1 DEF F3!Unsent, F3!Covers
<1>9. F3!Queue(requests)' BY <1>1 DEF F3!Queue
<1> QED BY <1>1, <1>3, <1>4, <1>5, <1>6, <1>7, <1>8, <1>9

\* A request that the modem executes sets its own range; one it refuses is an
\* error.
LEMMA MasksModem == ASSUME F3!IInv, F3!ModemDoes, ConstantsAssumption PROVE F3!IInv'
<1> SUFFICES ASSUME program = "f3probe" PROVE F3!IInv' BY DEF F3!IInv, F3!ModemDoes
<1> USE DEF F3!IInv
<1> DEFINE q == Head(requests)
<1>0. \A x : F3!Queue(x) <=> Client!Queue(x) BY DEF F3!Queue, Client!Queue
<1>1. PICK n : n = Len(requests) OBVIOUS
<1>2. /\ requests # <<>> /\ requests' = Tail(requests)
      /\ UNCHANGED <<program, argv, pc, todo>>
      /\ errors' = errors \/ errors' = errors + 1
  BY DEF F3!ModemDoes
<1>3. /\ q = requests[1] /\ 1 \in DOMAIN requests /\ DOMAIN requests = 1 .. n /\ n \in Nat
      /\ F3!Queue(requests') /\ Len(requests') = n - 1 /\ DOMAIN requests' = 1 .. n - 1
      /\ \A i \in 1 .. n - 1 : i + 1 \in 1 .. n /\ requests'[i] = requests[i + 1]
  BY <1>0, <1>1, <1>2, QueueTail, QueueDomain
<1>4. F3!IsOwn(q) BY <1>3
<1>5. \/ mask' = mask
      \/ /\ q.sub = "ranges" \/ q.lo .. q.hi \subseteq F3!AllIds
         /\ mask' = [s \in F3!AllIds |-> IF q.sub = "set" /\ s \in q.lo .. q.hi THEN q.level ELSE mask[s]]
  BY <1>4 DEF F3!ModemDoes, F3!IsOwn
<1>6. errors' = 0 =>
        /\ errors = 0 /\ (q.sub = "ranges" \/ q.lo .. q.hi \subseteq F3!AllIds)
        /\ mask' = [s \in F3!AllIds |-> IF q.sub = "set" /\ s \in q.lo .. q.hi THEN q.level ELSE mask[s]]
  <2>1. errors + 1 # 0 OBVIOUS
  <2> QED BY <1>4, <2>1 DEF F3!ModemDoes, F3!IsOwn
<1> HIDE DEF q
<1>7. F3!Asked' = F3!Asked /\ F3!AllIds' = F3!AllIds BY <1>2 DEF F3!Asked, F3!AllIds
<1>8. \A s \in F3!AllIds \ F3!Asked : mask'[s] = 0
  <2> SUFFICES ASSUME NEW s \in F3!AllIds \ F3!Asked PROVE mask'[s] = 0 OBVIOUS
  <2>1. ~(q.sub = "set" /\ s \in q.lo .. q.hi) BY <1>4 DEF F3!IsOwn
  <2> QED BY <1>5, <2>1
<1>9. \A i \in DOMAIN requests' : F3!IsOwn(requests[i])'
  <2> SUFFICES ASSUME NEW i \in DOMAIN requests' PROVE F3!IsOwn(requests[i])' OBVIOUS
  <2>1. i + 1 \in DOMAIN requests /\ requests'[i] = requests[i + 1] BY <1>3
  <2>2. F3!IsOwn(requests[i + 1]) BY <2>1
  <2> QED BY <1>7, <2>1, <2>2 DEF F3!IsOwn
<1>10. \A i \in DOMAIN todo' : F3!IsOwn(todo[i])' BY <1>2, <1>7 DEF F3!IsOwn
<1>11. ASSUME NEW i \in 1 .. n, NEW s, F3!NoneRaises(i, s)
       PROVE  F3!NoneRaises(IF i = 1 THEN 1 ELSE i - 1, s)'
  <2> DEFINE i0 == IF i = 1 THEN 1 ELSE i - 1
  <2> SUFFICES ASSUME NEW j \in i0 .. n - 1, F3!Covers(requests'[j], s) PROVE requests'[j].level = 0
    BY <1>3 DEF F3!NoneRaises, F3!Covers
  <2>1. j \in 1 .. n - 1 /\ j + 1 \in i .. n BY <1>3
  <2>2. requests'[j] = requests[j + 1] BY <1>3, <2>1
  <2> QED BY <1>1, <1>11, <2>1, <2>2 DEF F3!NoneRaises
<1>12. ASSUME errors' = 0, NEW s \in F3!Asked, F3!Down(s) PROVE F3!Down(s)'
  <2>1. CASE s \in F3!AllIds /\ mask[s] = 0 /\ F3!NoneRaises(1, s)
    <3>1. F3!NoneRaises(1, s)' BY <1>3, <1>11, <2>1
    <3>2. F3!Covers(q, s) => q.level = 0 BY <1>1, <1>3, <2>1 DEF F3!NoneRaises
    <3>3. mask'[s] = 0 BY <1>6, <1>12, <2>1, <3>2 DEF F3!Covers
    <3> QED BY <1>7, <2>1, <3>1, <3>3 DEF F3!Down
  <2>2. CASE \E i \in 1 .. Len(requests) : F3!Covers(requests[i], s) /\ F3!NoneRaises(i, s)
    <3>1. PICK i \in 1 .. n : F3!Covers(requests[i], s) /\ F3!NoneRaises(i, s) BY <1>1, <2>2
    <3>2. CASE i = 1
      <4>1. F3!NoneRaises(1, s)' BY <1>3, <1>11, <3>1, <3>2
      <4>2. F3!Covers(q, s) /\ q.level = 0 BY <1>1, <1>3, <3>1, <3>2 DEF F3!NoneRaises
      <4>3. s \in F3!AllIds /\ mask'[s] = 0 BY <1>6, <1>12, <4>2 DEF F3!Covers
      <4> QED BY <1>7, <4>1, <4>3 DEF F3!Down
    <3>3. CASE i > 1
      <4>1. i - 1 \in 1 .. n - 1 /\ (i - 1) + 1 = i BY <1>3, <3>1, <3>3
      <4>2. requests'[i - 1] = requests[i] /\ i - 1 \in 1 .. Len(requests') BY <1>3, <4>1
      <4>3. F3!NoneRaises(i - 1, s)'
        <5>1. F3!NoneRaises(IF i = 1 THEN 1 ELSE i - 1, s)' BY <1>11, <3>1
        <5>2. (IF i = 1 THEN 1 ELSE i - 1) = i - 1 BY <3>3
        <5> QED BY <5>1, <5>2
      <4>4. F3!Covers(requests'[i - 1], s) BY <3>1, <4>2 DEF F3!Covers
      <4>5. F3!NoneRaises(i - 1, s)' /\ F3!Covers(requests[i - 1], s)' BY <4>3, <4>4 DEF F3!Covers
      <4> QED BY <4>2, <4>5 DEF F3!Down
    <3> QED BY <1>3, <3>1, <3>2, <3>3
  <2> QED BY <1>12, <2>1, <2>2 DEF F3!Down
<1>13. \A s : F3!Unsent(s)' <=> F3!Unsent(s) BY <1>2 DEF F3!Unsent, F3!Covers
<1>14. F3!Queue(todo)' BY <1>2 DEF F3!Queue
<1>15. errors' \in Nat BY <1>2
<1>16. pc' \in {"lower", "lowered", "end"} =>
         /\ \A i \in DOMAIN todo' : todo'[i].level = 0
         /\ errors' = 0 => \A s \in F3!Asked' : F3!Down(s)' \/ F3!Unsent(s)'
  BY <1>2, <1>6, <1>7, <1>12, <1>13
<1> QED BY <1>2, <1>3, <1>7, <1>8, <1>9, <1>10, <1>14, <1>15, <1>16

LEMMA MasksSteps ==
  ASSUME F3!IInv, [F3!Next]_(F3!vars), ConstantsAssumption PROVE F3!IInv'
<1> DEFINE kept == UNCHANGED <<requests, errors, program, argv, todo, mask>>
<1>1. ASSUME kept, pc' = pc \/ pc' \in {"died", "listen"} \/ (pc = "lower" /\ pc' = "end" /\ todo = <<>>)
      PROVE  F3!IInv'
  <2> SUFFICES ASSUME program = "f3probe" PROVE F3!IInv' BY <1>1 DEF F3!IInv
  <2>1. \A q : F3!IsOwn(q)' <=> F3!IsOwn(q) BY <1>1 DEF F3!IsOwn, F3!Asked
  <2>2. F3!AllIds' = F3!AllIds /\ F3!Asked' = F3!Asked BY <1>1 DEF F3!AllIds, F3!Asked
  <2>3. \A s : F3!Down(s)' <=> F3!Down(s) BY <1>1, <2>2 DEF F3!Down, F3!NoneRaises, F3!Covers
  <2>4. \A s : F3!Unsent(s) /\ pc' = pc => F3!Unsent(s)' BY <1>1 DEF F3!Unsent, F3!Covers
  <2>5. pc' = "end" => todo = <<>> BY <1>1 DEF F3!IInv
  <2>6. todo = <<>> => \A s : ~F3!Unsent(s) BY DEF F3!Unsent
  <2>7. F3!Queue(requests)' /\ F3!Queue(todo)' BY <1>1 DEF F3!IInv, F3!Queue
  <2>8. /\ \A i \in DOMAIN requests' : F3!IsOwn(requests[i])'
        /\ \A i \in DOMAIN todo' : F3!IsOwn(todo[i])'
    BY <1>1, <2>2 DEF F3!IInv, F3!IsOwn
  <2> QED BY <1>1, <2>2, <2>3, <2>4, <2>5, <2>6, <2>7, <2>8 DEF F3!IInv
<1>2. CASE F3!Raised
  <2>1. CASE program = "list" BY <1>2, <2>1 DEF F3!Raised, F3!IInv
  <2>2. CASE program # "list" BY <1>1, <1>2, <2>2 DEF F3!Raised, F3!chanvars
  <2> QED BY <2>1, <2>2
<1>3. CASE F3!Lowered BY <1>1, <1>3 DEF F3!Lowered, F3!chanvars
<1>4. CASE F3!Ticked BY <1>1, <1>4 DEF F3!Ticked, F3!chanvars
<1>5. CASE UNCHANGED F3!vars BY <1>1, <1>5 DEF F3!vars, F3!maskvars, F3!chanvars
<1> QED BY <1>2, <1>3, <1>4, <1>5, MasksAsks, MasksAnswered, MasksListened, MasksModem DEF F3!Next

LEMMA MasksEnd == ASSUME F3!IInv PROVE F3!MasksComeDown
<1> SUFFICES ASSUME program = "f3probe", pc = "end", requests = <<>>, errors = 0, NEW s \in F3!Asked
             PROVE  mask[s] = 0
  BY DEF F3!IInv, F3!MasksComeDown
<1>1. F3!Down(s) \/ F3!Unsent(s) BY DEF F3!IInv
<1>2. ~F3!Unsent(s)
  <2>1. todo = <<>> BY DEF F3!IInv
  <2> QED BY <2>1 DEF F3!Unsent
<1>3. Len(requests) = 0 OBVIOUS
<1> QED BY <1>1, <1>2, <1>3 DEF F3!Down

-----------------------------------------------------------------------------
(* Write!: efswrite.py, with the modem's EFS.  The replies a client drops   *)
(* are the first ones, whichever of them it takes.                         *)

LEMMA QueueEnd ==
  ASSUME NEW s, Client!Queue(s), NEW h \in 0 .. Len(s)
  PROVE  /\ Client!Queue(SubSeq(s, h + 1, Len(s))) /\ Len(SubSeq(s, h + 1, Len(s))) = Len(s) - h
         /\ \A i \in 1 .. Len(s) - h : i + h \in 1 .. Len(s) /\ SubSeq(s, h + 1, Len(s))[i] = s[i + h]
<1> DEFINE S == {s[i] : i \in 1 .. Len(s)}
           e == SubSeq(s, h + 1, Len(s))
<1>1. s \in Seq(S) /\ Len(s) \in Nat BY QueueIsSeq, QueueDomain
<1> HIDE DEF S
<1>2. e \in Seq(S) /\ Len(e) = Len(s) - h BY <1>1
<1>3. \A i \in 1 .. Len(s) - h : i + h \in 1 .. Len(s) /\ e[i] = s[i + h] BY <1>1
<1>4. Client!Queue(e) BY <1>2, SeqIsQueue
<1> QED BY <1>2, <1>3, <1>4

\* The replies that are left were there, in the same number or fewer.
Fewer ==
  /\ Client!Queue(replies')
  /\ \A c : \A i \in Write!Answered(c)' : \E j \in Write!Answered(c) : replies'[i] = replies[j]
  /\ \A c : (\A i, j \in Write!Answered(c) : i = j) => \A i, j \in Write!Answered(c)' : i = j
  /\ \A c : Write!Answered(c) = {} => Write!Answered(c)' = {}

LEMMA DropKeeps ==
  ASSUME Client!Queue(replies), NEW h \in 0 .. Len(replies),
         replies' = SubSeq(replies, h + 1, Len(replies))
  PROVE  /\ Fewer
         /\ \A c : \A i \in Write!Answered(c)' : i + h \in Write!Answered(c)
<1>1. /\ Client!Queue(replies') /\ Len(replies') = Len(replies) - h
      /\ \A i \in 1 .. Len(replies) - h : i + h \in 1 .. Len(replies) /\ replies'[i] = replies[i + h]
  BY QueueEnd
<1>2. DOMAIN replies' = 1 .. Len(replies) - h /\ DOMAIN replies = 1 .. Len(replies) /\ Len(replies) \in Nat
  BY <1>1, QueueDomain
<1>3. ASSUME NEW c, NEW i \in Write!Answered(c)'
      PROVE  i + h \in Write!Answered(c) /\ replies'[i] = replies[i + h] /\ i \in Nat
  <2>1. i \in DOMAIN replies' /\ replies'[i].cmd = c BY <1>3 DEF Write!Answered
  <2>2. i \in 1 .. Len(replies) - h BY <1>2, <2>1
  <2>3. i + h \in DOMAIN replies /\ replies'[i] = replies[i + h] BY ONLY <1>1, <1>2, <2>2
  <2>4. i + h \in Write!Answered(c) BY <2>1, <2>3 DEF Write!Answered
  <2> QED BY <2>2, <2>3, <2>4
<1>4. \A c : \A i \in Write!Answered(c)' : \E j \in Write!Answered(c) : replies'[i] = replies[j] BY <1>3
<1>5. ASSUME NEW c, \A i, j \in Write!Answered(c) : i = j, NEW i \in Write!Answered(c)', NEW j \in Write!Answered(c)'
      PROVE  i = j
  <2>1. i + h = j + h /\ i \in Nat /\ j \in Nat BY <1>3, <1>5
  <2> QED BY <2>1
<1> QED BY <1>1, <1>3, <1>4, <1>5 DEF Fewer

LEMMA SameIsFewer ==
  ASSUME Client!Queue(replies), UNCHANGED replies PROVE Fewer
BY DEF Fewer, Write!Answered

\* The reply that is taken was to a request with that command, and when there
\* was one such reply there is none left.
LEMMA ReceiveKeeps ==
  ASSUME Client!Queue(replies), NEW c, NEW r, Write!Receive(c, r)
  PROVE  /\ Fewer
         /\ \E i \in Write!Answered(c) : r = replies[i]
         /\ (\A i, j \in Write!Answered(c) : i = j) => Write!Answered(c)' = {}
<1>1. PICK i \in DOMAIN replies :
        /\ replies[i].cmd = c /\ r = replies[i]
        /\ \E h \in i .. Len(replies) : replies' = SubSeq(replies, h + 1, Len(replies))
  BY DEF Write!Receive
<1>2. PICK h \in i .. Len(replies) : replies' = SubSeq(replies, h + 1, Len(replies)) BY <1>1
<1>3. i \in 1 .. Len(replies) /\ Len(replies) \in Nat BY <1>1, QueueDomain
<1>4. h \in 0 .. Len(replies) /\ h >= i BY <1>2, <1>3
<1>5. Fewer /\ \A x \in Write!Answered(c)' : x + h \in Write!Answered(c) BY <1>2, <1>4, DropKeeps
<1>6. i \in Write!Answered(c) BY <1>1 DEF Write!Answered
<1>7. ASSUME \A x, y \in Write!Answered(c) : x = y, NEW x \in Write!Answered(c)' PROVE FALSE
  <2>1. x + h = i BY <1>5, <1>6, <1>7
  <2>2. x \in DOMAIN replies' BY <1>7 DEF Write!Answered
  <2>3. x \in 1 .. Len(replies') /\ Len(replies') \in Nat BY <1>5, <2>2, QueueDomain DEF Fewer
  <2> QED BY <1>3, <1>4, <2>1, <2>3
<1> QED BY <1>1, <1>5, <1>6, <1>7

LEMMA NoAnswerKeeps ==
  ASSUME Client!Queue(replies), Write!NoAnswer PROVE Fewer
<1>1. CASE replies' = replies BY <1>1, SameIsFewer
<1>2. CASE replies' = <<>>
  BY <1>2 DEF Fewer, Write!Answered, Client!Queue
<1> QED BY <1>1, <1>2 DEF Write!NoAnswer

\* A request that is sent comes after all others.
LEMMA AskKeeps ==
  ASSUME Client!Queue(requests), NEW q, requests' = Append(requests, q)
  PROVE  /\ Client!Queue(requests')
         /\ \A i \in DOMAIN requests : requests'[i] = requests[i]
         /\ \E n \in Nat \ {0} :
              /\ requests'[n] = q /\ \A i \in DOMAIN requests : i \in Nat /\ i < n
              /\ \A c : Write!Asked(c)' = IF q.cmd = c THEN Write!Asked(c) \union {n} ELSE Write!Asked(c)
<1>1. PICK n \in Nat \ {0} : n = Len(requests) + 1 BY QueueDomain
<1>2. /\ Client!Queue(requests') /\ DOMAIN requests' = 1 .. n /\ DOMAIN requests = 1 .. n - 1
      /\ \A i \in 1 .. n - 1 : requests'[i] = requests[i]
      /\ requests'[n] = q
  BY <1>1, QueueAppend, QueueDomain
<1>3. \A i \in DOMAIN requests' : i \in DOMAIN requests \/ i = n BY <1>2
<1>4. ASSUME NEW c
      PROVE  Write!Asked(c)' = IF q.cmd = c THEN Write!Asked(c) \union {n} ELSE Write!Asked(c)
  <2>1. \A i \in DOMAIN requests : i \in DOMAIN requests' BY <1>2
  <2>2. n \in DOMAIN requests' BY <1>2
  <2> QED BY <1>2, <1>3, <2>1, <2>2 DEF Write!Asked
<1>5. \A i \in DOMAIN requests : i \in Nat /\ i < n BY <1>2
<1> QED BY <1>2, <1>4, <1>5

\* What a client's step does to the commands under way.
LEMMA SingleKeeps ==
  ASSUME Fewer, NEW c, Write!Asked(c)' = Write!Asked(c)
  PROVE  /\ Write!Single(c) => Write!Single(c)'
         /\ Write!Idle(c) => Write!Idle(c)'
BY DEF Fewer, Write!Single, Write!Idle

LEMMA SingleAsks ==
  ASSUME NEW c, Write!Asked(c) = {}, Write!Answered(c)' = {}, NEW n, Write!Asked(c)' = Write!Asked(c) \union {n}
  PROVE  Write!Single(c)'
BY DEF Write!Single

LEMMA ItemStays ==
  ASSUME UNCHANGED <<files, data>>
  PROVE  /\ Write!item' = Write!item
         /\ \A n : Write!Begins(n)' <=> Write!Begins(n)
         /\ \A q : Write!IsPart(q)' <=> Write!IsPart(q)
BY DEF Write!item, Write!Begins, Write!IsPart, Write!Queue

\* A request to open is for the item, one to close closes what nothing under
\* way is going to use, and one to read or write is for what is open.
LEMMA DescriptorsAsk ==
  ASSUME Write!IInv, Fewer, UNCHANGED open, NEW q, requests' = Append(requests, q),
         q.cmd = "open" => q.path = "item",
         q.cmd = "close" => q.fd \in 1 .. Len(open) /\ Write!Idle("open"),
         q.cmd \in {"read", "write"} => Write!IsOpen(q.fd),
         pc' \in {"read", "write"} => q.cmd # "close" /\ Write!IsOpen(fd')
  PROVE  Write!DescriptorsInUse'
<1>1. Client!Queue(requests) BY DEF Write!IInv, Write!Queue, Client!Queue
<1>2. \A i \in DOMAIN requests : requests'[i] = requests[i] BY <1>1, AskKeeps
<1>3. PICK n \in Nat \ {0} :
        /\ requests'[n] = q /\ \A i \in DOMAIN requests : i \in Nat /\ i < n
        /\ \A c : Write!Asked(c)' = IF q.cmd = c THEN Write!Asked(c) \union {n} ELSE Write!Asked(c)
  BY <1>1, AskKeeps
<1>4. \A c : \A i \in Write!Asked(c) : i \in DOMAIN requests BY DEF Write!Asked
<1>5. \A c : \A i \in Write!Asked(c)' : (i \in Write!Asked(c) /\ requests'[i] = requests[i]) \/ (i = n /\ q.cmd = c /\ requests'[i] = q)
  BY <1>2, <1>3, <1>4
<1>6. Write!DescriptorsInUse BY DEF Write!IInv
<1>7. ASSUME q.cmd # "close", NEW f, Write!IsOpen(f)
      PROVE  f \in 1 .. Len(open') /\ open'[f] = "item" /\ \A i \in Write!Asked("close")' : requests'[i].fd # f
  BY <1>5, <1>7 DEF Write!IsOpen
<1>8. \A i \in Write!Asked("open")' : requests'[i].path = "item"
  BY <1>5, <1>6 DEF Write!DescriptorsInUse
<1>9. ASSUME NEW i \in Write!Answered("open")', replies'[i].err = 0
      PROVE  /\ replies'[i].fd \in 1 .. Len(open') /\ open'[replies'[i].fd] = "item"
             /\ \A j \in Write!Asked("close")' : requests'[j].fd # replies'[i].fd
  <2>1. PICK j \in Write!Answered("open") : replies'[i] = replies[j] BY <1>9 DEF Fewer
  <2>2. q.cmd # "close" BY <2>1 DEF Write!Idle
  <2>3. Write!IsOpen(replies'[i].fd) BY <1>6, <1>9, <2>1 DEF Write!DescriptorsInUse
  <2> QED BY <1>7, <2>2, <2>3
<1>10. \A i \in Write!Asked("close")' : requests'[i].fd \in 1 .. Len(open')
  BY <1>5, <1>6 DEF Write!DescriptorsInUse
<1>11. ASSUME NEW i \in Write!Asked("read")' \union Write!Asked("write")'
       PROVE  /\ requests'[i].fd \in 1 .. Len(open') /\ open'[requests'[i].fd] = "item"
              /\ \A j \in Write!Asked("close")' : j < i => requests'[j].fd # requests'[i].fd
  <2>1. CASE i \in Write!Asked("read") \union Write!Asked("write")
    <3>1. i \in DOMAIN requests /\ i < n /\ i \in Nat /\ requests'[i] = requests[i] BY <1>2, <1>3, <1>4, <2>1
    <3>2. /\ requests[i].fd \in 1 .. Len(open) /\ open[requests[i].fd] = "item"
          /\ \A j \in Write!Asked("close") : j < i => requests[j].fd # requests[i].fd
      BY <1>6, <2>1 DEF Write!DescriptorsInUse
    <3>3. ASSUME NEW j \in Write!Asked("close")', j < i PROVE requests'[j].fd # requests'[i].fd
      <4>1. j # n BY <3>1, <3>3
      <4> QED BY <1>5, <3>1, <3>2, <3>3, <4>1
    <3> QED BY <3>1, <3>2, <3>3
  <2>2. CASE i = n /\ q.cmd \in {"read", "write"}
    BY <1>3, <1>7, <2>2
  <2> QED BY <1>5, <2>1, <2>2
<1>12. pc' \in {"read", "write"} =>
         /\ fd' \in 1 .. Len(open') /\ open'[fd'] = "item"
         /\ \A i \in Write!Asked("close")' : requests'[i].fd # fd'
  BY <1>7
<1> QED BY <1>8, <1>9, <1>10, <1>11, <1>12 DEF Write!DescriptorsInUse, Write!IsOpen

\* The program ends, successfully when the item begins with the value.
LEMMA EndKeeps ==
  ASSUME Write!IInv, Fewer, pc' = "end", rc' \in {0, 1}, UNCHANGED <<requests, files, open, data, phase>>,
         rc' = 0 => Write!Begins(Len(data)) /\ rc = 0 /\ pc # "write"
  PROVE  Write!IInv'
<1>1. \A c : Write!Asked(c)' = Write!Asked(c) BY DEF Write!Asked
<1>2. \A c : /\ Write!Single(c) => Write!Single(c)'
             /\ Write!Idle(c) => Write!Idle(c)'
  BY <1>1, SingleKeeps
<1>3. /\ Write!item' = Write!item
      /\ \A n : Write!Begins(n)' <=> Write!Begins(n)
      /\ \A q : Write!IsPart(q)' <=> Write!IsPart(q)
  BY ItemStays
<1>4. Write!OneAtATime' BY <1>2 DEF Write!IInv, Write!OneAtATime
<1>5. Write!DescriptorsInUse'
  BY <1>1 DEF Write!IInv, Write!DescriptorsInUse, Write!IsOpen, Fewer
<1>6. Write!ReadIsBegin' BY DEF Write!ReadIsBegin
<1>7. Write!WrittenBegins' BY <1>1, <1>3 DEF Write!IInv, Write!WrittenBegins
<1>8. Write!Stages' BY DEF Write!IInv, Write!Stages
<1>9. Write!Queue(requests)' /\ Write!Queue(replies)' /\ Write!Queue(open)'
  BY DEF Write!IInv, Write!Queue, Client!Queue, Fewer
<1> QED BY <1>3, <1>4, <1>5, <1>6, <1>7, <1>8, <1>9 DEF Write!IInv

\* The item is opened, to be read or to be written.
LEMMA OpenKeeps ==
  ASSUME Write!IInv, Fewer, UNCHANGED <<files, open, data>>,
         requests' = Append(requests, [cmd |-> "open", path |-> "item"]),
         pc \in {"start", "close", "closew"}, rc = 0, rc' = 0,
         \/ pc = "start" /\ pc' = "open" /\ phase' = "before"
         \/ pc' = "open" /\ phase' = "after" /\ Write!Begins(Len(data))
         \/ pc' = "openw" /\ phase' = "write" /\ Len(data) <= Len(Write!item)
  PROVE  Write!IInv'
<1> DEFINE q == [cmd |-> "open", path |-> "item"]
<1>0. Client!Queue(requests) BY DEF Write!IInv, Write!Queue, Client!Queue
<1>1. PICK n \in Nat \ {0} :
        /\ \A c : Write!Asked(c)' = IF q.cmd = c THEN Write!Asked(c) \union {n} ELSE Write!Asked(c)
  BY <1>0, AskKeeps
<1>2. /\ Write!Asked("open")' = Write!Asked("open") \union {n}
      /\ \A c \in {"read", "write", "close"} : Write!Asked(c)' = Write!Asked(c)
  BY <1>1
<1>3. \A c \in {"read", "write", "close"} : /\ Write!Single(c) => Write!Single(c)'
                                            /\ Write!Idle(c) => Write!Idle(c)'
  BY <1>2, SingleKeeps
<1>4. /\ Client!Queue(requests') /\ \A i \in DOMAIN requests : requests'[i] = requests[i]
  BY <1>0, AskKeeps
<1>5. /\ Write!item' = Write!item
      /\ \A h : Write!Begins(h)' <=> Write!Begins(h)
      /\ \A x : Write!IsPart(x)' <=> Write!IsPart(x)
  BY ItemStays
<1>6. Write!Idle("open") BY DEF Write!IInv, Write!OneAtATime
<1>7. Write!Single("open")'
  <2>1. Write!Asked("open") = {} /\ Write!Answered("open")' = {} BY <1>6 DEF Write!Idle, Fewer
  <2> QED BY <1>2, <2>1, SingleAsks
<1>8. Write!OneAtATime'
  BY <1>3, <1>7 DEF Write!IInv, Write!OneAtATime, Write!Stages
<1>9. Write!DescriptorsInUse' BY DescriptorsAsk
<1>10. Write!ReadIsBegin' BY DEF Write!ReadIsBegin
<1>11. Write!WrittenBegins'
  <2>1. \A i \in Write!Asked("write")' : i \in Write!Asked("write") /\ requests'[i] = requests[i]
    BY <1>2, <1>4 DEF Write!Asked
  <2> QED BY <1>5, <2>1 DEF Write!IInv, Write!WrittenBegins, Write!Begins
<1>12. Write!Stages' BY DEF Write!IInv, Write!Stages
<1>13. Write!Queue(requests)' /\ Write!Queue(replies)' /\ Write!Queue(open)'
  BY <1>4 DEF Write!IInv, Write!Queue, Client!Queue, Fewer
<1> QED BY <1>5, <1>8, <1>9, <1>10, <1>11, <1>12, <1>13 DEF Write!IInv

\* What was read is how the item begins, and no more is under way.
IsRead ==
  /\ Client!Queue(buf') /\ off' = Len(buf') /\ off' <= Len(Write!item)
  /\ \A u \in 1 .. off' : Write!item[u] = buf'[u]

\* The item is closed, read or written or not.
LEMMA CloseKeeps ==
  ASSUME Write!IInv, Fewer, UNCHANGED <<files, open, data, phase, fd>>,
         requests' = Append(requests, [cmd |-> "close", fd |-> fd]), rc' \in {0, 1},
         \/ pc = "read" /\ pc' = "close" /\ rc' = 0 /\ (phase = "before" => IsRead)
         \/ /\ pc = "write" /\ pc' = "closew"
            /\ rc' = 0 => /\ off' = Len(data) /\ Write!Begins(Len(data))
                          /\ Write!Asked("write") = {} /\ Write!Answered("write")' = {}
  PROVE  Write!IInv'
<1> DEFINE q == [cmd |-> "close", fd |-> fd]
<1>0. Client!Queue(requests) BY DEF Write!IInv, Write!Queue, Client!Queue
<1>1. PICK n \in Nat \ {0} :
        /\ \A c : Write!Asked(c)' = IF q.cmd = c THEN Write!Asked(c) \union {n} ELSE Write!Asked(c)
  BY <1>0, AskKeeps
<1>2. \A c \in {"open", "read", "write"} : Write!Asked(c)' = Write!Asked(c) BY <1>1
<1>3. \A c \in {"open", "read", "write"} : /\ Write!Single(c) => Write!Single(c)'
                                           /\ Write!Idle(c) => Write!Idle(c)'
  BY <1>2, SingleKeeps
<1>4. /\ Client!Queue(requests') /\ \A i \in DOMAIN requests : requests'[i] = requests[i]
  BY <1>0, AskKeeps
<1>5. /\ Write!item' = Write!item
      /\ \A h : Write!Begins(h)' <=> Write!Begins(h)
      /\ \A x : Write!IsPart(x)' <=> Write!IsPart(x)
  BY ItemStays
<1>6. Write!Idle("open") /\ Write!IsOpen(fd)
  BY DEF Write!IInv, Write!OneAtATime, Write!DescriptorsInUse
<1>7. rc' = 0 => Write!Idle("write")'
  <2>1. CASE pc = "read"
    BY <1>3, <2>1 DEF Write!IInv, Write!OneAtATime, Write!Stages
  <2>2. CASE pc = "write" BY <1>2, <2>2 DEF Write!Idle
  <2> QED BY <2>1, <2>2
<1>8. Write!OneAtATime' BY <1>3, <1>6, <1>7 DEF Write!IInv, Write!OneAtATime
<1>9. Write!DescriptorsInUse'
  <2>1. fd \in 1 .. Len(open) BY <1>6 DEF Write!IsOpen
  <2> QED BY <1>6, <2>1, DescriptorsAsk
<1>10. Write!ReadIsBegin' BY <1>5 DEF Write!ReadIsBegin, IsRead, Write!Queue, Client!Queue
<1>11. Write!WrittenBegins'
  <2>1. \A i \in Write!Asked("write")' : i \in Write!Asked("write") /\ requests'[i] = requests[i]
    BY <1>2, <1>4 DEF Write!Asked
  <2>2. Len(data) \in Nat BY DEF Write!IInv
  <2>3. /\ phase # "before" => Len(data) <= Len(Write!item)
        /\ \A i \in Write!Asked("write") : Len(data) <= Len(Write!item) /\ Write!IsPart(requests[i])
        /\ phase = "after" => Write!Begins(Len(data))
    BY DEF Write!IInv, Write!WrittenBegins
  <2>4. pc' \notin {"write", "end"} /\ (pc' = "closew" => pc = "write") OBVIOUS
  <2>5. /\ \A i \in Write!Asked("write")' : Len(data') <= Len(Write!item') /\ Write!IsPart(requests[i])'
        /\ phase' # "before" => Len(data') <= Len(Write!item')
    BY <1>5, <2>1, <2>3
  <2>6. pc' = "closew" /\ rc' = 0 => off' \in 0 .. Len(data) /\ off' = Len(data) /\ Write!Begins(off')
    BY <2>2, <2>4
  <2> QED BY <1>5, <2>3, <2>4, <2>5, <2>6 DEF Write!WrittenBegins
<1>12. Write!Stages' BY DEF Write!IInv, Write!Stages
<1>13. Write!Queue(requests)' /\ Write!Queue(replies)' /\ Write!Queue(open)'
  BY <1>4 DEF Write!IInv, Write!Queue, Client!Queue, Fewer
<1> QED BY <1>5, <1>8, <1>9, <1>10, <1>11, <1>12, <1>13 DEF Write!IInv

\* The next block is asked for.
LEMMA ReadKeeps ==
  ASSUME Write!IInv, Fewer, UNCHANGED <<files, open, data, phase, rc>>,
         NEW q, requests' = Append(requests, q), q.cmd = "read", q.fd = fd', q.off = off',
         pc' = "read", Write!IsOpen(fd'),
         \/ pc = "open" /\ Write!Asked("open") = {} /\ Write!Answered("open")' = {}
         \/ pc = "read",
         phase = "before" => /\ IsRead
                             /\ Write!Asked("read") = {} /\ Write!Answered("read")' = {}
  PROVE  Write!IInv'
<1>a. Client!Queue(requests) BY DEF Write!IInv, Write!Queue, Client!Queue
<1>1. PICK n \in Nat \ {0} :
        /\ requests'[n] = q
        /\ \A c : Write!Asked(c)' = IF q.cmd = c THEN Write!Asked(c) \union {n} ELSE Write!Asked(c)
  BY <1>a, AskKeeps
<1>2. /\ \A c \in {"open", "close", "write"} : Write!Asked(c)' = Write!Asked(c)
      /\ Write!Asked("read")' = Write!Asked("read") \union {n}
  BY <1>1
<1>3. \A c \in {"open", "close", "write"} : /\ Write!Single(c) => Write!Single(c)'
                                            /\ Write!Idle(c) => Write!Idle(c)'
  BY <1>2, SingleKeeps
<1>4. /\ Client!Queue(requests') /\ \A i \in DOMAIN requests : requests'[i] = requests[i]
  BY <1>a, AskKeeps
<1>5. /\ Write!item' = Write!item
      /\ \A h : Write!Begins(h)' <=> Write!Begins(h)
      /\ \A x : Write!IsPart(x)' <=> Write!IsPart(x)
  BY ItemStays
<1>6. Write!Idle("open")'
  BY <1>2, <1>3 DEF Write!Idle, Write!IInv, Write!OneAtATime
<1>7. phase = "before" => Write!Single("read")' BY <1>2, SingleAsks
<1>8. Write!OneAtATime' BY <1>3, <1>6, <1>7 DEF Write!IInv, Write!OneAtATime, Write!Stages
<1>9. Write!DescriptorsInUse' BY DescriptorsAsk
<1>10. Write!ReadIsBegin'
  <2>1. phase = "before" => Write!Asked("read")' = {n} BY <1>2
  <2>2. requests'[n].off = off' BY <1>1
  <2> QED BY <1>5, <2>1, <2>2 DEF Write!ReadIsBegin, IsRead, Write!Queue, Client!Queue
<1>11. Write!WrittenBegins'
  <2>1. \A i \in Write!Asked("write")' : i \in Write!Asked("write") /\ requests'[i] = requests[i]
    BY <1>2, <1>4 DEF Write!Asked
  <2> QED BY <1>5, <2>1 DEF Write!IInv, Write!WrittenBegins
<1>12. Write!Stages' BY DEF Write!IInv, Write!Stages
<1>13. Write!Queue(requests)' /\ Write!Queue(replies)' /\ Write!Queue(open)'
  BY <1>4 DEF Write!IInv, Write!Queue, Client!Queue, Fewer
<1> QED BY <1>5, <1>8, <1>9, <1>10, <1>11, <1>12, <1>13 DEF Write!IInv

\* The next part is written.
LEMMA WriteKeeps ==
  ASSUME Write!IInv, Fewer, UNCHANGED <<files, open, data, phase, rc>>,
         NEW q, requests' = Append(requests, q),
         q.cmd = "write", q.fd = fd', q.off = off', Write!IsPart(q),
         pc' = "write", Write!IsOpen(fd'), off' \in 0 .. Len(data), Write!Begins(off'),
         \/ pc = "openw" /\ Write!Asked("open") = {} /\ Write!Answered("open")' = {}
         \/ pc = "write",
         Write!Asked("write") = {}, Write!Answered("write")' = {}
  PROVE  Write!IInv'
<1>a. Client!Queue(requests) BY DEF Write!IInv, Write!Queue, Client!Queue
<1>1. PICK n \in Nat \ {0} :
        /\ requests'[n] = q
        /\ \A c : Write!Asked(c)' = IF q.cmd = c THEN Write!Asked(c) \union {n} ELSE Write!Asked(c)
  BY <1>a, AskKeeps
<1>2. /\ \A c \in {"open", "close", "read"} : Write!Asked(c)' = Write!Asked(c)
      /\ Write!Asked("write")' = Write!Asked("write") \union {n} /\ Write!Asked("write")' = {n}
  BY <1>1
<1>3. \A c \in {"open", "close", "read"} : /\ Write!Single(c) => Write!Single(c)'
                                           /\ Write!Idle(c) => Write!Idle(c)'
  BY <1>2, SingleKeeps
<1>4. Client!Queue(requests') BY <1>a, AskKeeps
<1>5. /\ Write!item' = Write!item
      /\ \A h : Write!Begins(h)' <=> Write!Begins(h)
      /\ \A x : Write!IsPart(x)' <=> Write!IsPart(x)
  BY ItemStays
<1>6. Write!Idle("open")'
  BY <1>2, <1>3 DEF Write!Idle, Write!IInv, Write!OneAtATime
<1>7. Write!Single("write")' BY <1>2, SingleAsks
<1>8. phase = "write" /\ rc = 0 BY DEF Write!IInv, Write!Stages
<1>9. Write!OneAtATime' BY <1>3, <1>6, <1>7, <1>8 DEF Write!IInv, Write!OneAtATime
<1>10. Write!DescriptorsInUse' BY DescriptorsAsk
<1>11. Write!ReadIsBegin' BY <1>8 DEF Write!ReadIsBegin
<1>12. Write!WrittenBegins'
  <2>1. Len(data) <= Len(Write!item) BY <1>8 DEF Write!IInv, Write!WrittenBegins
  <2>2. \A i \in Write!Asked("write")' : requests'[i] = q BY <1>1, <1>2
  <2> QED BY <1>5, <1>8, <2>1, <2>2 DEF Write!WrittenBegins
<1>13. Write!Stages' BY <1>8 DEF Write!IInv, Write!Stages
<1>14. Write!Queue(requests)' /\ Write!Queue(replies)' /\ Write!Queue(open)'
  BY <1>4 DEF Write!IInv, Write!Queue, Client!Queue, Fewer
<1> QED BY <1>5, <1>9, <1>10, <1>11, <1>12, <1>13, <1>14 DEF Write!IInv

LEMMA QueuePart ==
  ASSUME NEW s, Client!Queue(s), NEW o \in 0 .. Len(s), NEW m \in o .. Len(s)
  PROVE  /\ Client!Queue(SubSeq(s, o + 1, m)) /\ Len(SubSeq(s, o + 1, m)) = m - o
         /\ \A u \in 1 .. m - o : SubSeq(s, o + 1, m)[u] = s[o + u]
<1> DEFINE S == {s[i] : i \in 1 .. Len(s)}
           e == SubSeq(s, o + 1, m)
<1>1. s \in Seq(S) /\ Len(s) \in Nat BY QueueIsSeq, QueueDomain
<1> HIDE DEF S
<1>2. e \in Seq(S) /\ Len(e) = m - o BY <1>1
<1>3. \A u \in 1 .. m - o : e[u] = s[o + u] BY <1>1
<1>4. Client!Queue(e) BY <1>2, SeqIsQueue
<1> QED BY <1>2, <1>3, <1>4

\* A part asked to be written is one of the value.
LEMMA PartIs ==
  ASSUME data \in Seq(Write!Units), NEW o \in 0 .. Len(data), NEW q, q.off = o,
         q.part = SubSeq(data, o + 1, Write!Least(o + WriteChunk, Len(data))), ConstantsAssumption
  PROVE  Write!IsPart(q)
<1>1. Client!Queue(data) /\ Len(data) \in Nat BY SeqIsQueue
<1>2. PICK m : m = Write!Least(o + WriteChunk, Len(data)) OBVIOUS
<1>3. PICK p : p = q.part OBVIOUS
<1>a. WriteChunk \in Nat BY DEF ConstantsAssumption
<1>4. m \in o .. Len(data) BY ONLY o \in 0 .. Len(data), <1>1, <1>2, <1>a DEF Write!Least
<1>5. p = SubSeq(data, o + 1, m) BY <1>2, <1>3
<1>6. /\ Client!Queue(p) /\ Len(p) = m - o
      /\ \A u \in 1 .. m - o : p[u] = data[o + u]
  BY ONLY <1>1, <1>4, <1>5, o \in 0 .. Len(data), QueuePart
<1>7. q.off \in Nat /\ q.off + Len(q.part) <= Len(data)
  BY ONLY <1>1, <1>3, <1>4, <1>6, q.off = o, o \in 0 .. Len(data)
<1>8. Write!Queue(q.part) BY <1>3, <1>6 DEF Write!Queue, Client!Queue
<1>9. \A u \in 1 .. Len(q.part) : q.part[u] = data[q.off + u] BY <1>3, <1>6
<1> QED BY <1>7, <1>8, <1>9 DEF Write!IsPart

\* What a reply that came in time, or none, leaves of the replies.
LEMMA GotKeeps ==
  ASSUME Write!IInv, NEW p, NEW c, NEW r, Write!Got(p, c, r)
  PROVE  /\ pc = p /\ Fewer /\ UNCHANGED <<files, open>>
         /\ \E i \in Write!Answered(c) : r = replies[i]
         /\ Write!Single(c) => Write!Asked(c) = {} /\ Write!Answered(c)' = {}
<1>1. pc = p /\ Write!Receive(c, r) /\ UNCHANGED <<files, open>> BY DEF Write!Got
<1>2. Client!Queue(replies) BY DEF Write!IInv, Write!Queue, Client!Queue
<1>3. /\ Fewer /\ \E i \in Write!Answered(c) : r = replies[i]
      /\ (\A i, j \in Write!Answered(c) : i = j) => Write!Answered(c)' = {}
  BY <1>1, <1>2, ReceiveKeeps
<1> QED BY <1>1, <1>3 DEF Write!Single

LEMMA NoneKeeps ==
  ASSUME Write!IInv, Write!NoAnswer PROVE Fewer
<1>1. Client!Queue(replies) BY DEF Write!IInv, Write!Queue, Client!Queue
<1> QED BY <1>1, NoAnswerKeeps

LEMMA WriteStarts ==
  ASSUME Write!IInv, Write!Start PROVE Write!IInv'
<1>1. /\ pc = "start" /\ pc' = "open"
      /\ requests' = Append(requests, [cmd |-> "open", path |-> "item"])
      /\ UNCHANGED <<replies, files, open, phase, data, rc>>
  BY DEF Write!Start, Write!AskOpen, Write!Ask, Write!Send
<1>2. phase = "before" /\ rc = 0 BY <1>1 DEF Write!IInv, Write!Stages
<1>3. Client!Queue(replies) BY DEF Write!IInv, Write!Queue, Client!Queue
<1>4. Fewer BY <1>1, <1>3, SameIsFewer
<1> QED BY <1>1, <1>2, <1>4, OpenKeeps

LEMMA FileOpens ==
  ASSUME Write!IInv, Write!FileOpened, UNCHANGED <<phase, rc, data>> PROVE Write!IInv'
<1>1. PICK r \in Write!Replies :
        /\ Write!Got("open", "open", r) /\ r.err = 0 /\ Write!AskRead(r.fd, 0)
        /\ fd' = r.fd /\ off' = 0 /\ buf' = <<>>
  BY DEF Write!FileOpened
<1>2. PICK q : q = [cmd |-> "read", fd |-> r.fd, off |-> 0] OBVIOUS
<1>3. pc' = "read" /\ requests' = Append(requests, q) BY <1>1, <1>2 DEF Write!AskRead, Write!Ask, Write!Send
<1>4. /\ pc = "open" /\ Fewer /\ UNCHANGED <<files, open>>
      /\ \E i \in Write!Answered("open") : r = replies[i]
      /\ Write!Asked("open") = {} /\ Write!Answered("open")' = {}
  BY <1>1, GotKeeps DEF Write!IInv, Write!OneAtATime
<1>5. Write!IsOpen(r.fd) BY <1>1, <1>4 DEF Write!IInv, Write!DescriptorsInUse
<1>6. phase = "before" => Write!Asked("read") = {} /\ Write!Answered("read")' = {}
  BY <1>4 DEF Write!IInv, Write!OneAtATime, Write!Idle, Fewer
<1>7. IsRead
  <2>1. Len(buf') = 0 /\ Client!Queue(buf') BY <1>1 DEF Client!Queue
  <2>2. Len(Write!item) \in Nat BY DEF Write!IInv
  <2> QED BY <1>1, <2>1, <2>2 DEF IsRead
<1>8. q.cmd = "read" /\ q.fd = fd' /\ q.off = off' BY <1>1, <1>2
<1> QED BY <1>1, <1>3, <1>4, <1>5, <1>6, <1>7, <1>8, ReadKeeps

LEMMA NotOpens ==
  ASSUME Write!IInv, Write!NotOpened, Write!AfterRead(Write!NoFile), UNCHANGED data, ConstantsAssumption
  PROVE  Write!IInv'
<1>1. Fewer /\ UNCHANGED <<files, open>>
  BY GotKeeps, NoneKeeps DEF Write!NotOpened, Write!NoneFor
<1>2. data # Write!NoFile BY DEF Write!IInv, Write!NoFile, ConstantsAssumption
<1>3. Write!Exit(1) BY <1>2 DEF Write!AfterRead, Write!Decide, Write!Verdict
<1> QED BY <1>1, <1>3, EndKeeps DEF Write!Exit

\* A block that is read is added to what was.
LEMMA BlocksRead ==
  ASSUME Write!IInv, Write!BlockRead, UNCHANGED <<phase, rc, data>> PROVE Write!IInv'
<1>1. CASE Write!NoneFor("read") /\ Write!AskClose(fd, "close") /\ UNCHANGED <<buf, off, fd>>
  <2>1. /\ pc = "read" /\ pc' = "close" /\ requests' = Append(requests, [cmd |-> "close", fd |-> fd])
        /\ UNCHANGED <<files, open, buf, off, fd>>
    BY <1>1 DEF Write!NoneFor, Write!AskClose, Write!Ask, Write!Send
  <2>2. Fewer BY <1>1, NoneKeeps DEF Write!NoneFor
  <2>3. phase = "before" => IsRead
    BY <2>1 DEF Write!IInv, Write!ReadIsBegin, IsRead, Write!Queue, Client!Queue
  <2>4. rc = 0 BY <2>1 DEF Write!IInv, Write!Stages
  <2> QED BY <2>1, <2>2, <2>3, <2>4, CloseKeeps
<1>2. ASSUME NEW r \in Write!Replies, Write!Got("read", "read", r),
             buf' = buf \o r.body, off' = off + r.n, UNCHANGED fd,
             Write!AskClose(fd, "close") \/ Write!AskRead(fd, off')
      PROVE  Write!IInv'
  <2>1. /\ pc = "read" /\ Fewer /\ UNCHANGED <<files, open>>
        /\ \E i \in Write!Answered("read") : r = replies[i]
        /\ Write!Single("read") => Write!Asked("read") = {} /\ Write!Answered("read")' = {}
    BY <1>2, GotKeeps
  <2>2. phase = "before" => Write!Asked("read") = {} /\ Write!Answered("read")' = {}
    BY <2>1 DEF Write!IInv, Write!OneAtATime
  <2>3. phase = "before" => IsRead
    <3> SUFFICES ASSUME phase = "before" PROVE IsRead OBVIOUS
    <3>1. /\ Client!Queue(buf) /\ off = Len(buf) /\ off <= Len(Write!item)
          /\ \A u \in 1 .. off : Write!item[u] = buf[u]
          /\ Write!IsBlock(r)
      BY <2>1 DEF Write!IInv, Write!ReadIsBegin, Write!Queue, Client!Queue
    <3>2. /\ Client!Queue(r.body) /\ r.n = Len(r.body)
          /\ off + r.n <= Len(Write!item) /\ \A u \in 1 .. r.n : Write!item[off + u] = r.body[u]
      BY <3>1 DEF Write!IsBlock, Write!Queue, Client!Queue
    <3>3. /\ Client!Queue(buf') /\ Len(buf') = off + r.n
          /\ \A i \in 1 .. off + r.n : buf'[i] = IF i <= off THEN buf[i] ELSE r.body[i - off]
      BY <1>2, <3>1, <3>2, QueueConcat
    <3>4. off \in Nat /\ r.n \in Nat BY <3>1, <3>2, QueueDomain
    <3>5. ASSUME NEW u \in 1 .. off' PROVE Write!item[u] = buf'[u]
      <4>1. CASE u <= off BY <1>2, <3>1, <3>3, <3>4, <4>1
      <4>2. CASE u > off
        <5>1. u - off \in 1 .. r.n /\ off + (u - off) = u BY <1>2, <3>4, <4>2
        <5>2. Write!item[u] = r.body[u - off] BY <3>2, <5>1
        <5> QED BY <1>2, <3>3, <3>4, <4>2, <5>2
      <4> QED BY <3>4, <4>1, <4>2
    <3> QED BY <1>2, <3>2, <3>3, <3>5 DEF IsRead
  <2>4. rc = 0 /\ Write!IsOpen(fd) BY <2>1 DEF Write!IInv, Write!Stages, Write!DescriptorsInUse
  <2>5. CASE Write!AskClose(fd, "close")
    <3>1. pc' = "close" /\ requests' = Append(requests, [cmd |-> "close", fd |-> fd])
      BY <2>5 DEF Write!AskClose, Write!Ask, Write!Send
    <3> QED BY <1>2, <2>1, <2>3, <2>4, <3>1, CloseKeeps
  <2>6. CASE Write!AskRead(fd, off')
    <3>1. PICK q : q = [cmd |-> "read", fd |-> fd, off |-> off'] OBVIOUS
    <3>2. pc' = "read" /\ requests' = Append(requests, q) BY <2>6, <3>1 DEF Write!AskRead, Write!Ask, Write!Send
    <3>3. q.cmd = "read" /\ q.fd = fd' /\ q.off = off' /\ Write!IsOpen(fd') BY <1>2, <2>4, <3>1
    <3> QED BY <2>1, <2>2, <2>3, <3>2, <3>3, ReadKeeps
  <2> QED BY <1>2, <2>5, <2>6
<1> QED BY <1>1, <1>2 DEF Write!BlockRead

\* After a read: the value is refused, there already, or written; or it is
\* the read-back, and counts when it is the value.
LEMMA FileCloses ==
  ASSUME Write!IInv, Write!FileClosed, Write!AfterRead(buf), UNCHANGED data PROVE Write!IInv'
<1>1. pc = "close" /\ Fewer /\ UNCHANGED <<files, open>>
  BY GotKeeps, NoneKeeps DEF Write!FileClosed, Write!NoneFor
<1>2. rc = 0 /\ phase \in {"before", "after"} BY <1>1 DEF Write!IInv, Write!Stages
<1>3. /\ phase = "before" => /\ off = Len(buf) /\ off <= Len(Write!item)
                             /\ \A u \in 1 .. off : Write!item[u] = buf[u]
      /\ phase = "after" => Write!Begins(Len(data))
  BY <1>1 DEF Write!IInv, Write!ReadIsBegin, Write!WrittenBegins
<1>4. CASE Write!Exit(1) BY <1>1, <1>4, EndKeeps DEF Write!Exit
<1>5. CASE Write!Exit(0) /\ buf = data
  <2>1. Write!Begins(Len(data)) BY <1>2, <1>3, <1>5 DEF Write!Begins
  <2> QED BY <1>1, <1>2, <1>5, <2>1, EndKeeps DEF Write!Exit
<1>6. CASE phase = "before" /\ Len(data) = Len(buf) /\ Write!GoOn("write", "openw")
  <2>1. /\ pc' = "openw" /\ phase' = "write" /\ rc' = 0 /\ Len(data) <= Len(Write!item)
        /\ requests' = Append(requests, [cmd |-> "open", path |-> "item"])
    BY <1>2, <1>3, <1>6 DEF Write!GoOn, Write!AskOpen, Write!Ask, Write!Send
  <2> QED BY <1>1, <1>2, <2>1, OpenKeeps
<1> QED BY <1>2, <1>4, <1>5, <1>6 DEF Write!AfterRead, Write!Decide, Write!Verdict

LEMMA OpensForWrite ==
  ASSUME Write!IInv, Write!OpenedForWrite, UNCHANGED data, ConstantsAssumption PROVE Write!IInv'
<1>1. CASE Write!NoneFor("openw") /\ Write!Exit(1)
  <2>1. Fewer /\ UNCHANGED <<files, open>> BY <1>1, NoneKeeps DEF Write!NoneFor
  <2> QED BY <1>1, <2>1, EndKeeps DEF Write!Exit
<1>2. ASSUME NEW r \in Write!Replies, Write!Got("openw", "open", r),
             IF r.err # 0
               THEN Write!Exit(1) /\ UNCHANGED <<off, fd>>
               ELSE Write!AskWrite(r.fd, 0) /\ fd' = r.fd /\ off' = 0 /\ UNCHANGED <<phase, rc>>
      PROVE  Write!IInv'
  <2>1. /\ pc = "openw" /\ Fewer /\ UNCHANGED <<files, open>>
        /\ \E i \in Write!Answered("open") : r = replies[i]
        /\ Write!Asked("open") = {} /\ Write!Answered("open")' = {}
    BY <1>2, GotKeeps DEF Write!IInv, Write!OneAtATime
  <2>2. CASE r.err # 0 BY <1>2, <2>1, <2>2, EndKeeps DEF Write!Exit
  <2>3. CASE r.err = 0
    <3>1. PICK q : q = [cmd |-> "write", fd |-> r.fd, off |-> 0,
                        part |-> SubSeq(data, 0 + 1, Write!Least(0 + WriteChunk, Len(data)))]
      OBVIOUS
    <3>2. /\ q.cmd = "write" /\ q.fd = r.fd /\ q.off = 0
          /\ q.part = SubSeq(data, 0 + 1, Write!Least(0 + WriteChunk, Len(data)))
      BY <3>1
    <3>3. pc' = "write" /\ requests' = Append(requests, q)
      BY <1>2, <2>3, <3>1 DEF Write!AskWrite, Write!Ask, Write!Send
    <3>4. fd' = r.fd /\ off' = 0 /\ UNCHANGED <<phase, rc>> BY <1>2, <2>3
    <3>5. Write!IsOpen(r.fd) BY <2>1, <2>3 DEF Write!IInv, Write!DescriptorsInUse
    <3>6. data \in Seq(Write!Units) /\ Len(data) \in Nat /\ Len(Write!item) \in Nat BY DEF Write!IInv
    <3>7. Write!IsPart(q)
      <4>1. 0 \in 0 .. Len(data) BY <3>6
      <4> QED BY ONLY <3>2, <3>6, <4>1, PartIs, ConstantsAssumption
    <3>8. Write!Begins(0) BY <3>6 DEF Write!Begins
    <3>9. Write!Asked("write") = {} /\ Write!Answered("write")' = {}
      BY <2>1 DEF Write!IInv, Write!Stages, Write!OneAtATime, Write!Idle, Fewer
    <3>10. q.fd = fd' /\ q.off = off' /\ Write!IsOpen(fd') /\ off' \in 0 .. Len(data) /\ Write!Begins(off')
      BY <3>2, <3>4, <3>5, <3>6, <3>8
    <3> QED BY <2>1, <3>2, <3>3, <3>4, <3>7, <3>9, <3>10, WriteKeeps
  <2> QED BY <2>2, <2>3
<1> QED BY <1>1, <1>2 DEF Write!OpenedForWrite

\* The write ends without the value.
LEMMA RefusedKeeps ==
  ASSUME Write!IInv, Fewer, pc = "write", Write!Refused, UNCHANGED <<files, open, data, phase, fd>>
  PROVE  Write!IInv'
<1>1. pc' = "closew" /\ rc' = 1 /\ requests' = Append(requests, [cmd |-> "close", fd |-> fd])
  BY DEF Write!Refused, Write!AskClose, Write!Ask, Write!Send
<1> QED BY <1>1, CloseKeeps

LEMMA PartsWritten ==
  ASSUME Write!IInv, Write!Wrote, UNCHANGED data, ConstantsAssumption PROVE Write!IInv'
<1>0. UNCHANGED <<phase, fd>> BY DEF Write!Wrote
<1>1. CASE Write!NoneFor("write") /\ Write!Refused
  <2>1. pc = "write" /\ Fewer /\ UNCHANGED <<files, open>> BY <1>1, NoneKeeps DEF Write!NoneFor
  <2> QED BY <1>0, <1>1, <2>1, RefusedKeeps
<1>2. ASSUME NEW r \in Write!Replies, Write!Got("write", "write", r), off' = off + r.n,
             Write!Refused \/ Write!GoOnWriting
      PROVE  Write!IInv'
  <2>1. /\ pc = "write" /\ Fewer /\ UNCHANGED <<files, open>>
        /\ \E i \in Write!Answered("write") : r = replies[i]
        /\ Write!Asked("write") = {} /\ Write!Answered("write")' = {}
    BY <1>2, GotKeeps DEF Write!IInv, Write!OneAtATime
  <2>2. CASE Write!Refused BY <1>0, <2>1, <2>2, RefusedKeeps
  <2>3. CASE Write!GoOnWriting
    <3>1. rc = 0 /\ rc' = 0 /\ phase = "write" BY <2>1, <2>3 DEF Write!GoOnWriting, Write!IInv, Write!Stages
    <3>2. /\ off \in 0 .. Len(data) /\ r.n \in 0 .. Len(data) - off /\ Write!Begins(off + r.n)
      BY <2>1, <3>1 DEF Write!IInv, Write!WrittenBegins
    <3>3. data \in Seq(Write!Units) /\ Len(data) \in Nat BY DEF Write!IInv
    <3>4. off' \in 0 .. Len(data) /\ Write!Begins(off') BY <1>2, <3>2, <3>3
    <3>5. CASE off' < Len(data)
      <4>0. Write!AskWrite(fd, off') BY <2>3, <3>5 DEF Write!GoOnWriting
      <4>1. PICK q : q = [cmd |-> "write", fd |-> fd, off |-> off',
                          part |-> SubSeq(data, off' + 1, Write!Least(off' + WriteChunk, Len(data)))]
        OBVIOUS
      <4>2. /\ q.cmd = "write" /\ q.fd = fd /\ q.off = off'
            /\ q.part = SubSeq(data, off' + 1, Write!Least(off' + WriteChunk, Len(data)))
        BY <4>1
      <4>3. pc' = "write" /\ requests' = Append(requests, q)
        BY <4>0, <4>1 DEF Write!AskWrite, Write!Ask, Write!Send
      <4>4. PICK o : o = off' OBVIOUS
      <4>5. Write!IsPart(q)
        <5>1. o \in 0 .. Len(data) BY <3>4, <4>4
        <5>2. q.off = o /\ q.part = SubSeq(data, o + 1, Write!Least(o + WriteChunk, Len(data))) BY <4>2, <4>4
        <5> QED BY ONLY <3>3, <5>1, <5>2, PartIs, ConstantsAssumption
      <4>6. Write!IsOpen(fd) BY <2>1 DEF Write!IInv, Write!DescriptorsInUse
      <4>7. fd' = fd /\ q.fd = fd' /\ Write!IsOpen(fd') BY <1>0, <4>2, <4>6
      <4> QED BY <1>0, <2>1, <3>1, <3>4, <4>2, <4>3, <4>5, <4>7, WriteKeeps
    <3>6. CASE ~(off' < Len(data))
      <4>1. pc' = "closew" /\ requests' = Append(requests, [cmd |-> "close", fd |-> fd])
        BY <2>3, <3>6 DEF Write!GoOnWriting, Write!AskClose, Write!Ask, Write!Send
      <4>2. off' = Len(data) BY <3>3, <3>4, <3>6
      <4>3. Write!Begins(Len(data)) BY <3>4, <4>2
      <4> QED BY <1>0, <2>1, <3>1, <4>1, <4>2, <4>3, CloseKeeps
    <3> QED BY <3>5, <3>6
  <2> QED BY <1>2, <2>2, <2>3
<1> QED BY <1>1, <1>2 DEF Write!Wrote

LEMMA ClosesAfterWrite ==
  ASSUME Write!IInv, Write!ClosedAfterWrite, UNCHANGED data PROVE Write!IInv'
<1>1. pc = "closew" /\ Fewer /\ UNCHANGED <<files, open>>
  BY GotKeeps, NoneKeeps DEF Write!ClosedAfterWrite, Write!NoneFor
<1>2. CASE rc = 1 BY <1>1, <1>2, EndKeeps DEF Write!ClosedAfterWrite, Write!Exit
<1>3. CASE rc # 1
  <2>1. rc = 0 BY <1>3 DEF Write!IInv, Write!Stages
  <2>2. Write!Begins(Len(data)) BY <1>1, <2>1 DEF Write!IInv, Write!WrittenBegins
  <2>3. /\ pc' = "open" /\ phase' = "after" /\ rc' = rc
        /\ requests' = Append(requests, [cmd |-> "open", path |-> "item"])
    BY <1>3 DEF Write!ClosedAfterWrite, Write!GoOn, Write!AskOpen, Write!Ask, Write!Send
  <2> QED BY <1>1, <2>1, <2>2, <2>3, OpenKeeps
<1> QED BY <1>2, <1>3

LEMMA TickKeeps ==
  ASSUME Write!IInv, Write!TickEscapes, UNCHANGED data PROVE Write!IInv'
<1>1. Fewer /\ UNCHANGED <<files, open, fd>> BY NoneKeeps DEF Write!TickEscapes
<1>2. CASE pc = "write" /\ Write!Refused /\ UNCHANGED phase BY <1>1, <1>2, RefusedKeeps
<1>3. CASE Write!Exit(1) BY <1>1, <1>3, EndKeeps DEF Write!Exit
<1> QED BY <1>2, <1>3 DEF Write!TickEscapes

LEMMA WriterKeeps ==
  ASSUME Write!IInv, Write!Start \/ Write!Client, ConstantsAssumption PROVE Write!IInv'
<1>1. CASE Write!Start BY <1>1, WriteStarts
<1>2. CASE Write!Client
  <2>1. UNCHANGED data BY <1>2 DEF Write!Client
  <2>2. CASE Write!FileOpened /\ UNCHANGED <<phase, rc>> BY <2>1, <2>2, FileOpens
  <2>3. CASE Write!NotOpened /\ Write!AfterRead(Write!NoFile) BY <2>1, <2>3, NotOpens
  <2>4. CASE Write!BlockRead /\ UNCHANGED <<phase, rc>> BY <2>1, <2>4, BlocksRead
  <2>5. CASE Write!FileClosed /\ Write!AfterRead(buf) BY <2>1, <2>5, FileCloses
  <2>6. CASE Write!OpenedForWrite BY <2>1, <2>6, OpensForWrite
  <2>7. CASE Write!Wrote BY <2>1, <2>7, PartsWritten
  <2>8. CASE Write!ClosedAfterWrite BY <2>1, <2>8, ClosesAfterWrite
  <2>9. CASE Write!TickEscapes BY <2>1, <2>9, TickKeeps
  <2> QED BY <1>2, <2>2, <2>3, <2>4, <2>5, <2>6, <2>7, <2>8, <2>9 DEF Write!Client
<1> QED BY <1>1, <1>2

-----------------------------------------------------------------------------
(* The modem takes the request that came first and answers r.              *)

Takes(r) ==
  /\ requests # <<>> /\ requests' = Tail(requests) /\ replies' = Append(replies, r)
  /\ r.cmd = requests[1].cmd

LEMMA TakeKeeps ==
  ASSUME Client!Queue(requests), Client!Queue(replies), NEW r, Takes(r)
  PROVE  /\ Client!Queue(requests') /\ Client!Queue(replies')
         /\ \A c : \A i \in Write!Asked(c)' :
              i \in Nat \ {0} /\ i + 1 \in Write!Asked(c) /\ requests'[i] = requests[i + 1]
         /\ \E n : \A c : \A i \in Write!Answered(c)' :
              \/ i \in Write!Answered(c) /\ replies'[i] = replies[i]
              \/ i = n /\ r.cmd = c /\ replies'[i] = r
         /\ 1 \in Write!Asked(r.cmd)
<1>1. /\ Client!Queue(requests') /\ Len(requests') \in Nat
      /\ DOMAIN requests' = 1 .. Len(requests') /\ 1 \in DOMAIN requests
      /\ \A i \in DOMAIN requests' : i + 1 \in DOMAIN requests /\ requests'[i] = requests[i + 1]
  BY QueueTail, QueueDomain DEF Takes
<1>2. /\ Client!Queue(replies') /\ DOMAIN replies' = 1 .. Len(replies) + 1
      /\ DOMAIN replies = 1 .. Len(replies) /\ Len(replies) \in Nat
      /\ \A i \in DOMAIN replies : replies'[i] = replies[i]
      /\ replies'[Len(replies) + 1] = r
  BY QueueAppend, QueueDomain DEF Takes
<1>3. \A c : \A i \in Write!Asked(c)' :
        i \in Nat \ {0} /\ i + 1 \in Write!Asked(c) /\ requests'[i] = requests[i + 1]
  BY <1>1 DEF Write!Asked
<1>4. \A c : \A i \in Write!Answered(c)' :
        \/ i \in Write!Answered(c) /\ replies'[i] = replies[i]
        \/ i = Len(replies) + 1 /\ r.cmd = c /\ replies'[i] = r
  <2> SUFFICES ASSUME NEW c, NEW i \in Write!Answered(c)'
               PROVE  \/ i \in Write!Answered(c) /\ replies'[i] = replies[i]
                      \/ i = Len(replies) + 1 /\ r.cmd = c /\ replies'[i] = r
    OBVIOUS
  <2>1. i \in DOMAIN replies' /\ replies'[i].cmd = c BY DEF Write!Answered
  <2>2. CASE i \in DOMAIN replies BY <1>2, <2>1, <2>2 DEF Write!Answered
  <2>3. CASE i = Len(replies) + 1 BY <1>2, <2>1, <2>3
  <2> QED BY <1>2, <2>1, <2>2, <2>3
<1>5. 1 \in Write!Asked(r.cmd) BY <1>1 DEF Takes, Write!Asked
<1> QED BY <1>1, <1>2, <1>3, <1>4, <1>5

\* One command of a kind is still one, asked or answered.
LEMMA TakeSingle ==
  ASSUME Client!Queue(requests), Client!Queue(replies), NEW r, Takes(r), NEW c
  PROVE  /\ Write!Single(c) => Write!Single(c)'
         /\ Write!Idle(c) => Write!Idle(c)'
<1>1. /\ \A i \in Write!Asked(c)' : i \in Nat \ {0} /\ i + 1 \in Write!Asked(c)
      /\ 1 \in Write!Asked(r.cmd)
  BY TakeKeeps
<1>2. PICK n : \A i \in Write!Answered(c)' : i \in Write!Answered(c) \/ (i = n /\ r.cmd = c)
  BY TakeKeeps
<1>3. ASSUME Write!Idle(c) PROVE Write!Idle(c)'
  BY <1>1, <1>2, <1>3 DEF Write!Idle
<1>4. ASSUME Write!Single(c) PROVE Write!Single(c)'
  <2>1. CASE r.cmd = c
    <3>1. Write!Answered(c) = {} /\ \A i \in Write!Asked(c) : i = 1 BY <1>1, <1>4, <2>1 DEF Write!Single
    <3>2. Write!Asked(c)' = {}
      <4> SUFFICES ASSUME NEW i \in Write!Asked(c)' PROVE FALSE OBVIOUS
      <4>1. i \in Nat \ {0} /\ i + 1 = 1 BY <1>1, <3>1
      <4> QED BY <4>1
    <3> QED BY <1>2, <3>1, <3>2 DEF Write!Single
  <2>2. CASE r.cmd # c
    <3>1. \A i, j \in Write!Asked(c)' : i = j
      <4> SUFFICES ASSUME NEW i \in Write!Asked(c)', NEW j \in Write!Asked(c)' PROVE i = j OBVIOUS
      <4>1. i \in Nat /\ j \in Nat /\ i + 1 = j + 1 BY <1>1, <1>4 DEF Write!Single
      <4> QED BY <4>1
    <3> QED BY <1>1, <1>2, <1>4, <2>2, <3>1 DEF Write!Single
  <2> QED BY <2>1, <2>2
<1> QED BY <1>3, <1>4

\* A descriptor in use stays open: what closes one comes after what uses it.
LEMMA TakeDescriptors ==
  ASSUME Write!IInv, NEW r, Takes(r), UNCHANGED <<pc, fd>>,
         Len(open') \in Nat, Len(open) <= Len(open'),
         \A f \in 1 .. Len(open) :
           open'[f] = open[f] \/ (requests[1].cmd = "close" /\ requests[1].fd = f),
         r.cmd = "open" /\ r.err = 0 =>
           r.fd \in 1 .. Len(open') /\ r.fd > Len(open) /\ open'[r.fd] = "item"
  PROVE  Write!DescriptorsInUse'
<1>0. Client!Queue(requests) /\ Client!Queue(replies) /\ Len(open) \in Nat
  BY DEF Write!IInv, Write!Queue, Client!Queue
<1>1. /\ \A c : \A i \in Write!Asked(c)' :
           i \in Nat \ {0} /\ i + 1 \in Write!Asked(c) /\ requests'[i] = requests[i + 1]
      /\ 1 \in Write!Asked(r.cmd) /\ r.cmd = requests[1].cmd
  BY <1>0, TakeKeeps DEF Takes
<1>2. PICK n : \A i \in Write!Answered("open")' :
        \/ i \in Write!Answered("open") /\ replies'[i] = replies[i]
        \/ i = n /\ r.cmd = "open" /\ replies'[i] = r
  <2>1. PICK n : \A c : \A i \in Write!Answered(c)' :
          \/ i \in Write!Answered(c) /\ replies'[i] = replies[i]
          \/ i = n /\ r.cmd = c /\ replies'[i] = r
    BY <1>0, TakeKeeps
  <2> QED BY <2>1
<1>3. Write!DescriptorsInUse BY DEF Write!IInv
<1>4. requests[1].cmd = "close" => 1 \in Write!Asked("close") BY <1>1
<1>5. ASSUME NEW f, Write!IsOpen(f)
      PROVE  f \in 1 .. Len(open') /\ open'[f] = "item" /\ \A i \in Write!Asked("close")' : requests'[i].fd # f
  BY <1>0, <1>1, <1>4, <1>5 DEF Write!IsOpen
<1>6. \A i \in Write!Asked("open")' : requests'[i].path = "item"
  BY <1>1, <1>3 DEF Write!DescriptorsInUse
<1>7. \A i \in Write!Asked("close")' : requests'[i].fd \in 1 .. Len(open)
  BY <1>1, <1>3 DEF Write!DescriptorsInUse
<1>8. ASSUME NEW i \in Write!Answered("open")', replies'[i].err = 0
      PROVE  /\ replies'[i].fd \in 1 .. Len(open') /\ open'[replies'[i].fd] = "item"
             /\ \A j \in Write!Asked("close")' : requests'[j].fd # replies'[i].fd
  <2>1. CASE i \in Write!Answered("open") /\ replies'[i] = replies[i]
    <3>1. Write!IsOpen(replies'[i].fd) BY <1>3, <1>8, <2>1 DEF Write!DescriptorsInUse
    <3> QED BY <1>5, <3>1
  <2>2. CASE i = n /\ r.cmd = "open" /\ replies'[i] = r
    <3>1. /\ replies'[i].fd \in 1 .. Len(open') /\ replies'[i].fd > Len(open)
          /\ open'[replies'[i].fd] = "item"
      BY <1>8, <2>2
    <3>2. ASSUME NEW j \in Write!Asked("close")' PROVE requests'[j].fd # replies'[i].fd
      BY <1>0, <1>7, <3>1
    <3> QED BY <3>1, <3>2
  <2> QED BY <1>2, <2>1, <2>2
<1>9. ASSUME NEW i \in Write!Asked("read")' \union Write!Asked("write")'
      PROVE  /\ requests'[i].fd \in 1 .. Len(open') /\ open'[requests'[i].fd] = "item"
             /\ \A j \in Write!Asked("close")' : j < i => requests'[j].fd # requests'[i].fd
  <2>1. /\ i + 1 \in Write!Asked("read") \union Write!Asked("write")
        /\ i \in Nat \ {0} /\ requests'[i] = requests[i + 1]
    BY <1>1
  <2>2. /\ requests'[i].fd \in 1 .. Len(open) /\ open[requests'[i].fd] = "item"
        /\ \A j \in Write!Asked("close") : j < i + 1 => requests[j].fd # requests'[i].fd
    BY <1>3, <2>1 DEF Write!DescriptorsInUse
  <2>3. requests[1].cmd = "close" => requests[1].fd # requests'[i].fd BY <1>4, <2>1, <2>2
  <2>4. requests'[i].fd \in 1 .. Len(open') /\ open'[requests'[i].fd] = "item" BY <1>0, <2>2, <2>3
  <2>5. ASSUME NEW j \in Write!Asked("close")', j < i PROVE requests'[j].fd # requests'[i].fd
    <3>1. j \in Nat /\ j + 1 \in Write!Asked("close") /\ requests'[j] = requests[j + 1] BY <1>1
    <3>2. j + 1 < i + 1 BY <2>1, <2>5, <3>1
    <3> QED BY <2>2, <3>1, <3>2
  <2> QED BY <2>4, <2>5
<1>10. pc' \in {"read", "write"} =>
         /\ fd' \in 1 .. Len(open') /\ open'[fd'] = "item"
         /\ \A i \in Write!Asked("close")' : requests'[i].fd # fd'
  BY <1>3, <1>5 DEF Write!DescriptorsInUse
<1>11. \A i \in Write!Asked("close")' : requests'[i].fd \in 1 .. Len(open') BY <1>0, <1>7
<1> QED BY <1>6, <1>8, <1>9, <1>10, <1>11 DEF Write!DescriptorsInUse, Write!IsOpen

\* What the modem's answer leaves as it was, whatever it is.
LEMMA TakeRest ==
  ASSUME Write!IInv, NEW r, Takes(r), UNCHANGED <<pc, phase, rc>>
  PROVE  /\ Write!Queue(requests)' /\ Write!Queue(replies)'
         /\ Write!OneAtATime' /\ Write!Stages'
<1>1. Client!Queue(requests) /\ Client!Queue(replies) BY DEF Write!IInv, Write!Queue, Client!Queue
<1>2. \A c : /\ Write!Single(c) => Write!Single(c)'
             /\ Write!Idle(c) => Write!Idle(c)'
  BY <1>1, TakeSingle
<1>3. Client!Queue(requests') /\ Client!Queue(replies') BY <1>1, TakeKeeps
<1>4. Write!OneAtATime' BY <1>2 DEF Write!IInv, Write!OneAtATime
<1>5. Write!Stages' BY DEF Write!IInv, Write!Stages
<1> QED BY <1>3, <1>4, <1>5 DEF Write!Queue, Client!Queue

\* An answer that changes no item, and says of one what it is.
LEMMA TakeReads ==
  ASSUME Write!IInv, NEW r, Takes(r), UNCHANGED <<pc, phase, rc, buf, off, fd, data, files>>,
         r.cmd = "write" => r.n = 0,
         r.cmd = "read" /\ phase = "before" /\ pc = "read" => Write!IsBlock(r)
  PROVE  Write!ReadIsBegin' /\ Write!WrittenBegins'
<1>0. Client!Queue(requests) /\ Client!Queue(replies) BY DEF Write!IInv, Write!Queue, Client!Queue
<1>1. \A c : \A i \in Write!Asked(c)' : i + 1 \in Write!Asked(c) /\ requests'[i] = requests[i + 1]
  BY <1>0, TakeKeeps
<1>2. PICK n : \A c : \A i \in Write!Answered(c)' :
        \/ i \in Write!Answered(c) /\ replies'[i] = replies[i]
        \/ i = n /\ r.cmd = c /\ replies'[i] = r
  BY <1>0, TakeKeeps
<1>3. /\ Write!item' = Write!item
      /\ \A h : Write!Begins(h)' <=> Write!Begins(h)
      /\ \A x : Write!IsPart(x)' <=> Write!IsPart(x)
  BY ItemStays
<1>4. \A x : Write!IsBlock(x)' <=> Write!IsBlock(x) BY <1>3 DEF Write!IsBlock, Write!Queue
<1>5. Write!ReadIsBegin'
  <2> SUFFICES ASSUME phase = "before", pc \in {"read", "close"} PROVE Write!ReadIsBegin'
    BY DEF Write!ReadIsBegin
  <2>1. /\ Write!Queue(buf) /\ off = Len(buf) /\ off <= Len(Write!item)
        /\ \A u \in 1 .. off : Write!item[u] = buf[u]
        /\ pc = "read" => /\ \A i \in Write!Asked("read") : requests[i].off = off
                          /\ \A i \in Write!Answered("read") : Write!IsBlock(replies[i])
    BY DEF Write!IInv, Write!ReadIsBegin
  <2>2. ASSUME pc = "read", NEW i \in Write!Answered("read")' PROVE Write!IsBlock(replies[i])'
    <3>1. \/ i \in Write!Answered("read") /\ replies'[i] = replies[i]
          \/ r.cmd = "read" /\ replies'[i] = r
      BY <1>2
    <3>2. PICK x : x = replies'[i] OBVIOUS
    <3>3. Write!IsBlock(x) BY <2>1, <2>2, <3>1, <3>2
    <3>4. Write!IsBlock(x)' BY <1>4, <3>3
    <3> QED BY <3>2, <3>4 DEF Write!IsBlock, Write!Queue
  <2>3. ASSUME pc = "read", NEW i \in Write!Asked("read")' PROVE requests'[i].off = off'
    BY <1>1, <2>1, <2>3
  <2> QED BY <1>3, <2>1, <2>2, <2>3 DEF Write!ReadIsBegin, Write!Queue
<1>6. Write!WrittenBegins'
  <2>0. Write!WrittenBegins /\ (pc = "write" => rc = 0) /\ Len(data) \in Nat BY DEF Write!IInv, Write!Stages
  <2>1. \A i \in Write!Asked("write")' : Len(data') <= Len(Write!item') /\ Write!IsPart(requests[i])'
    BY <1>1, <1>3, <2>0 DEF Write!WrittenBegins
  <2>2. ASSUME pc = "write", NEW i \in Write!Answered("write")'
        PROVE  replies'[i].n \in 0 .. Len(data) - off /\ Write!Begins(off + replies'[i].n)
    <3>1. off \in 0 .. Len(data) /\ Write!Begins(off) BY <2>0, <2>2 DEF Write!WrittenBegins
    <3>2. CASE i \in Write!Answered("write") /\ replies'[i] = replies[i]
      BY <2>0, <2>2, <3>2 DEF Write!WrittenBegins
    <3>3. CASE r.cmd = "write" /\ replies'[i] = r
      <4>1. replies'[i].n = 0 /\ off + 0 = off BY <3>1, <3>3
      <4> QED BY <2>0, <3>1, <4>1
    <3> QED BY <1>2, <3>2, <3>3
  <2>3. pc = "write" => \A i \in Write!Answered("write")' :
          replies'[i].n \in 0 .. Len(data') - off' /\ Write!Begins(off + replies[i].n)'
    BY <1>3, <2>2 DEF Write!Begins
  <2>4. pc' = "write" => \A i \in Write!Asked("write")' : requests'[i].off = off'
    BY <1>1, <2>0 DEF Write!WrittenBegins
  <2>5. /\ phase' # "before" => Len(data') <= Len(Write!item')
        /\ pc' \in {"write", "closew"} /\ rc' = 0 =>
             off' \in 0 .. Len(data') /\ Write!Begins(off)' /\ (pc' = "closew" => off' = Len(data'))
        /\ phase' = "after" \/ (pc' = "end" /\ rc' = 0) => Write!Begins(Len(data))'
    BY <1>3, <2>0 DEF Write!WrittenBegins, Write!Begins
  <2> QED BY <2>1, <2>3, <2>4, <2>5 DEF Write!WrittenBegins
<1> QED BY <1>5, <1>6

\* What a write makes of the item: its length stays, and each unit is the one
\* there was or the one of the value.
LEMMA OverwriteIs ==
  ASSUME NEW file, Client!Queue(file), NEW o \in Nat, NEW p, Client!Queue(p), NEW n \in 0 .. Len(p),
         o + Len(p) <= Len(file)
  PROVE  LET new == Write!Overwrite(file, o, p, n) IN
         /\ Client!Queue(new) /\ Len(new) = Len(file)
         /\ \A u \in 1 .. Len(file) : new[u] = IF u \in o + 1 .. o + n THEN p[u - o] ELSE file[u]
<1>1. Len(file) \in Nat /\ Len(p) \in Nat /\ o + n <= Len(file) BY QueueDomain
<1>2. PICK M : M = Write!Max({Len(file), o + n}) OBVIOUS
<1>3. M = Len(file)
  <2>1. PICK S : S = {Len(file), o + n} OBVIOUS
  <2>2. Len(file) \in S /\ \A y \in S : Len(file) >= y BY <1>1, <2>1
  <2>3. M = CHOOSE x \in S : \A y \in S : x >= y BY <1>2, <2>1 DEF Write!Max
  <2>4. M \in S /\ \A y \in S : M >= y BY <2>2, <2>3
  <2> QED BY <1>1, <2>1, <2>4
<1>4. PICK new : new = Write!Overwrite(file, o, p, n) OBVIOUS
<1>5. new = [i \in 1 .. Len(file) |-> IF i \in o + 1 .. o + n THEN p[i - o] ELSE file[i]]
  BY <1>2, <1>3, <1>4 DEF Write!Overwrite
<1>6. Client!Queue(new) /\ Len(new) = Len(file)
  <2> DEFINE S == {new[i] : i \in 1 .. Len(file)}
  <2>1. new \in [1 .. Len(file) -> S] BY <1>5
  <2> HIDE DEF S
  <2>2. new \in Seq(S) /\ Len(new) = Len(file) BY <1>1, <2>1, LenProperties, SeqDef
  <2> QED BY <2>2, SeqIsQueue
<1> QED BY <1>4, <1>5, <1>6

\* A write is a change of the item towards the value.
LEMMA WritesChange ==
  ASSUME Write!IInv, NEW q, 1 \in Write!Asked("write"), q = requests[1], NEW n \in 0 .. Len(q.part),
         NEW w, w = Write!Overwrite(files[open[q.fd]], q.off, q.part, n), files' = [files EXCEPT ![open[q.fd]] = w]
  PROVE  /\ Len(Write!item') = Len(Write!item) /\ Client!Queue(Write!item')
         /\ \A u \in 1 .. Len(Write!item) :
              /\ Write!item'[u] = Write!item[u] \/ (u <= Len(data) /\ Write!item'[u] = data[u])
              /\ u \in q.off + 1 .. q.off + n => Write!item'[u] = data[u]
         /\ files' = [p \in {"item"} |-> Write!item']
         /\ Write!IsPart(q) /\ Len(data) <= Len(Write!item)
<1>1. Write!IsPart(q) /\ Len(data) <= Len(Write!item) BY DEF Write!IInv, Write!WrittenBegins
<1>2. open[q.fd] = "item" BY DEF Write!IInv, Write!DescriptorsInUse
<1>3. files = [p \in {"item"} |-> Write!item] BY DEF Write!IInv
<1>4. PICK it : it = Write!item OBVIOUS
<1>5. Client!Queue(it) /\ Len(it) \in Nat /\ Len(data) \in Nat /\ files["item"] = it
  BY <1>4, SeqIsQueue DEF Write!IInv, Write!item
<1>6. PICK p, o : p = q.part /\ o = q.off OBVIOUS
<1>7. /\ o \in Nat /\ Client!Queue(p) /\ o + Len(p) <= Len(data) /\ n \in 0 .. Len(p) /\ Len(p) \in Nat
      /\ \A u \in 1 .. Len(p) : p[u] = data[o + u]
  BY <1>1, <1>6, QueueDomain DEF Write!IsPart, Write!Queue, Client!Queue
<1>8. PICK new : new = Write!Overwrite(it, o, p, n) OBVIOUS
<1>9. o + Len(p) <= Len(it) BY ONLY <1>1, <1>4, <1>5, <1>7
<1>10. /\ Client!Queue(new) /\ Len(new) = Len(it)
       /\ \A u \in 1 .. Len(it) : new[u] = IF u \in o + 1 .. o + n THEN p[u - o] ELSE it[u]
  BY ONLY <1>5, <1>7, <1>8, <1>9, OverwriteIs
<1>11. files' = [f \in {"item"} |-> new] BY <1>2, <1>3, <1>4, <1>5, <1>6, <1>8
<1>12. Write!item' = new BY <1>11 DEF Write!item
<1>13. ASSUME NEW u \in 1 .. Len(it)
       PROVE  /\ new[u] = it[u] \/ (u <= Len(data) /\ new[u] = data[u])
              /\ u \in o + 1 .. o + n => new[u] = data[u]
  <2>1. CASE u \in o + 1 .. o + n
    <3>1. u - o \in 1 .. Len(p) /\ o + (u - o) = u /\ u <= Len(data) BY ONLY <1>5, <1>7, <2>1, u \in 1 .. Len(it)
    <3>2. new[u] = p[u - o] /\ p[u - o] = data[u] BY <1>7, <1>10, <2>1, <3>1
    <3> QED BY <3>1, <3>2
  <2>2. CASE u \notin o + 1 .. o + n BY <1>10, <2>2
  <2> QED BY <2>1, <2>2
<1> QED BY <1>1, <1>4, <1>6, <1>10, <1>11, <1>12, <1>13

LEMMA ModemChanges ==
  ASSUME Write!IInv, Write!ModemWrites(requests[1]), requests # <<>>, requests' = Tail(requests),
         UNCHANGED <<pc, phase, rc, buf, off, fd, data, original>>
  PROVE  Write!IInv' /\ Write!Update!Change
<1>0. Client!Queue(requests) /\ Client!Queue(replies) /\ Client!Queue(open)
  BY DEF Write!IInv, Write!Queue, Client!Queue
<1>1. PICK q : q = requests[1] OBVIOUS
<1>2. PICK n \in 0 .. Len(q.part) :
        /\ files' = [files EXCEPT ![open[q.fd]] = Write!Overwrite(@, q.off, q.part, n)]
        /\ replies' = Append(replies, [cmd |-> "write", fd |-> q.fd, err |-> 0, n |-> n, body |-> <<>>])
  BY <1>1 DEF Write!ModemWrites, Write!Answer
<1>3. PICK r : r = [cmd |-> "write", fd |-> q.fd, err |-> 0, n |-> n, body |-> <<>>] OBVIOUS
<1>4. Takes(r) /\ r.cmd = "write" /\ r.n = n /\ q.cmd = "write" /\ open' = open
  BY <1>1, <1>2, <1>3 DEF Write!ModemWrites, Takes
<1>5. /\ 1 \in Write!Asked("write")
      /\ \A c : \A i \in Write!Asked(c)' : i + 1 \in Write!Asked(c) /\ requests'[i] = requests[i + 1]
  BY <1>0, <1>4, TakeKeeps
<1>6. PICK m : \A c : \A i \in Write!Answered(c)' :
        \/ i \in Write!Answered(c) /\ replies'[i] = replies[i]
        \/ i = m /\ r.cmd = c /\ replies'[i] = r
  BY <1>0, <1>4, TakeKeeps
<1>7. ~Write!Idle("write") BY <1>5 DEF Write!Idle
<1>8. pc = "write" \/ rc # 0 BY <1>7 DEF Write!IInv, Write!OneAtATime
<1>9. PICK it, new : it = Write!item /\ new = Write!item' OBVIOUS
<1>10. /\ Len(new) = Len(it) /\ Client!Queue(new)
       /\ \A u \in 1 .. Len(it) :
            /\ new[u] = it[u] \/ (u <= Len(data) /\ new[u] = data[u])
            /\ u \in q.off + 1 .. q.off + n => new[u] = data[u]
       /\ files' = [p \in {"item"} |-> new]
       /\ Write!IsPart(q) /\ Len(data) <= Len(it)
  <2>1. /\ Len(Write!item') = Len(Write!item) /\ Client!Queue(Write!item')
        /\ \A u \in 1 .. Len(Write!item) :
             /\ Write!item'[u] = Write!item[u] \/ (u <= Len(data) /\ Write!item'[u] = data[u])
             /\ u \in q.off + 1 .. q.off + n => Write!item'[u] = data[u]
        /\ files' = [p \in {"item"} |-> Write!item']
        /\ Write!IsPart(q) /\ Len(data) <= Len(Write!item)
    <3>1. PICK w : w = Write!Overwrite(files[open[q.fd]], q.off, q.part, n) OBVIOUS
    <3>2. files' = [files EXCEPT ![open[q.fd]] = w] BY <1>2, <3>1
    <3>3. n \in 0 .. Len(q.part) /\ 1 \in Write!Asked("write") BY <1>5
    <3> QED BY ONLY Write!IInv, <1>1, <3>1, <3>2, <3>3, WritesChange
  <2> QED BY <1>9, <2>1
<1>11. it \in Seq(Write!Units) /\ data \in Seq(Write!Units) /\ Len(it) \in Nat /\ Len(data) \in Nat
  BY <1>9 DEF Write!IInv
<1>12. new \in Seq(Write!Units)
  <2>1. \A u \in 1 .. Len(new) : new[u] \in Write!Units
    BY <1>10, <1>11
  <2> QED BY <1>10, <2>1, QueueIsSeq
<1>13. ASSUME NEW h, h \in Nat, h <= Len(it), Write!Begins(h) PROVE \A u \in 1 .. h : new[u] = data[u]
  <2> SUFFICES ASSUME NEW u \in 1 .. h PROVE new[u] = data[u] OBVIOUS
  <2>1. u \in 1 .. Len(it) BY <1>11, <1>13
  <2>2. it[u] = data[u] BY <1>9, <1>13 DEF Write!Begins
  <2> QED BY <1>10, <2>1, <2>2
<1>14. Write!ReadIsBegin'
  <2>1. ~(phase = "before" /\ pc \in {"read", "close"}) BY <1>8 DEF Write!IInv, Write!Stages
  <2> QED BY <2>1 DEF Write!ReadIsBegin
<1>15. Write!WrittenBegins'
  <2>0. Write!WrittenBegins /\ (pc = "write" => rc = 0) BY DEF Write!IInv, Write!Stages
  <2>1. \A i \in Write!Asked("write")' : Len(data) <= Len(new) /\ Write!IsPart(requests[i])'
    <3> SUFFICES ASSUME NEW i \in Write!Asked("write")' PROVE Len(data) <= Len(new) /\ Write!IsPart(requests[i])'
      OBVIOUS
    <3>1. Write!IsPart(requests[i + 1]) /\ requests'[i] = requests[i + 1] BY <1>5, <2>0 DEF Write!WrittenBegins
    <3> QED BY <1>10, <3>1 DEF Write!IsPart, Write!Queue
  <2>2. ASSUME pc = "write"
        PROVE  /\ off \in 0 .. Len(data) /\ off <= Len(it) /\ \A u \in 1 .. off : new[u] = data[u]
               /\ q.off = off
    <3>1. off \in 0 .. Len(data) /\ Write!Begins(off) /\ q.off = off
      BY <1>1, <1>5, <2>0, <2>2 DEF Write!WrittenBegins
    <3>2. off \in Nat /\ off <= Len(it) BY <1>10, <1>11, <3>1
    <3>3. \A u \in 1 .. off : new[u] = data[u] BY <1>13, <3>1, <3>2
    <3> QED BY <3>1, <3>2, <3>3
  <2>3. ASSUME pc = "write", NEW i \in Write!Answered("write")'
        PROVE  /\ replies'[i].n \in 0 .. Len(data) - off /\ off + replies'[i].n <= Len(it)
               /\ \A u \in 1 .. off + replies'[i].n : new[u] = data[u]
    <3>1. CASE i \in Write!Answered("write") /\ replies'[i] = replies[i]
      <4>1. PICK h : h = replies[i].n OBVIOUS
      <4>2. h \in 0 .. Len(data) - off /\ Write!Begins(off + h)
        BY <2>0, <2>3, <3>1, <4>1 DEF Write!WrittenBegins
      <4>3. off + h \in Nat /\ off + h <= Len(it) BY <1>10, <1>11, <2>2, <2>3, <4>2
      <4> QED BY <1>13, <3>1, <4>1, <4>2, <4>3
    <3>2. CASE replies'[i] = r
      <4>1. off + Len(q.part) <= Len(data) /\ Len(q.part) \in Nat
        BY <1>10, <2>2, <2>3 DEF Write!IsPart, Write!Queue
      <4>2. n \in 0 .. Len(data) - off /\ off + n <= Len(it) BY <1>10, <1>11, <2>2, <2>3, <4>1
      <4>3. ASSUME NEW u \in 1 .. off + n PROVE new[u] = data[u]
        <5>1. CASE u <= off BY <2>2, <2>3, <4>2, <5>1
        <5>2. CASE u > off
          <6>1. u \in q.off + 1 .. q.off + n /\ u \in 1 .. Len(it) BY <1>11, <2>2, <2>3, <4>2, <5>2
          <6> QED BY <1>10, <6>1
        <5> QED BY <2>2, <2>3, <4>2, <5>1, <5>2
      <4> QED BY <1>4, <3>2, <4>2, <4>3
    <3> QED BY <1>6, <3>1, <3>2
  <2>4. pc = "write" => \A i \in Write!Asked("write")' : requests'[i].off = off
    BY <1>5, <2>0 DEF Write!WrittenBegins
  <2>5. ~(pc = "end" /\ rc = 0) /\ ~(pc = "closew" /\ rc = 0) BY <1>8
  <2>6. phase = "after" => \A u \in 1 .. Len(data) : new[u] = data[u]
    BY <1>10, <1>11, <1>13, <2>0 DEF Write!WrittenBegins
  <2>7. phase # "before" => Len(data) <= Len(new) BY <1>10
  <2>8. /\ pc' \in {"write", "closew"} /\ rc' = 0 =>
             off' \in 0 .. Len(data') /\ Write!Begins(off)' /\ (pc' = "closew" => off' = Len(data'))
        /\ phase' = "after" \/ (pc' = "end" /\ rc' = 0) => Write!Begins(Len(data))'
    BY <1>9, <1>10, <2>2, <2>5, <2>6 DEF Write!Begins
  <2>9. pc' = "write" => \A i \in Write!Answered("write")' :
          replies'[i].n \in 0 .. Len(data') - off' /\ Write!Begins(off + replies[i].n)'
    BY <1>9, <1>10, <2>3 DEF Write!Begins
  <2> QED BY <1>9, <2>1, <2>4, <2>7, <2>8, <2>9 DEF Write!WrittenBegins
<1>16. Write!DescriptorsInUse'
  <2>1. Len(open) \in Nat BY <1>0, QueueDomain
  <2> QED BY <1>4, <2>1, TakeDescriptors
<1>17. Write!IInv'
  <2>1. /\ Write!Queue(requests)' /\ Write!Queue(replies)' /\ Write!OneAtATime' /\ Write!Stages'
    BY <1>4, TakeRest
  <2>2. Write!Queue(open)' /\ data' \in Datas BY <1>4 DEF Write!IInv, Write!Queue
  <2>3. Write!Units' = Write!Units BY DEF Write!Units
  <2> QED BY <1>9, <1>10, <1>11, <1>12, <1>14, <1>15, <1>16, <2>1, <2>2, <2>3 DEF Write!IInv
<1>18. Write!Update!Change
  <2>1. ~(pc = "end" /\ rc = 0) BY <1>8
  <2>2. DOMAIN it = 1 .. Len(it) BY <1>11
  <2> QED BY <1>9, <1>10, <2>1, <2>2 DEF Write!Update!Change, Write!Update!Towards
<1> QED BY <1>17, <1>18

\* The block read is the next part of the item.
LEMMA BlockIsRead ==
  ASSUME Write!IInv, 1 \in Write!Asked("read"), NEW r, phase = "before", pc = "read", ConstantsAssumption,
         NEW p, p = SubSeq(files[open[requests[1].fd]], requests[1].off + 1,
                           Write!Least(requests[1].off + ReadChunk, Len(files[open[requests[1].fd]]))),
         r.n = Len(p), r.body = p
  PROVE  Write!IsBlock(r)
<1>1. open[requests[1].fd] = "item" /\ requests[1].off = off /\ off = Len(buf) /\ off <= Len(Write!item)
  BY DEF Write!IInv, Write!DescriptorsInUse, Write!ReadIsBegin
<1>2. PICK it : it = Write!item OBVIOUS
<1>3. Client!Queue(it) /\ Len(it) \in Nat /\ files["item"] = it
  BY <1>2, SeqIsQueue DEF Write!IInv, Write!item
<1>4. off \in Nat /\ off <= Len(it)
  <2>1. Client!Queue(buf) BY DEF Write!IInv, Write!ReadIsBegin, Write!Queue, Client!Queue
  <2> QED BY <1>1, <1>2, <2>1, QueueDomain
<1>5. PICK m : m = Write!Least(off + ReadChunk, Len(it)) OBVIOUS
<1>a. ReadChunk \in Nat BY DEF ConstantsAssumption
<1>6. m \in off .. Len(it) BY ONLY <1>3, <1>4, <1>5, <1>a DEF Write!Least
<1>7. p = SubSeq(it, off + 1, m) BY <1>1, <1>3, <1>5
<1>8. PICK o : o = off OBVIOUS
<1>9. /\ Client!Queue(p) /\ Len(p) = m - o
      /\ \A u \in 1 .. m - o : p[u] = it[o + u]
  <2>1. o \in 0 .. Len(it) /\ m \in o .. Len(it) /\ p = SubSeq(it, o + 1, m)
    BY ONLY <1>3, <1>4, <1>6, <1>7, <1>8
  <2> QED BY ONLY <1>3, <2>1, QueuePart
<1>10. Write!Queue(r.body) BY <1>9 DEF Write!Queue, Client!Queue
<1>11. off + r.n <= Len(it) /\ r.n = m - o
  BY ONLY r.n = Len(p), <1>3, <1>4, <1>6, <1>8, <1>9
<1>12. \A u \in 1 .. r.n : it[off + u] = r.body[u] BY <1>8, <1>9, <1>11
<1> QED BY <1>2, <1>10, <1>11, <1>12 DEF Write!IsBlock

\* An answer for which the item is not changed.
LEMMA AnswersKeep ==
  ASSUME Write!IInv, NEW r, Takes(r), UNCHANGED <<pc, phase, rc, buf, off, fd, data, files>>,
         r.cmd = "write" => r.n = 0,
         r.cmd = "read" /\ phase = "before" /\ pc = "read" => Write!IsBlock(r),
         Client!Queue(open'), Len(open) <= Len(open'),
         \A f \in 1 .. Len(open) :
           open'[f] = open[f] \/ (requests[1].cmd = "close" /\ requests[1].fd = f),
         r.cmd = "open" /\ r.err = 0 =>
           r.fd \in 1 .. Len(open') /\ r.fd > Len(open) /\ open'[r.fd] = "item"
  PROVE  Write!IInv'
<1>1. Write!ReadIsBegin' /\ Write!WrittenBegins' BY TakeReads
<1>2. /\ Write!Queue(requests)' /\ Write!Queue(replies)' /\ Write!OneAtATime' /\ Write!Stages'
  BY TakeRest
<1>3. Write!DescriptorsInUse'
  <2>1. Len(open') \in Nat BY QueueDomain
  <2> QED BY <2>1, TakeDescriptors
<1>4. Write!Queue(open)' BY DEF Write!Queue, Client!Queue
<1>5. Write!item' = Write!item /\ Write!Units' = Write!Units BY DEF Write!item, Write!Units
<1> QED BY <1>1, <1>2, <1>3, <1>4, <1>5 DEF Write!IInv

LEMMA ModemKeeps ==
  ASSUME Write!IInv, Write!ModemStep, ConstantsAssumption
  PROVE  Write!IInv' /\ (Write!Update!Change \/ UNCHANGED <<files, data, pc, rc>>)
<1>0. Client!Queue(requests) /\ Client!Queue(open) /\ Len(open) \in Nat
  BY DEF Write!IInv, Write!Queue, Client!Queue
<1>1. /\ requests # <<>> /\ requests' = Tail(requests)
      /\ UNCHANGED <<pc, phase, rc, buf, off, fd, data, original>>
  BY DEF Write!ModemStep, Write!Modem, Write!readvars
<1>2. PICK q : q = requests[1] OBVIOUS
<1>3. \/ Write!ModemFails(q) \/ Write!ModemHasNone(q) \/ Write!ModemOpens(q)
      \/ Write!ModemReads(q) \/ Write!ModemWrites(q) \/ Write!ModemCloses(q)
  BY <1>0, <1>1, <1>2, QueueTail DEF Write!ModemStep, Write!Modem
<1>4. 1 \in Write!Asked(q.cmd) BY <1>0, <1>1, <1>2, QueueTail, QueueDomain DEF Write!Asked
<1>5. CASE Write!ModemFails(q)
  <2>1. PICK r : r = [cmd |-> q.cmd, fd |-> 0, err |-> 1, n |-> 0, body |-> <<>>] OBVIOUS
  <2>2. r.cmd = q.cmd /\ r.err = 1 /\ r.n = 0 /\ r.body = <<>> BY <2>1
  <2>3. Takes(r) /\ UNCHANGED <<files, open>>
    BY <1>1, <1>2, <1>5, <2>1 DEF Write!ModemFails, Write!Answer, Takes
  <2>4. phase = "before" /\ pc = "read" => Write!IsBlock(r)
    <3> SUFFICES ASSUME phase = "before", pc = "read" PROVE Write!IsBlock(r) OBVIOUS
    <3>1. off = Len(buf) /\ off <= Len(Write!item) /\ Client!Queue(buf)
      BY DEF Write!IInv, Write!ReadIsBegin, Write!Queue, Client!Queue
    <3>2. off \in Nat /\ Len(Write!item) \in Nat BY <3>1, QueueDomain DEF Write!IInv
    <3>3. Write!Queue(r.body) /\ Len(r.body) = 0 BY <2>2 DEF Write!Queue
    <3>4. off + r.n <= Len(Write!item) /\ 1 .. r.n = {} BY <2>2, <3>1, <3>2
    <3> QED BY <2>2, <3>3, <3>4 DEF Write!IsBlock
  <2>5. Write!IInv' BY <1>0, <1>1, <2>2, <2>3, <2>4, AnswersKeep
  <2> QED BY <1>1, <2>3, <2>5
<1>6. CASE Write!ModemHasNone(q)
  <2>1. PICK r : r = [cmd |-> "open", fd |-> 0, err |-> 1, n |-> 0, body |-> <<>>] OBVIOUS
  <2>2. r.cmd = "open" /\ r.err = 1 BY <2>1
  <2>3. Takes(r) /\ UNCHANGED <<files, open>>
    BY <1>1, <1>2, <1>6, <2>1 DEF Write!ModemHasNone, Write!Answer, Takes
  <2>4. Write!IInv' BY <1>0, <1>1, <2>2, <2>3, AnswersKeep
  <2> QED BY <1>1, <2>3, <2>4
<1>7. CASE Write!ModemOpens(q)
  <2>0. q.cmd = "open" /\ q.path = "item"
    BY <1>2, <1>4, <1>7 DEF Write!ModemOpens, Write!IInv, Write!DescriptorsInUse
  <2>1. PICK r : r = [cmd |-> "open", fd |-> Len(open'), err |-> 0, n |-> 0, body |-> <<>>] OBVIOUS
  <2>2. r.cmd = "open" /\ r.fd = Len(open') BY <2>1
  <2>3. Takes(r) /\ UNCHANGED files /\ open' = Append(open, "item")
    BY <1>1, <1>2, <1>7, <2>0, <2>1 DEF Write!ModemOpens, Write!Answer, Takes
  <2>4. /\ Client!Queue(open') /\ Len(open') = Len(open) + 1
        /\ \A f \in 1 .. Len(open) : open'[f] = open[f]
        /\ open'[Len(open) + 1] = "item"
    BY <1>0, <2>3, QueueAppend
  <2>5. /\ r.fd \in 1 .. Len(open') /\ r.fd > Len(open) /\ open'[r.fd] = "item"
        /\ Len(open) <= Len(open')
    BY <1>0, <2>2, <2>4
  <2>6. Write!IInv' BY <1>1, <2>2, <2>3, <2>4, <2>5, AnswersKeep
  <2> QED BY <1>1, <2>3, <2>6
<1>8. CASE Write!ModemReads(q)
  <2>0. q.cmd = "read" BY <1>8 DEF Write!ModemReads
  <2>1. PICK p : p = SubSeq(files[open[q.fd]], q.off + 1,
                            Write!Least(q.off + ReadChunk, Len(files[open[q.fd]]))) OBVIOUS
  <2>2. PICK r : r = [cmd |-> "read", fd |-> q.fd, err |-> 0, n |-> Len(p), body |-> p] OBVIOUS
  <2>3. r.cmd = "read" /\ r.n = Len(p) /\ r.body = p BY <2>2
  <2>4. Takes(r) /\ UNCHANGED <<files, open>>
    BY <1>1, <1>2, <1>8, <2>1, <2>2 DEF Write!ModemReads, Write!Answer, Takes
  <2>5. phase = "before" /\ pc = "read" => Write!IsBlock(r)
    <3>1. 1 \in Write!Asked("read") BY <1>4, <2>0
    <3>2. p = SubSeq(files[open[requests[1].fd]], requests[1].off + 1,
                     Write!Least(requests[1].off + ReadChunk, Len(files[open[requests[1].fd]])))
      BY <1>2, <2>1
    <3> QED BY ONLY Write!IInv, ConstantsAssumption, <2>3, <3>1, <3>2, BlockIsRead
  <2>6. Write!IInv' BY <1>0, <1>1, <2>3, <2>4, <2>5, AnswersKeep
  <2> QED BY <1>1, <2>4, <2>6
<1>9. CASE Write!ModemWrites(q) BY <1>1, <1>2, <1>9, ModemChanges
<1>10. CASE Write!ModemCloses(q)
  <2>0. q.cmd = "close" /\ q.fd \in 1 .. Len(open)
    BY <1>2, <1>4, <1>10 DEF Write!ModemCloses, Write!IInv, Write!DescriptorsInUse
  <2>1. PICK r : r = [cmd |-> "close", fd |-> q.fd, err |-> 0, n |-> 0, body |-> <<>>] OBVIOUS
  <2>2. r.cmd = "close" BY <2>1
  <2>3. Takes(r) /\ UNCHANGED files /\ open' = [open EXCEPT ![q.fd] = "closed"]
    BY <1>1, <1>2, <1>10, <2>1 DEF Write!ModemCloses, Write!Answer, Takes
  <2>4. /\ Client!Queue(open') /\ Len(open') = Len(open)
        /\ \A f \in 1 .. Len(open) : open'[f] = open[f] \/ q.fd = f
    <3>1. PICK S : S = {open[f] : f \in 1 .. Len(open)} \union {"closed"} OBVIOUS
    <3>2. open \in Seq(S) BY <1>0, <3>1, QueueIsSeq
    <3>3. open' \in Seq(S) /\ Len(open') = Len(open) BY <2>0, <2>3, <3>1, <3>2
    <3>4. Client!Queue(open') BY <3>3, SeqIsQueue
    <3> QED BY <1>0, <2>3, <3>2, <3>3, <3>4
  <2>6. Len(open) <= Len(open') BY <1>0, <2>4
  <2>7. \A f \in 1 .. Len(open) :
          open'[f] = open[f] \/ (requests[1].cmd = "close" /\ requests[1].fd = f)
    BY <1>2, <2>0, <2>4
  <2>5. Write!IInv' BY ONLY Write!IInv, <1>1, <2>2, <2>3, <2>4, <2>6, <2>7, AnswersKeep
  <2> QED BY <1>1, <2>3, <2>5
<1> QED BY <1>3, <1>5, <1>6, <1>7, <1>8, <1>9, <1>10

-----------------------------------------------------------------------------
(* efswrite.py implements ItemUpdate.                                      *)

LEMMA ValueIsSeq ==
  ASSUME NEW x \in Items \union Datas, ConstantsAssumption PROVE x \in Seq(Write!Units)
<1>1. Client!Queue(x) BY DEF ConstantsAssumption, IsSequence, Client!Queue
<1>2. \A i \in 1 .. Len(x) : x[i] \in Write!Units BY <1>1, QueueDomain DEF Write!Units
<1> QED BY <1>1, <1>2, QueueIsSeq

LEMMA WriteStartsUp ==
  ASSUME Write!Init, ConstantsAssumption PROVE Write!IInv /\ Write!Update!Init
<1>1. /\ requests = <<>> /\ replies = <<>> /\ open = <<>>
      /\ pc = "start" /\ buf = <<>> /\ off = 0 /\ phase = "before" /\ rc = 0
      /\ files \in [{"item"} -> Items] /\ data \in Datas
  BY DEF Write!Init, Write!ChannelInit, Write!ReadInit
<1>2. files = [p \in {"item"} |-> Write!item] /\ Write!item \in Items BY <1>1 DEF Write!item
<1>3. Write!item \in Seq(Write!Units) /\ data \in Seq(Write!Units) BY <1>1, <1>2, ValueIsSeq
<1>4. /\ Write!Queue(requests) /\ Write!Queue(replies) /\ Write!Queue(open)
      /\ DOMAIN requests = {} /\ DOMAIN replies = {}
  BY <1>1 DEF Write!Queue
<1>5. \A c : Write!Asked(c) = {} /\ Write!Answered(c) = {} BY <1>4 DEF Write!Asked, Write!Answered
<1>6. Write!OneAtATime BY <1>1, <1>5 DEF Write!OneAtATime, Write!Single, Write!Idle
<1>7. Write!DescriptorsInUse BY <1>1, <1>5 DEF Write!DescriptorsInUse
<1>8. Write!ReadIsBegin /\ Write!WrittenBegins BY <1>1, <1>5 DEF Write!ReadIsBegin, Write!WrittenBegins
<1>9. Write!Stages BY <1>1 DEF Write!Stages
<1>10. Write!IInv BY <1>1, <1>2, <1>3, <1>4, <1>6, <1>7, <1>8, <1>9 DEF Write!IInv
<1>11. Write!Update!Init BY <1>1, <1>3 DEF Write!Update!Init
<1> QED BY <1>10, <1>11

\* The program changes no item, and ends successfully when the item begins
\* with the value.
LEMMA WriterMaps ==
  ASSUME Write!IInv, Write!IInv', Write!Start \/ Write!Client
  PROVE  [Write!Update!Next]_(Write!Update!uvars)
<1>1. UNCHANGED data BY DEF Write!Start, Write!Client
<1>2. UNCHANGED files
  BY DEF Write!Start, Write!Client, Write!FileOpened, Write!NotOpened, Write!BlockRead, Write!FileClosed,
         Write!OpenedForWrite, Write!Wrote, Write!ClosedAfterWrite, Write!TickEscapes, Write!Got, Write!NoneFor
<1>3. pc # "end"
  BY DEF Write!Start, Write!Client, Write!FileOpened, Write!NotOpened, Write!BlockRead, Write!FileClosed,
         Write!OpenedForWrite, Write!Wrote, Write!ClosedAfterWrite, Write!TickEscapes, Write!Got, Write!NoneFor
<1>4. Write!item' = Write!item BY <1>2 DEF Write!item
<1>5. CASE pc' = "end" /\ rc' = 0
  <2>1. Write!Begins(Len(data)) BY <1>1, <1>4, <1>5 DEF Write!IInv, Write!WrittenBegins, Write!Begins
  <2>2. DOMAIN data = 1 .. Len(data) BY DEF Write!IInv
  <2>3. Write!Update!Succeed
    BY <1>1, <1>3, <1>4, <1>5, <2>1, <2>2 DEF Write!Update!Succeed, Write!Begins
  <2> QED BY <2>3 DEF Write!Update!Next
<1>6. CASE pc' = "end" /\ rc' # 0
  BY <1>1, <1>3, <1>4, <1>6 DEF Write!Update!Next, Write!Update!Fail
<1>7. CASE pc' # "end" BY <1>1, <1>3, <1>4, <1>7 DEF Write!Update!uvars
<1> QED BY <1>5, <1>6, <1>7

LEMMA WriteSteps ==
  ASSUME Write!IInv, [Write!Next]_(Write!vars), ConstantsAssumption
  PROVE  Write!IInv' /\ [Write!Update!Next]_(Write!Update!uvars)
<1>1. CASE Write!Start \/ Write!Client BY <1>1, WriterKeeps, WriterMaps
<1>2. CASE Write!ModemStep
  <2>1. Write!IInv' /\ (Write!Update!Change \/ UNCHANGED <<files, data, pc, rc>>) BY <1>2, ModemKeeps
  <2> QED BY <2>1 DEF Write!Update!Next, Write!Update!uvars, Write!item
<1>3. CASE UNCHANGED Write!vars
  <2> USE DEF Write!vars, Write!chanvars, Write!readvars
  <2>1. /\ Write!item' = Write!item
        /\ \A n : Write!Begins(n)' <=> Write!Begins(n)
        /\ \A q : Write!IsPart(q)' <=> Write!IsPart(q)
    BY <1>3, ItemStays
  <2>2. /\ \A c : Write!Asked(c)' = Write!Asked(c) /\ Write!Answered(c)' = Write!Answered(c)
        /\ \A f : Write!IsOpen(f)' <=> Write!IsOpen(f)
    BY <1>3 DEF Write!Asked, Write!Answered, Write!IsOpen
  <2>3. /\ \A c : (Write!Single(c)' <=> Write!Single(c)) /\ (Write!Idle(c)' <=> Write!Idle(c))
        /\ \A r : Write!IsBlock(r)' <=> Write!IsBlock(r)
    BY <1>3, <2>1, <2>2 DEF Write!Single, Write!Idle, Write!IsBlock, Write!Queue
  <2>4. Write!OneAtATime' BY <1>3, <2>3 DEF Write!IInv, Write!OneAtATime
  <2>5. Write!DescriptorsInUse' BY <1>3, <2>2 DEF Write!IInv, Write!DescriptorsInUse
  <2>6. Write!ReadIsBegin' BY <1>3, <2>1, <2>2, <2>3 DEF Write!IInv, Write!ReadIsBegin, Write!Queue
  <2>7. Write!WrittenBegins' BY <1>3, <2>1, <2>2 DEF Write!IInv, Write!WrittenBegins
  <2>8. Write!Stages' BY <1>3 DEF Write!IInv, Write!Stages
  <2>9. Write!IInv' BY <1>3, <2>1, <2>4, <2>5, <2>6, <2>7, <2>8 DEF Write!IInv, Write!Queue, Write!Units
  <2> QED BY <1>3, <2>1, <2>9 DEF Write!Update!uvars
<1> QED BY <1>1, <1>2, <1>3 DEF Write!Next

-----------------------------------------------------------------------------
(* The programs together.                                                  *)

IInv ==
  /\ running = "efswrite" => Write!IInv
  /\ running = "message_masks" => F3!IInv
  /\ running = "setting" => Setting!IInv
  /\ running = "bindprobe" => Bind!IInv
  /\ running = "sweep" => Sweep!IInv

\* A step of the family is one of the program that runs.
LEMMA OwnSteps ==
  ASSUME [Next]_vars
  PROVE  /\ running' = running
         /\ running = "efswrite" => [Write!Next]_(Write!vars)
         /\ running = "message_masks" => [F3!Next]_(F3!vars)
         /\ running = "setting" => [Setting!Next]_(Setting!vars)
         /\ running = "bindprobe" => [Bind!Next]_(Bind!vars)
         /\ running = "sweep" => [Sweep!Next]_(Sweep!vars)
<1>1. CASE Next BY <1>1 DEF Next
<1>2. CASE UNCHANGED vars
  <2> USE <1>2 DEF vars, channelVars, efsVars, pcVars, bufVars, writeVars, diffVars, shownVars, walkVars,
                   todoVars, masksVars, okVars, programVars, f3Vars, clientVars, triesVars, valueVars,
                   bindVars, sweepVars
  <2>1. UNCHANGED Write!vars BY DEF Write!vars, Write!chanvars, Write!readvars
  <2>2. UNCHANGED F3!vars BY DEF F3!vars, F3!chanvars, F3!maskvars
  <2>3. UNCHANGED Setting!vars BY DEF Setting!vars, Setting!settingvars, Setting!client
  <2>4. UNCHANGED Bind!vars BY DEF Bind!vars, Bind!probevars, Bind!client
  <2>5. UNCHANGED Sweep!vars BY DEF Sweep!vars, Sweep!sweepvars, Sweep!client
  <2> QED BY <2>1, <2>2, <2>3, <2>4, <2>5
<1> QED BY <1>1, <1>2

\* Every state that the programs and the modem can reach, with answers late,
\* lost or refused, satisfies the invariant of the program that runs.
THEOREM Invariance == Spec => []IInv
<1>1. Init => IInv
  BY WriteStartsUp, MasksStart, SettingStarts, BindStarts, SweepStarts, ConstantsAssumption DEF Init, IInv
<1>2. IInv /\ [Next]_vars => IInv'
  <2> SUFFICES ASSUME IInv, [Next]_vars PROVE IInv'
    OBVIOUS
  <2>1. running = "efswrite" => Write!IInv' BY OwnSteps, WriteSteps, ConstantsAssumption DEF IInv
  <2>2. running = "message_masks" => F3!IInv' BY OwnSteps, MasksSteps, ConstantsAssumption DEF IInv
  <2>3. running = "setting" => Setting!IInv' BY OwnSteps, SettingSteps, ConstantsAssumption DEF IInv
  <2>4. running = "bindprobe" => Bind!IInv' BY OwnSteps, BindSteps, ConstantsAssumption DEF IInv
  <2>5. running = "sweep" => Sweep!IInv' BY OwnSteps, SweepSteps, ConstantsAssumption DEF IInv
  <2> QED BY <2>1, <2>2, <2>3, <2>4, <2>5, OwnSteps DEF IInv
<1> QED BY <1>1, <1>2, PTL DEF Spec

\* efswrite.py changes the item in place, unit by unit towards the value,
\* keeps its length, and succeeds only when it begins with the value
\* (efswrite.py:16-17), whatever the number of late, lost and refused answers,
\* of short writes, and the size of a block.
THEOREM WriteIsUpdate == Spec => UpdateSpec
<1>1. Init => (running = "efswrite" => Write!Update!Init)
  BY WriteStartsUp, ConstantsAssumption DEF Init
<1>2. IInv /\ [Next]_vars => [running = "efswrite" => [Write!Update!Next]_(Write!Update!uvars)]_vars
  <2> SUFFICES ASSUME IInv, [Next]_vars, running = "efswrite"
               PROVE  [Write!Update!Next]_(Write!Update!uvars)
    OBVIOUS
  <2> QED BY OwnSteps, WriteSteps, ConstantsAssumption DEF IInv
<1> QED BY <1>1, <1>2, Invariance, PTL DEF Spec, UpdateSpec

\* An accepted SET, a success of a selector, a line and a TLV are the answer
\* to the request they are reported for, and what is read back is what was
\* written (class Imss of qmiims.py and the programs that use it), over any
\* number of messages, late and lost answers.
THEOREM OwnAnswers == Spec => []AnswersAreTheirOwn
<1>1. IInv => AnswersAreTheirOwn
  BY SweepReadsBack DEF IInv, AnswersAreTheirOwn, Setting!IInv, Bind!IInv, Sweep!IInv
<1> QED BY <1>1, Invariance, PTL

\* A probe of diag/f3probe.py that comes to its end leaves the message masks
\* of its ranges down once the modem has done what it was sent, for any
\* ranges, in any order and overlapping or not, and any answers lost.
THEOREM ProbeComesDown == Spec => []MasksComeDown
<1>1. IInv => MasksComeDown BY MasksEnd DEF IInv, MasksComeDown
<1> QED BY <1>1, Invariance, PTL
=============================================================================
