------------------------ MODULE MCModemInTime_proofs ------------------------
(***************************************************************************)
(* Proofs about the programs that ask the modem, as long as its answers    *)
(* come in time: then one request is under way at a time, and what a       *)
(* program takes is the answer to what it asked.  What that means for the  *)
(* settings and bindprobe.py is proved in MCModem_proofs.                  *)
(***************************************************************************)
EXTENDS MCModem_proofs

-----------------------------------------------------------------------------
(* Sweep!: every message is sorted by its result.                          *)

\* The TLVs that come whole are the first ones.
LEMMA CompleteIsBegin ==
  ASSUME NEW t, Client!Queue(t)
  PROVE  /\ Cardinality(Sweep!Complete(t)) \in 0 .. Len(t)
         /\ Sweep!Complete(t) = 1 .. Cardinality(Sweep!Complete(t))
<1> DEFINE S == Sweep!Complete(t)
<1>1. S \subseteq 1 .. Len(t) /\ Len(t) \in Nat BY QueueDomain DEF Sweep!Complete
<1>2. \A i \in S, j \in 1 .. Len(t) : j <= i => j \in S
  BY <1>1, QueueDomain DEF Sweep!Complete
<1> HIDE DEF S
<1>3. CASE S = {}
  <2>1. Cardinality(S) = 0 BY <1>3, FS_EmptySet
  <2>2. 1 .. 0 = {} OBVIOUS
  <2> QED BY <1>1, <1>3, <2>1, <2>2 DEF S
<1>4. CASE S # {}
  <2>1. PICK m : m = Sweep!Max(S) OBVIOUS
  <2>2. m \in S /\ \A x \in S : x <= m BY <1>1, <1>4, <2>1, MaxIsLargest
  <2>3. S = 1 .. m /\ m \in Nat
    <3>1. m \in 1 .. Len(t) BY <1>1, <2>2
    <3>2. \A x \in S : x \in 1 .. m BY <1>1, <2>2, <3>1
    <3>3. \A x \in 1 .. m : x \in S BY <1>1, <1>2, <2>2, <3>1
    <3>4. \A x : x \in S <=> x \in 1 .. m BY <3>2, <3>3
    <3>5. S = 1 .. m BY ONLY <3>4, Zenon
    <3> QED BY <1>1, <3>1, <3>5
  <2>4. Cardinality(1 .. m) = m BY <2>3, FS_Interval
  <2> QED BY <1>1, <2>2, <2>3, <2>4 DEF S
<1> QED BY <1>3, <1>4

\* The results that come whole, and the last of them.
WholeResults(t) ==
  {k_1 \in DOMAIN t : Sweep!IsResult(t[k_1]) /\ \A j \in 1 .. k_1 : Sweep!EndOf(t, j) <= Room}

LEMMA ResultIsLastWhole ==
  ASSUME NEW t, Client!Queue(t)
  PROVE  Sweep!ResultOf(Sweep!parse_tlvs(t)) =
           IF WholeResults(t) = {} THEN <<>> ELSE <<t[Sweep!Max(WholeResults(t))].value>>
<1> DEFINE c == Cardinality(Sweep!Complete(t))
           u == Sweep!parse_tlvs(t)
           R == {i \in DOMAIN u : Sweep!IsResult(u[i])}
<1>1. c \in 0 .. Len(t) /\ Sweep!Complete(t) = 1 .. c BY CompleteIsBegin
<1>2. Sweep!Cardinality(Sweep!Complete(t)) = c BY Zenon DEF Sweep!Cardinality, Cardinality
<1>3. u = [i \in 1 .. c |-> t[i]] BY <1>1, <1>2, QueueBegin DEF Sweep!parse_tlvs
<1>4. DOMAIN t = 1 .. Len(t) /\ Len(t) \in Nat BY QueueDomain
<1>5. \A i \in DOMAIN t : (\A j \in 1 .. i : Sweep!EndOf(t, j) <= Room) <=> i \in 1 .. c
  BY <1>1 DEF Sweep!Complete
<1>6. Sweep!ResultOf(u) = IF R = {} THEN <<>> ELSE <<u[Sweep!Max(R)].value>>
  BY DEF Sweep!ResultOf
<1> HIDE DEF c, u
<1>7. R = WholeResults(t) BY <1>1, <1>3, <1>4, <1>5 DEF WholeResults
<1>8. CASE R = {} BY <1>6, <1>7, <1>8 DEF u
<1>9. CASE R # {}
  <2>1. R \subseteq 1 .. c /\ c \in Nat BY <1>1, <1>3, <1>4
  <2> HIDE DEF R
  <2>2. Sweep!Max(R) \in R BY <1>9, <2>1, MaxIsLargest
  <2>3. u[Sweep!Max(R)] = t[Sweep!Max(R)] BY <1>3, <2>1, <2>2
  <2> QED BY <1>6, <1>7, <1>9, <2>3 DEF u
<1> QED BY <1>8, <1>9

LEMMA SweepTimelyStart == ASSUME Sweep!Init, ConstantsAssumption PROVE Sweep!InTime
<1>1. Sweep!InStep /\ ~Sweep!IsAnswered
  BY DEF Sweep!Init, Sweep!ClientInit, Sweep!InStep, Sweep!IsAnswered
<1>2. ok = <<>> /\ err = {} /\ todo = Sweep!Script(mode) BY DEF Sweep!Init
<1>3. Sweep!Listed = {} BY <1>2 DEF Sweep!Listed
<1> DEFINE n == Len(MsgIds)
           c == Sweep!Calls("sort", MsgIds)
           f == Sweep!First
<1>4. /\ n \in Nat /\ Client!Queue(c) /\ Len(c) = n
      /\ \A j \in 1 .. n : c[j].as = "sort" /\ c[j].msg = MsgIds[j]
  <2>1. DOMAIN MsgIds = 1 .. n /\ n \in Nat BY DEF ConstantsAssumption, IsSequence
  <2>2. c = [i \in 1 .. n |-> [as |-> "sort", msg |-> MsgIds[i], arg |-> "none"]] BY <2>1 DEF Sweep!Calls
  <2> QED BY <2>1, <2>2 DEF Client!Queue
<1>5. Client!Queue(f) /\ Len(f) = 1 /\ f[1].as = "first"
  BY DEF Sweep!First, Sweep!Calls, Client!Queue
<1>6. CASE mode = "sweep"
  <2>1. todo = Then(f, c) BY <1>2, <1>6 DEF Sweep!Script, Then
  <2> HIDE DEF c, f, n
  <2>2. /\ Client!Queue(todo)
        /\ todo = [i \in 1 .. 1 + Len(c) |-> IF i = 1 THEN f[1] ELSE c[i - 1]]
    <3>1. Client!Queue(f) /\ Len(f) = 1 /\ Client!Queue(c) BY <1>4, <1>5
    <3>2. /\ Client!Queue(Then(f, c))
          /\ Then(f, c) = [i \in 1 .. 1 + Len(c) |-> IF i = 1 THEN f[1] ELSE c[i - 1]]
      BY ONLY <3>1, QueueAfterOne
    <3> QED BY ONLY <2>1, <3>2
  <2>3. Len(todo) = 1 + n /\ DOMAIN todo = 1 .. 1 + n BY <1>4, <2>2
  <2>4. Sweep!Done = -1 BY <1>4, <2>3 DEF Sweep!Done, n
  <2>5. ASSUME NEW j \in DOMAIN todo
        PROVE  IF Sweep!Done + j = 0 THEN todo[j].as = "first"
               ELSE todo[j].as = "sort" /\ todo[j].msg = MsgIds[Sweep!Done + j]
    <3>1. CASE j = 1 BY <1>4, <1>5, <2>2, <2>4, <3>1
    <3>2. CASE j # 1
      <4>1. j - 1 \in 1 .. n /\ todo[j] = c[j - 1] /\ Sweep!Done + j = j - 1 BY <1>4, <2>2, <2>3, <2>4, <3>2
      <4>2. c[j - 1].as = "sort" /\ c[j - 1].msg = MsgIds[j - 1] BY <1>4, <4>1
      <4> QED BY <4>1, <4>2
    <3> QED BY <3>1, <3>2
  <2> QED BY <1>1, <1>2, <1>3, <2>4, <2>5 DEF Sweep!InTime
<1>7. CASE mode = "wms"
  <2>1. todo = c BY <1>2, <1>7 DEF Sweep!Script
  <2> HIDE DEF c, f, n
  <2>2. Len(todo) = n /\ DOMAIN todo = 1 .. n BY <1>4, <2>1, QueueDomain
  <2>3. Sweep!Done = 0 BY <1>4, <2>2 DEF Sweep!Done, n
  <2>4. \A j \in DOMAIN todo : Sweep!Done + j = j /\ j # 0 BY <2>2, <2>3
  <2> QED BY <1>1, <1>2, <1>3, <1>4, <2>1, <2>2, <2>3, <2>4 DEF Sweep!InTime
<1>8. CASE mode \notin {"sweep", "wms"} BY <1>1, <1>8 DEF Sweep!InTime
<1> QED BY <1>6, <1>7, <1>8
FirstsOf(s) == {s[j][1] : j \in DOMAIN s}

LEMMA ListedGrows ==
  ASSUME NEW s, Client!Queue(s), NEW m, NEW n
  PROVE  FirstsOf(Append(s, <<m, n>>)) = FirstsOf(s) \union {m}
<1> DEFINE e == <<m, n>>
           t == Append(s, e)
<1>1. e[1] = m OBVIOUS
<1> HIDE DEF e
<1>2. /\ Client!Queue(t) /\ Len(t) = Len(s) + 1 /\ \A i \in 1 .. Len(s) : t[i] = s[i]
      /\ t[Len(s) + 1] = e
  BY QueueAppend
<1> HIDE DEF t
<1>3. DOMAIN t = 1 .. Len(s) + 1 /\ DOMAIN s = 1 .. Len(s) /\ Len(s) \in Nat BY <1>2, QueueDomain
<1>4. \A j \in DOMAIN t : j \in DOMAIN s \/ j = Len(s) + 1 BY <1>3
<1>5. \A j \in DOMAIN s : j \in DOMAIN t BY <1>3
<1>6. Len(s) + 1 \in DOMAIN t BY <1>3
<1>7. {t[j][1] : j \in DOMAIN t} = {s[j][1] : j \in DOMAIN s} \union {m}
  BY <1>1, <1>2, <1>3, <1>4, <1>5, <1>6
<1> QED BY <1>7 DEF t, e, FirstsOf

LEMMA SweepTimelyGot ==
  ASSUME Sweep!IInv, Sweep!InTime, Sweep!Got, ConstantsAssumption PROVE Sweep!InTime'
<1>1. Client!IdsAreFresh /\ Client!InStep /\ Client!Returns
  BY SweepInStep DEF Sweep!IInv, Sweep!InTime, Sweep!Got
<1>2. /\ Sweep!InStep' /\ ~Sweep!IsAnswered'
      /\ Sweep!Undisturbed' => Sweep!Undisturbed /\ Sweep!IsAnswered
  <2>1. /\ Client!InStep' /\ wait' = Client!NoCall
        /\ Client!Undisturbed' => Client!Undisturbed /\ Client!IsAnswered
    BY <1>1, InStepEnds
  <2>2. ~Client!IsAnswered' BY <2>1 DEF Client!IsAnswered
  <2> QED BY <2>1, <2>2, SweepInStep
<1> SUFFICES ASSUME mode \in {"sweep", "wms"}, Sweep!Undisturbed'
             PROVE  /\ Sweep!Done' >= -1
                    /\ \A j \in DOMAIN todo' :
                         IF Sweep!Done' + j = 0 THEN todo'[j].as = "first"
                         ELSE todo'[j].as = "sort" /\ todo'[j].msg = MsgIds[Sweep!Done' + j]
                    /\ \A m \in Sweep!Listed' : Sweep!Fits(m) # {} /\ Sweep!Code(m) = 0
                    /\ \A e \in err' : Sweep!Fits(e[2]) # {} /\ e[1] = Sweep!Code(e[2])
                    /\ \A i \in 1 .. Sweep!Done' : Sweep!Fits(MsgIds[i]) # {} =>
                         IF Sweep!Code(MsgIds[i]) = 0 THEN MsgIds[i] \in Sweep!Listed'
                         ELSE <<Sweep!Code(MsgIds[i]), MsgIds[i]>> \in err'
  <2>1. UNCHANGED <<mode, answers>> BY DEF Sweep!Got
  <2>2. \A m : (Sweep!Fits(m)' = Sweep!Fits(m)) /\ (Sweep!Code(m)' = Sweep!Code(m))
    BY <2>1 DEF Sweep!Fits, Sweep!Code
  <2> QED BY <1>2, <2>1, <2>2 DEF Sweep!InTime
<1>3. Sweep!Undisturbed /\ Sweep!IsAnswered BY <1>2
<1>4. /\ Client!Queue(todo) /\ todo # <<>> /\ todo' = Tail(todo) /\ DOMAIN todo = 1 .. Len(todo)
      /\ Client!Queue(todo') /\ Len(todo') = Len(todo) - 1 /\ Len(todo) > 0 /\ Len(todo) \in Nat
      /\ Head(todo) = todo[1] /\ 1 \in DOMAIN todo
      /\ \A i \in DOMAIN todo' : i \in Nat /\ i + 1 \in DOMAIN todo /\ todo'[i] = todo[i + 1]
  <2>1. Client!Queue(todo) /\ todo # <<>> /\ todo' = Tail(todo) BY SweepIsClient DEF Sweep!IInv, Sweep!Got
  <2> DEFINE t == Tail(todo)
  <2>2. /\ Client!Queue(t) /\ Len(t) = Len(todo) - 1 /\ Len(todo) > 0
        /\ Head(todo) = todo[1] /\ 1 \in 1 .. Len(todo)
        /\ \A i \in 1 .. Len(t) : i + 1 \in 1 .. Len(todo) /\ t[i] = todo[i + 1]
    BY <2>1, QueueTail
  <2>3. todo' = t BY <2>1
  <2> HIDE DEF t
  <2>4. DOMAIN t = 1 .. Len(t) /\ DOMAIN todo = 1 .. Len(todo) /\ Len(todo) \in Nat BY <2>1, <2>2, QueueDomain
  <2>5. \A i \in DOMAIN t : i \in Nat /\ i + 1 \in DOMAIN todo /\ t[i] = todo[i + 1] BY <2>2, <2>4
  <2> QED BY <2>1, <2>2, <2>3, <2>4, <2>5
<1>5. PICK d : d = Sweep!Done OBVIOUS
<1>6. Len(MsgIds) \in Nat /\ d \in Int /\ d >= -1 /\ Sweep!Done' = d + 1
  BY <1>3, <1>4, <1>5 DEF Sweep!Done, ConstantsAssumption, IsSequence, Sweep!InTime
<1>7. \A j \in DOMAIN todo :
        IF d + j = 0 THEN todo[j].as = "first"
        ELSE todo[j].as = "sort" /\ todo[j].msg = MsgIds[d + j]
  BY <1>3, <1>5 DEF Sweep!InTime
<1>8. ASSUME NEW j \in DOMAIN todo'
      PROVE  IF Sweep!Done' + j = 0 THEN todo'[j].as = "first"
             ELSE todo'[j].as = "sort" /\ todo'[j].msg = MsgIds[Sweep!Done' + j]
  <2>1. j \in Nat /\ j + 1 \in DOMAIN todo /\ todo'[j] = todo[j + 1] BY <1>4
  <2>2. Sweep!Done' + j = d + (j + 1) BY <1>6, <2>1
  <2> QED BY <1>7, <2>1, <2>2
<1>9. /\ \A m \in Sweep!Listed : Sweep!Fits(m) # {} /\ Sweep!Code(m) = 0
      /\ \A e \in err : Sweep!Fits(e[2]) # {} /\ e[1] = Sweep!Code(e[2])
      /\ \A i \in 1 .. d : Sweep!Fits(MsgIds[i]) # {} =>
           IF Sweep!Code(MsgIds[i]) = 0 THEN MsgIds[i] \in Sweep!Listed
           ELSE <<Sweep!Code(MsgIds[i]), MsgIds[i]>> \in err
  BY <1>3, <1>5 DEF Sweep!InTime
<1>10. CASE d + 1 = 0
  <2>1. Head(todo).as = "first" BY <1>4, <1>7, <1>10
  <2>2. UNCHANGED <<ok, err>> BY <2>1 DEF Sweep!Got
  <2>3. Sweep!Listed' = Sweep!Listed BY <2>2 DEF Sweep!Listed
  <2>4. 1 .. Sweep!Done' = {} BY <1>6, <1>10
  <2> QED BY <1>6, <1>8, <1>9, <2>2, <2>3, <2>4
<1>11. CASE d + 1 # 0
  <2> DEFINE m == MsgIds[d + 1]
             t == answers[m]
             r == Sweep!ResultOf(Sweep!parse_tlvs(t))
  <2>1. Head(todo).as = "sort" /\ Head(todo).msg = m BY <1>4, <1>7, <1>11
  <2>2. Head(replies).body = t
    BY <1>3, <2>1 DEF Sweep!InTime, Sweep!IInv, Sweep!IsAnswered
  <2>3. /\ ok' = IF r = <<0>> THEN Append(ok, <<m, Len(Sweep!parse_tlvs(t))>>) ELSE ok
        /\ err' = err \union (IF r \in {<<>>, <<0>>} THEN {} ELSE {<<r[1], m>>})
    BY <2>1, <2>2 DEF Sweep!Got, Sweep!Sorted
  <2>4. Client!Queue(t)
    <3>1. m \in Sweep!Known(mode)
      BY <1>4, <2>1 DEF Sweep!IInv
    <3>2. m \in Sweep!ToSet(MsgIds) \union {Sweep!EnableGet} BY <3>1 DEF Sweep!Known
    <3>3. t \in Answers \union {<<Sweep!Result(0)>>} BY <3>2 DEF Sweep!IInv
    <3>4. Client!Queue(<<Sweep!Result(0)>>) BY DEF Client!Queue
    <3> QED BY <3>3, <3>4, SeqIsQueue DEF ConstantsAssumption
  <2>5. Sweep!Fits(m) = WholeResults(t) BY DEF Sweep!Fits, WholeResults
  <2>6. r = IF Sweep!Fits(m) = {} THEN <<>> ELSE <<Sweep!Code(m)>>
    BY <2>4, <2>5, ResultIsLastWhole DEF Sweep!Code
  <2> HIDE DEF r, t
  <2>7. Sweep!Listed' = IF Sweep!Fits(m) # {} /\ Sweep!Code(m) = 0 THEN Sweep!Listed \union {m} ELSE Sweep!Listed
    <3>1. r = <<0>> <=> Sweep!Fits(m) # {} /\ Sweep!Code(m) = 0 BY <2>6
    <3>2. CASE r = <<0>>
      <4>1. Client!Queue(ok) BY SweepIsClient DEF Sweep!IInv
      <4>2. FirstsOf(ok') = FirstsOf(ok) \union {m} BY <2>3, <3>2, <4>1, ListedGrows
      <4>3. Sweep!Listed' = FirstsOf(ok') /\ Sweep!Listed = FirstsOf(ok) BY DEF Sweep!Listed, FirstsOf
      <4> QED BY <3>1, <3>2, <4>2, <4>3
    <3>3. CASE r # <<0>>
      <4>1. ok' = ok BY <2>3, <3>3
      <4>2. Sweep!Listed' = Sweep!Listed BY <4>1 DEF Sweep!Listed
      <4> QED BY <3>1, <3>3, <4>2
    <3> QED BY <3>2, <3>3
  <2>8. err' = IF Sweep!Fits(m) # {} /\ Sweep!Code(m) # 0 THEN err \union {<<Sweep!Code(m), m>>} ELSE err
    <3>1. CASE Sweep!Fits(m) = {}
      <4>1. r = <<>> BY <2>6, <3>1
      <4> QED BY <2>3, <3>1, <4>1
    <3>2. CASE Sweep!Fits(m) # {}
      <4>1. r = <<Sweep!Code(m)>> BY <2>6, <3>2
      <4>2. r[1] = Sweep!Code(m) /\ (r \in {<<>>, <<0>>} <=> Sweep!Code(m) = 0) BY <4>1
      <4> QED BY <2>3, <3>2, <4>2
    <3> QED BY <3>1, <3>2
  <2>9. \A i \in 1 .. Sweep!Done' : i \in 1 .. d \/ i = d + 1 BY <1>6
  <2> HIDE DEF m
  <2>10. \A i \in 1 .. Sweep!Done' : Sweep!Fits(MsgIds[i]) # {} =>
           IF Sweep!Code(MsgIds[i]) = 0 THEN MsgIds[i] \in Sweep!Listed'
           ELSE <<Sweep!Code(MsgIds[i]), MsgIds[i]>> \in err'
    <3> SUFFICES ASSUME NEW i \in 1 .. Sweep!Done', Sweep!Fits(MsgIds[i]) # {}
                 PROVE  IF Sweep!Code(MsgIds[i]) = 0 THEN MsgIds[i] \in Sweep!Listed'
                        ELSE <<Sweep!Code(MsgIds[i]), MsgIds[i]>> \in err'
      OBVIOUS
    <3>1. CASE i \in 1 .. d BY <1>9, <2>7, <2>8, <3>1
    <3>2. CASE i = d + 1
      <4>1. MsgIds[i] = m BY <3>2 DEF m
      <4> QED BY <2>7, <2>8, <4>1
    <3> QED BY <2>9, <3>1, <3>2
  <2>11. \A e \in err' : Sweep!Fits(e[2]) # {} /\ e[1] = Sweep!Code(e[2])
    BY <1>9, <2>8
  <2>12. \A n \in Sweep!Listed' : Sweep!Fits(n) # {} /\ Sweep!Code(n) = 0 BY <1>9, <2>7
  <2>13. Sweep!Done' >= -1 BY <1>6
  <2> QED BY <1>8, <2>10, <2>11, <2>12, <2>13
<1> QED BY <1>10, <1>11
LEMMA SweepTimely ==
  ASSUME Sweep!IInv, Sweep!InTime, [Sweep!Next]_(Sweep!vars), ConstantsAssumption
  PROVE  Sweep!InTime'
<1>0. Client!IdsAreFresh /\ Client!InStep BY SweepInStep DEF Sweep!IInv, Sweep!InTime
<1>1. ASSUME UNCHANGED <<mode, todo, ok, err, answers>>, Sweep!InStep',
             mode \in {"sweep", "wms"} /\ Sweep!Undisturbed' =>
               Sweep!Undisturbed /\ (Sweep!IsAnswered' => Head(replies').body = answers'[wait'.msg])
      PROVE  Sweep!InTime'
  <2>1. \A m : (Sweep!Fits(m)' = Sweep!Fits(m)) /\ (Sweep!Code(m)' = Sweep!Code(m))
    BY <1>1 DEF Sweep!Fits, Sweep!Code
  <2>2. Sweep!Done' = Sweep!Done /\ Sweep!Listed' = Sweep!Listed BY <1>1 DEF Sweep!Done, Sweep!Listed
  <2>3. SUFFICES ASSUME mode \in {"sweep", "wms"}, Sweep!Undisturbed'
        PROVE  /\ Sweep!Done >= -1
               /\ \A j \in DOMAIN todo :
                    IF Sweep!Done + j = 0 THEN todo[j].as = "first"
                    ELSE todo[j].as = "sort" /\ todo[j].msg = MsgIds[Sweep!Done + j]
               /\ \A m \in Sweep!Listed : Sweep!Fits(m) # {} /\ Sweep!Code(m) = 0
               /\ \A e \in err : Sweep!Fits(e[2]) # {} /\ e[1] = Sweep!Code(e[2])
               /\ \A i \in 1 .. Sweep!Done : Sweep!Fits(MsgIds[i]) # {} =>
                    IF Sweep!Code(MsgIds[i]) = 0 THEN MsgIds[i] \in Sweep!Listed
                    ELSE <<Sweep!Code(MsgIds[i]), MsgIds[i]>> \in err
    BY <1>1, <2>1, <2>2 DEF Sweep!InTime
  <2> QED BY <1>1, <2>3 DEF Sweep!InTime
<1>2. CASE Sweep!Ask
  <2>1. Client!Send(Head(todo).msg, Head(todo).arg)
    BY <1>2 DEF Sweep!Ask, Sweep!Send, Client!Send, Sweep!NoCall, Client!NoCall
  <2>2. /\ Client!InStep' /\ (Client!Undisturbed' <=> Client!Undisturbed)
        /\ Client!Undisturbed' => Client!IsAsked' /\ ~Client!IsAnswered'
    BY <1>0, <2>1, InStepSends
  <2>3. UNCHANGED <<mode, todo, ok, err, answers>> BY <1>2 DEF Sweep!Ask, Sweep!sweepvars
  <2> QED BY <1>1, <2>2, <2>3, SweepInStep
<1>3. CASE Sweep!Discards
  <2>1. Sweep!InStep' /\ ~Sweep!Undisturbed' BY <1>0, <1>3, SweepInStep, InStepDiscards DEF Sweep!Discards
  <2> QED BY <2>1 DEF Sweep!InTime
<1>4. CASE Sweep!Missed
  <2>1. Client!TimesOut BY <1>4, SweepInStep DEF Sweep!Missed
  <2>2. Sweep!InStep' /\ ~Sweep!Undisturbed' BY <1>0, <2>1, InStepEnds, SweepInStep
  <2> QED BY <2>2 DEF Sweep!InTime
<1>5. CASE Sweep!Modem
  <2> DEFINE q == Head(requests)
  <2>1. \E b : /\ Client!ModemAnswers(b)
               /\ mode # "set" => b = answers[q.msg]
    <3>1. \E b : /\ Sweep!ModemAnswers(b)
                 /\ b = CASE mode = "set" /\ q.msg = Sweep!SetMsg ->
                                <<Sweep!Result(IF setting = Sweep!Refused THEN 94 ELSE 0)>>
                          [] mode = "set" /\ q.msg = Sweep!Back -> <<Sweep!Result(0)>> \o
                                (IF setting = Sweep!Refused THEN <<>>
                                 ELSE <<[tag |-> 16, size |-> Width, value |-> setting]>>)
                          [] OTHER -> answers[q.msg]
      BY <1>5 DEF Sweep!Modem
    <3> QED BY <3>1 DEF Sweep!ModemAnswers, Client!ModemAnswers
  <2>2. PICK b : Client!ModemAnswers(b) /\ (mode # "set" => b = answers[q.msg]) BY <2>1
  <2>3. UNCHANGED <<mode, todo, ok, err, answers>> BY <1>5 DEF Sweep!Modem
  <2>4. /\ Sweep!InStep' /\ wait' = wait
        /\ Sweep!Undisturbed' => Sweep!Undisturbed /\ q = wait /\ Head(replies').body = b
    BY <1>0, <2>2, InStepAnswers, SweepInStep
  <2>5. mode \in {"sweep", "wms"} => mode # "set" OBVIOUS
  <2>6. mode \in {"sweep", "wms"} /\ Sweep!Undisturbed' => Head(replies').body = answers'[wait'.msg]
    BY <2>2, <2>3, <2>4, <2>5
  <2> QED BY <1>1, <2>3, <2>4, <2>6
<1>6. CASE UNCHANGED Sweep!vars
  <2>1. /\ Sweep!InStep' /\ UNCHANGED <<mode, todo, ok, err, answers, wait, replies>>
        /\ (Sweep!Undisturbed' <=> Sweep!Undisturbed) /\ (Sweep!IsAnswered' <=> Sweep!IsAnswered)
    BY <1>6 DEF Sweep!vars, Sweep!client, Sweep!sweepvars, Sweep!InTime, Sweep!InStep, Sweep!Undisturbed,
                Sweep!IsAsked, Sweep!IsAnswered, Sweep!Matches
  <2>2. mode \in {"sweep", "wms"} /\ Sweep!Undisturbed /\ Sweep!IsAnswered => Head(replies).body = answers[wait.msg]
    BY DEF Sweep!InTime
  <2> QED BY <1>1, <2>1, <2>2
<1> QED BY <1>2, <1>3, <1>4, <1>5, <1>6, SweepTimelyGot DEF Sweep!Next

LEMMA SweepComplete == ASSUME Sweep!IInv, Sweep!InTime, ConstantsAssumption PROVE Sweep!SweepIsComplete
<1> SUFFICES ASSUME mode \in {"sweep", "wms"}, todo = <<>>, Sweep!Undisturbed, NEW i \in DOMAIN MsgIds
             PROVE  LET m == MsgIds[i]
                    IN  IF Sweep!Fits(m) = {} THEN m \notin Sweep!Listed \union {e[2] : e \in err}
                        ELSE IF Sweep!Code(m) = 0 THEN m \in Sweep!Listed ELSE <<Sweep!Code(m), m>> \in err
  BY DEF Sweep!SweepIsComplete
<1>1. i \in 1 .. Sweep!Done BY DEF Sweep!Done, ConstantsAssumption, IsSequence
<1> QED BY <1>1 DEF Sweep!InTime

-----------------------------------------------------------------------------
(* Write!: the transport, with no more than one request under way.         *)

LEMMA OneTaken ==
  ASSUME NEW q, Write!One(q)
  PROVE  q = <<Head(q)>> /\ DOMAIN q = {1} /\ Len(q) = 1 /\ q[1] = Head(q) /\ Tail(q) = <<>> /\ q # <<>>
<1>1. PICK x : x = Head(q) OBVIOUS
<1>2. q = <<x>> BY <1>1 DEF Write!One
<1> QED BY <1>1, <1>2

LEMMA OneAdded ==
  ASSUME NEW x
  PROVE  Append(<<>>, x) = <<x>> /\ Write!One(<<x>>) /\ Head(<<x>>) = x
BY DEF Write!One

LEMMA InTimeSends ==
  ASSUME Write!Quiet, NEW q, requests' = Append(requests, q), UNCHANGED replies
  PROVE  Write!OneAsked(q.cmd)' /\ Head(requests') = q /\ requests' # <<>> /\ replies' = <<>>
<1>1. requests' = <<q>> /\ replies' = <<>> BY OneAdded DEF Write!Quiet
<1> QED BY <1>1, OneAdded DEF Write!OneAsked

LEMMA InTimeReceives ==
  ASSUME NEW cmd, Write!OneUnderWay(cmd), NEW c, NEW r, Write!Receive(c, r)
  PROVE  /\ requests = <<>> /\ replies # <<>> /\ r = Head(replies) /\ c = cmd /\ replies' = <<>>
         /\ Write!OneAnswered(cmd)
<1>1. PICK i \in DOMAIN replies :
        /\ replies[i].cmd = c /\ r = replies[i]
        /\ \E last \in i .. Len(replies) : replies' = SubSeq(replies, last + 1, Len(replies))
  BY DEF Write!Receive
<1>2. Write!OneAnswered(cmd) BY <1>1 DEF Write!OneUnderWay, Write!OneAsked
<1>3. requests = <<>> /\ Write!One(replies) /\ Head(replies).cmd = cmd BY <1>2 DEF Write!OneAnswered
<1>4. i = 1 /\ Len(replies) = 1 BY <1>1, <1>3, OneTaken
<1>5. r = Head(replies) /\ c = cmd BY <1>1, <1>3, <1>4, OneTaken
<1>6. replies' = SubSeq(replies, 2, 1) BY <1>1, <1>4
<1>7. PICK x : replies = <<x>> BY <1>3, OneTaken
<1>8. SubSeq(<<x>>, 2, 1) = <<>> OBVIOUS
<1> QED BY <1>2, <1>3, <1>5, <1>6, <1>7, <1>8

LEMMA InTimeAnswers ==
  ASSUME NEW cmd, Write!OneUnderWay(cmd), requests # <<>>,
         requests' = Tail(requests), NEW r, replies' = Append(replies, r)
  PROVE  /\ replies = <<>> /\ Head(requests).cmd = cmd
         /\ requests' = <<>> /\ replies' # <<>> /\ Head(replies') = r
         /\ r.cmd = cmd => Write!OneAnswered(cmd)' /\ Write!OneUnderWay(cmd)'
<1>1. Write!One(requests) /\ replies = <<>> /\ Head(requests).cmd = cmd
  BY DEF Write!OneUnderWay, Write!OneAsked, Write!OneAnswered
<1>2. requests' = <<>> /\ replies' = <<r>> BY <1>1, OneTaken, OneAdded
<1> QED BY <1>1, <1>2, OneAdded DEF Write!OneUnderWay, Write!OneAnswered

LEMMA InTimeMisses ==
  ASSUME timeouts \in Nat, Write!NoAnswer PROVE timeouts' \in Nat /\ timeouts' # 0
BY DEF Write!NoAnswer

-----------------------------------------------------------------------------
(* Masks!: set_log_mask() of sdpraw.py, with answers in time.              *)

LEMMA MasksWay ==
  /\ \A c : Masks!OneUnderWay(c) <=> Write!OneUnderWay(c)
  /\ \A c : Masks!OneUnderWay(c)' <=> Write!OneUnderWay(c)'
  /\ \A c : Write!OneAsked(c)' => Write!OneUnderWay(c)'
  /\ Masks!Quiet <=> Write!Quiet
  /\ Masks!Quiet' <=> (requests' = <<>> /\ replies' = <<>>)
  /\ \A c, r : Masks!Receive(c, r) => Write!Receive(c, r)
  /\ Masks!NoAnswer => Write!NoAnswer
BY DEF Masks!OneUnderWay, Masks!OneAsked, Masks!OneAnswered, Masks!One, Masks!Quiet,
       Write!OneUnderWay, Write!OneAsked, Write!OneAnswered, Write!One, Write!Quiet,
       Masks!Receive, Write!Receive, Masks!NoAnswer, Write!NoAnswer

LEMMA MasksTimelyStart == ASSUME Masks!Init, ConstantsAssumption PROVE Masks!InTime
<1>1. /\ requests = <<>> /\ replies = <<>> /\ timeouts = 0 /\ pc = "send" /\ at = 1 /\ ok = {} /\ raised = {}
  BY DEF Masks!Init, Masks!ChannelInit
<1>2. IsSequence(Equips) BY DEF ConstantsAssumption
<1>3. \A i \in DOMAIN Equips : ~(i < 1) BY <1>2 DEF IsSequence
<1> QED BY <1>1, <1>3 DEF Masks!InTime, Masks!Quiet, Masks!Ids

\* While a request waits the program has not reported what it asks for.
LEMMA MasksTimelySend ==
  ASSUME Masks!InTime, Masks!SendMask, ConstantsAssumption PROVE Masks!InTime'
<1>1. /\ pc = "send" /\ UNCHANGED <<replies, timeouts, at, ok, raised, refused, status>>
      /\ \/ /\ at <= Len(Equips) /\ pc' = "wait"
            /\ requests' = Append(requests, [cmd |-> "logmask", id |-> Equips[at]])
         \/ /\ ~(at <= Len(Equips)) /\ pc' = "waitmessage"
            /\ requests' = Append(requests, [cmd |-> "msgmask", id |-> "all_messages"])
  BY DEF Masks!SendMask, Masks!Send, Masks!All
<1>2. timeouts' \in Nat /\ at' \in Nat \ {0} BY <1>1 DEF Masks!InTime
<1>3. SUFFICES ASSUME timeouts = 0 PROVE Masks!InTime'
  BY <1>1, <1>2 DEF Masks!InTime
<1>4. Write!Quiet /\ raised = ok /\ ok \subseteq Masks!Ids BY <1>1, <1>3, MasksWay DEF Masks!InTime
<1>5. \A i \in DOMAIN Equips : i < at => Equips[i] \in ok \union refused BY <1>3 DEF Masks!InTime
<1>6. CASE pc' = "wait"
  <2>1. at <= Len(Equips) /\ requests' = Append(requests, [cmd |-> "logmask", id |-> Equips[at]]) BY <1>1, <1>6
  <2>2. Write!OneAsked("logmask")' /\ Head(requests') = [cmd |-> "logmask", id |-> Equips[at]] /\ replies' = <<>>
    BY <1>1, <1>4, <2>1, InTimeSends
  <2>3. Masks!OneUnderWay("logmask")' BY <2>2, MasksWay
  <2>4. Head(requests').id = Equips[at] BY <2>2
  <2> QED BY <1>1, <1>2, <1>4, <1>5, <1>6, <2>1, <2>2, <2>3, <2>4 DEF Masks!InTime, Masks!Ids
<1>7. CASE pc' = "waitmessage"
  <2>1. ~(at <= Len(Equips)) /\ requests' = Append(requests, [cmd |-> "msgmask", id |-> "all_messages"])
    BY <1>1, <1>7
  <2>2. Write!OneAsked("msgmask")' /\ Head(requests') = [cmd |-> "msgmask", id |-> "all_messages"] /\ replies' = <<>>
    BY <1>1, <1>4, <2>1, InTimeSends
  <2>3. Masks!OneUnderWay("msgmask")' BY <2>2, MasksWay
  <2>4. Head(requests').id = "all_messages" BY <2>2
  <2>5. at > Len(Equips) BY <2>1, <1>2, <1>1 DEF ConstantsAssumption, IsSequence
  <2> QED BY <1>1, <1>2, <1>4, <1>5, <1>7, <2>1, <2>2, <2>3, <2>4, <2>5 DEF Masks!InTime, Masks!All, Masks!Ids
<1> QED BY <1>1, <1>6, <1>7

LEMMA MasksTimelyMask ==
  ASSUME Masks!InTime, Masks!Mask, ConstantsAssumption PROVE Masks!InTime'
<1>1. /\ pc = "wait" /\ at' = at + 1 /\ pc' = "send" /\ UNCHANGED <<requests, raised, refused, status>>
      /\ \/ \E r : /\ Masks!Receive("logmask", r) /\ UNCHANGED timeouts
                   /\ ok' = IF r.err = 0 THEN ok \union {Equips[at]} ELSE ok
         \/ Masks!NoAnswer /\ ok' = ok
  BY DEF Masks!Mask
<1>0. at' \in Nat \ {0} BY <1>1 DEF Masks!InTime
<1>2. CASE Masks!NoAnswer /\ ok' = ok
  <2>1. timeouts' \in Nat /\ timeouts' # 0 BY <1>2, InTimeMisses, MasksWay DEF Masks!InTime
  <2> QED BY <1>0, <1>1, <1>2, <2>1 DEF Masks!InTime, Masks!Ids
<1>3. CASE \E r : /\ Masks!Receive("logmask", r) /\ UNCHANGED timeouts
                  /\ ok' = IF r.err = 0 THEN ok \union {Equips[at]} ELSE ok
  <2>1. PICK r : /\ Masks!Receive("logmask", r) /\ UNCHANGED timeouts
                 /\ ok' = IF r.err = 0 THEN ok \union {Equips[at]} ELSE ok
    BY <1>3
  <2>2. CASE timeouts # 0
    <3> QED BY <1>0, <1>1, <2>1, <2>2 DEF Masks!InTime
  <2>3. CASE timeouts = 0
    <3>1. Write!OneUnderWay("logmask") /\ at <= Len(Equips) BY <1>1, <2>3, MasksWay DEF Masks!InTime
    <3>2. requests = <<>> /\ replies # <<>> /\ r = Head(replies) /\ replies' = <<>>
      BY <2>1, <3>1, MasksWay, InTimeReceives
    <3>3. IF r.err = 0 THEN raised = ok \union {Equips[at]} ELSE raised = ok /\ Equips[at] \in refused
      BY <1>1, <2>3, <3>2 DEF Masks!InTime
    <3>4. raised' = ok' BY <1>1, <2>1, <3>3
    <3>5. at \in DOMAIN Equips BY <1>1, <3>1 DEF Masks!InTime, ConstantsAssumption, IsSequence
    <3>6. ok' \subseteq Masks!Ids BY <2>1, <2>3, <3>5 DEF Masks!InTime, Masks!Ids
    <3>7. \A i \in DOMAIN Equips : i < at + 1 => Equips[i] \in ok' \union refused
      <4>1. \A i \in DOMAIN Equips : i \in Nat BY DEF ConstantsAssumption, IsSequence
      <4>2. \A i \in DOMAIN Equips : i < at => Equips[i] \in ok \union refused BY <2>3 DEF Masks!InTime
      <4>3. Equips[at] \in ok' \union refused BY <2>1, <3>3
      <4>4. ASSUME NEW i \in DOMAIN Equips, i < at + 1 PROVE i < at \/ i = at
        BY <4>1, <4>4 DEF Masks!InTime
      <4> QED BY <2>1, <4>2, <4>3, <4>4
    <3>8. Masks!Quiet' BY <1>1, <3>2, MasksWay
    <3> QED BY <1>0, <1>1, <2>1, <2>3, <3>4, <3>6, <3>7, <3>8 DEF Masks!InTime, Masks!Ids
  <2> QED BY <2>2, <2>3
<1> QED BY <1>1, <1>2, <1>3

LEMMA MasksTimelyEnd ==
  ASSUME Masks!InTime, Masks!MessageMask PROVE Masks!InTime'
<1>1. /\ pc = "waitmessage" /\ pc' = "end" /\ UNCHANGED <<requests, raised, refused, at, ok>>
      /\ \/ \E r : /\ Masks!Receive("msgmask", r) /\ UNCHANGED timeouts
                   /\ status' = IF r.err = 0 THEN "status=0" ELSE "status=1"
         \/ Masks!NoAnswer
  BY DEF Masks!MessageMask
<1>2. CASE Masks!NoAnswer
  <2>1. timeouts' \in Nat /\ timeouts' # 0 BY <1>2, InTimeMisses, MasksWay DEF Masks!InTime
  <2> QED BY <1>1, <2>1 DEF Masks!InTime
<1>3. CASE \E r : /\ Masks!Receive("msgmask", r) /\ UNCHANGED timeouts
                  /\ status' = IF r.err = 0 THEN "status=0" ELSE "status=1"
  <2>1. PICK r : /\ Masks!Receive("msgmask", r) /\ UNCHANGED timeouts
                 /\ status' = IF r.err = 0 THEN "status=0" ELSE "status=1"
    BY <1>3
  <2>2. CASE timeouts # 0
    BY <1>1, <2>1, <2>2 DEF Masks!InTime
  <2>3. CASE timeouts = 0
    <3>1. Write!OneUnderWay("msgmask") BY <1>1, <2>3, MasksWay DEF Masks!InTime
    <3>2. requests = <<>> /\ replies # <<>> /\ r = Head(replies) /\ replies' = <<>>
      BY <2>1, <3>1, MasksWay, InTimeReceives
    <3>3. raised = IF r.err = 0 THEN ok \union {"all_messages"} ELSE ok
      BY <1>1, <2>3, <3>2 DEF Masks!InTime, Masks!All
    <3>4. raised' = IF status' = "status=0" THEN ok' \union {"all_messages"} ELSE ok'
      BY <1>1, <2>1, <3>3
    <3>5. Masks!Quiet' BY <1>1, <3>2, MasksWay
    <3> QED BY <1>1, <2>1, <2>3, <3>4, <3>5 DEF Masks!InTime, Masks!Ids, Masks!All
  <2> QED BY <2>2, <2>3
<1> QED BY <1>1, <1>2, <1>3

LEMMA MasksTimelyModem ==
  ASSUME Masks!InTime, Masks!ModemSetsMask PROVE Masks!InTime'
<1> DEFINE q == Head(requests)
<1>1. /\ requests # <<>> /\ requests' = Tail(requests) /\ UNCHANGED <<timeouts, pc, at, ok, status>>
      /\ \/ /\ raised' = raised \union {q.id} /\ UNCHANGED refused
            /\ replies' = Append(replies, [cmd |-> q.cmd, err |-> 0])
         \/ /\ refused' = refused \union {q.id} /\ UNCHANGED raised
            /\ replies' = Append(replies, [cmd |-> q.cmd, err |-> 1])
  BY DEF Masks!ModemSetsMask
<1>2. SUFFICES ASSUME timeouts = 0 PROVE Masks!InTime'
  BY <1>1 DEF Masks!InTime
<1>3. pc \notin {"send", "end"}
  BY <1>1, <1>2 DEF Masks!InTime, Masks!Quiet
<1>4. (\A i \in DOMAIN Equips : i < at => Equips[i] \in ok \union refused)' BY <1>1, <1>2 DEF Masks!InTime
<1>5. CASE pc = "wait"
  <2>1. Write!OneUnderWay("logmask") /\ q.id = Equips[at] /\ raised = ok BY <1>1, <1>2, <1>5, MasksWay DEF Masks!InTime
  <2>2. /\ requests' = <<>> /\ replies' # <<>> /\ Write!OneUnderWay("logmask")'
        /\ IF Head(replies').err = 0 THEN raised' = ok \union {Equips[at]}
           ELSE raised' = ok /\ Equips[at] \in refused'
    <3>1. q.cmd = "logmask" BY <1>1, <2>1 DEF Write!OneUnderWay, Write!OneAsked, Write!OneAnswered
    <3> HIDE DEF q
    <3>2. ASSUME NEW e \in {0, 1}, replies' = Append(replies, [cmd |-> q.cmd, err |-> e])
          PROVE  /\ requests' = <<>> /\ replies' # <<>> /\ Write!OneUnderWay("logmask")'
                 /\ Head(replies').err = e
      <4> DEFINE r == [cmd |-> q.cmd, err |-> e]
      <4>1. r.cmd = "logmask" /\ r.err = e BY <3>1
      <4> HIDE DEF r
      <4>2. replies' = Append(replies, r) BY <3>2 DEF r
      <4> QED BY <1>1, <2>1, <4>1, <4>2, InTimeAnswers
    <3> QED BY <1>1, <2>1, <3>2
  <2>3. Masks!OneUnderWay("logmask")' BY <2>2, MasksWay
  <2> QED BY <1>1, <1>2, <1>4, <1>5, <2>2, <2>3 DEF Masks!InTime, Masks!Ids
<1>6. CASE pc = "waitmessage"
  <2>1. Write!OneUnderWay("msgmask") /\ q.id = "all_messages" /\ raised = ok
    BY <1>1, <1>2, <1>6, MasksWay DEF Masks!InTime, Masks!All
  <2>2. /\ requests' = <<>> /\ replies' # <<>> /\ Write!OneUnderWay("msgmask")'
        /\ raised' = IF Head(replies').err = 0 THEN ok \union {"all_messages"} ELSE ok
    <3>1. q.cmd = "msgmask" BY <1>1, <2>1 DEF Write!OneUnderWay, Write!OneAsked, Write!OneAnswered
    <3> HIDE DEF q
    <3>2. ASSUME NEW e \in {0, 1}, replies' = Append(replies, [cmd |-> q.cmd, err |-> e])
          PROVE  /\ requests' = <<>> /\ replies' # <<>> /\ Write!OneUnderWay("msgmask")'
                 /\ Head(replies').err = e
      <4> DEFINE r == [cmd |-> q.cmd, err |-> e]
      <4>1. r.cmd = "msgmask" /\ r.err = e BY <3>1
      <4> HIDE DEF r
      <4>2. replies' = Append(replies, r) BY <3>2 DEF r
      <4> QED BY <1>1, <2>1, <4>1, <4>2, InTimeAnswers
    <3> QED BY <1>1, <2>1, <3>2
  <2>3. Masks!OneUnderWay("msgmask")' BY <2>2, MasksWay
  <2> QED BY <1>1, <1>2, <1>4, <1>6, <2>2, <2>3 DEF Masks!InTime, Masks!Ids, Masks!All
<1>7. CASE pc \notin {"send", "end", "wait", "waitmessage"}
  BY <1>1, <1>2, <1>4, <1>7 DEF Masks!InTime, Masks!Ids
<1> QED BY <1>3, <1>5, <1>6, <1>7

LEMMA MasksTimely ==
  ASSUME Masks!InTime, [Masks!Next]_(Masks!vars), ConstantsAssumption PROVE Masks!InTime'
<1>1. CASE Masks!Next
  BY <1>1, MasksTimelySend, MasksTimelyMask, MasksTimelyEnd, MasksTimelyModem DEF Masks!Next
<1>2. CASE UNCHANGED Masks!vars
  BY <1>2, MasksWay DEF Masks!vars, Masks!chanvars, Masks!InTime, Masks!Ids, Masks!Quiet, Masks!OneUnderWay,
                 Masks!OneAsked, Masks!OneAnswered, Masks!One
<1> QED BY <1>1, <1>2

LEMMA MasksReported == ASSUME Masks!InTime, ConstantsAssumption PROVE Masks!ReportIsExact
<1>1. SUFFICES ASSUME pc = "end", timeouts = 0
               PROVE  /\ ok = raised \ {"all_messages"} /\ Masks!Ids \ ok \subseteq refused
                      /\ status = "status=0" <=> "all_messages" \in raised
  BY DEF Masks!ReportIsExact, Masks!All
<1>2. /\ ok \subseteq Masks!Ids /\ at > Len(Equips) /\ at \in Nat
      /\ raised = IF status = "status=0" THEN ok \union {"all_messages"} ELSE ok
      /\ \A i \in DOMAIN Equips : i < at => Equips[i] \in ok \union refused
  BY <1>1 DEF Masks!InTime, Masks!All
<1>3. "all_messages" \notin Masks!Ids BY DEF Masks!Ids, ConstantsAssumption
<1>4. \A i \in DOMAIN Equips : i < at
  BY <1>2 DEF ConstantsAssumption, IsSequence
<1>5. Masks!Ids \ ok \subseteq refused BY <1>2, <1>4 DEF Masks!Ids
<1> QED BY <1>2, <1>3, <1>5

-----------------------------------------------------------------------------
(* Diff!: subdiff.py, with answers in time.                                *)

LEMMA DiffWay ==
  /\ \A c : Diff!OneUnderWay(c) <=> Write!OneUnderWay(c)
  /\ \A c : Diff!OneUnderWay(c)' <=> Write!OneUnderWay(c)'
  /\ \A c : Write!OneAsked(c)' => Write!OneUnderWay(c)'
  /\ Diff!Quiet <=> Write!Quiet
  /\ Diff!Quiet' <=> (requests' = <<>> /\ replies' = <<>>)
  /\ \A c, r : Diff!Receive(c, r) => Write!Receive(c, r)
BY DEF Diff!OneUnderWay, Diff!OneAsked, Diff!OneAnswered, Diff!One, Diff!Quiet,
       Write!OneUnderWay, Write!OneAsked, Write!OneAnswered, Write!One, Write!Quiet,
       Diff!Receive, Write!Receive

LEMMA DiffMisses ==
  ASSUME Diff!InTime, Diff!NoAnswer PROVE timeouts' \in Nat /\ timeouts' # 0
BY DEF Diff!InTime, Diff!NoAnswer

\* After a miss nothing is claimed.
LEMMA DiffLate ==
  ASSUME timeouts' \in Nat, timeouts' # 0 PROVE Diff!InTime'
BY DEF Diff!InTime, Diff!TwinlessIsShown

LEMMA DiffTimelyStart == ASSUME Diff!Init, ConstantsAssumption PROVE Diff!InTime
<1>1. requests = <<>> /\ replies = <<>> /\ timeouts = 0 /\ pc = "start" /\ next = 1 /\ reading = "sub0" /\ same = {}
  BY DEF Diff!Init, Diff!ChannelInit, Diff!ReadInit
<1> QED BY <1>1 DEF Diff!InTime, Diff!Quiet, Diff!TwinlessIsShown

\* The program asks for its item number i, of the subscription it reads.
DiffAsks(i) ==
  /\ requests' = Append(requests, [cmd |-> "open", path |-> <<Found[i], reading'>>])
  /\ pc' = "open" /\ next' = i

LEMMA DiffAsksNext ==
  ASSUME requests = <<>>, replies' = <<>>, NEW i, DiffAsks(i)
  PROVE  Diff!OneUnderWay("open")' /\ Head(requests').path = Diff!Path'
<1> DEFINE q == [cmd |-> "open", path |-> <<Found[i], reading'>>]
<1>1. q.cmd = "open" /\ q.path = <<Found[i], reading'>> OBVIOUS
<1>2. requests' = Append(requests, q) /\ next' = i BY DEF DiffAsks
<1>3. Diff!Path' = <<Found[i], reading'>> BY <1>2 DEF Diff!Path
<1> HIDE DEF q
<1>4. requests' = <<q>> BY <1>2, OneAdded
<1> QED BY <1>1, <1>3, <1>4, OneAdded, DiffWay DEF Write!OneAsked

LEMMA DiffTimelyFirst == ASSUME Diff!InTime, Diff!Start PROVE Diff!InTime'
<1>1. /\ pc = "start" /\ pc' = "open" /\ UNCHANGED <<replies, files, timeouts, next, reading, sub0, same>>
      /\ requests' = Append(requests, [cmd |-> "open", path |-> <<Found[1], "sub0">>])
  BY DEF Diff!Start, Diff!AskOpen, Diff!Ask, Diff!Send, Diff!Twin
<1>2. CASE timeouts # 0 BY <1>1, <1>2, DiffLate DEF Diff!InTime
<1>3. CASE timeouts = 0
  <2>1. Write!Quiet /\ next = 1 /\ reading = "sub0" BY <1>1, <1>3, DiffWay DEF Diff!InTime
  <2>2. DiffAsks(1) BY <1>1, <2>1 DEF DiffAsks
  <2>3. /\ Diff!OneUnderWay("open")' /\ replies' = <<>>
        /\ Head(requests').path = Diff!Path'
    BY <1>1, <2>1, <2>2, DiffAsksNext DEF Write!Quiet
  <2> QED BY <1>1, <1>3, <2>1, <2>3 DEF Diff!InTime, Diff!TwinlessIsShown, Diff!Has, Diff!Twin
<1> QED BY <1>2, <1>3 DEF Diff!InTime

LEMMA DiffAsked ==
  ASSUME requests = <<>>, NEW q, requests' = Append(requests, q), replies' = <<>>
  PROVE  Diff!OneUnderWay(q.cmd)'
<1>1. requests' = <<q>> /\ replies' = <<>> BY OneAdded
<1> QED BY <1>1, OneAdded, DiffWay DEF Write!OneAsked

\* The answer to the open has come, and the first block is asked for.
LEMMA DiffTimelyOpened == ASSUME Diff!InTime, Diff!FileOpened, Diff!Keep PROVE Diff!InTime'
<1>1. PICK r : /\ Diff!Receive("open", r) /\ r.err = 0 /\ pc = "open" /\ pc' = "read"
               /\ UNCHANGED <<files, timeouts, next, reading, sub0, same>>
               /\ requests' = Append(requests, [cmd |-> "read", fd |-> r.fd, off |-> 0])
  BY DEF Diff!FileOpened, Diff!Got, Diff!AskRead, Diff!Ask, Diff!Send, Diff!Keep
<1>2. CASE timeouts # 0 BY <1>1, <1>2, DiffLate DEF Diff!InTime
<1>3. CASE timeouts = 0
  <2>1. Write!OneUnderWay("open") BY <1>1, <1>3, DiffWay DEF Diff!InTime
  <2>2. requests = <<>> /\ replies # <<>> /\ r = Head(replies) /\ replies' = <<>>
    BY <1>1, <2>1, DiffWay, InTimeReceives
  <2>3. Diff!Has(Diff!Path) BY <1>1, <1>3, <2>2 DEF Diff!InTime
  <2>4. Diff!OneUnderWay("read")'
    <3> DEFINE q == [cmd |-> "read", fd |-> r.fd, off |-> 0]
    <3>1. q.cmd = "read" OBVIOUS
    <3>2. requests' = Append(requests, q) BY <1>1
    <3> HIDE DEF q
    <3> QED BY <2>2, <3>1, <3>2, DiffAsked
  <2>5. Diff!Has(Diff!Path)' BY <1>1, <2>3 DEF Diff!Has, Diff!Path
  <2> QED BY <1>1, <1>3, <2>4, <2>5 DEF Diff!InTime, Diff!TwinlessIsShown, Diff!Has, Diff!Twin
<1> QED BY <1>2, <1>3 DEF Diff!InTime

\* What read_file() returned is kept, or compared.
LEMMA DiffAfterRead ==
  ASSUME Diff!InTime, timeouts = 0, requests = <<>>, replies' = <<>>,
         UNCHANGED <<files, timeouts>>, NEW body, Diff!AfterRead(body),
         body # Diff!NoFile => Diff!Has(Diff!Path)
  PROVE  Diff!InTime'
<1>0. timeouts' = 0 /\ timeouts' \in Nat /\ \A n \in same : Diff!Has(Diff!Twin(n))
  BY DEF Diff!InTime, Diff!TwinlessIsShown
<1>1. CASE reading = "sub0"
  <2>1. /\ sub0' = body /\ reading' = "sub1" /\ pc' = "open" /\ UNCHANGED <<next, same>>
        /\ requests' = Append(requests, [cmd |-> "open", path |-> <<Found[next], "sub1">>])
    BY <1>1 DEF Diff!AfterRead, Diff!AskOpen, Diff!Ask, Diff!Send, Diff!Item
  <2>2. DiffAsks(next) BY <2>1 DEF DiffAsks
  <2>3. Diff!OneUnderWay("open")' /\ Head(requests').path = Diff!Path' BY <2>2, DiffAsksNext
  <2>4. body # Diff!NoFile => Diff!Has(Diff!Twin(Found[next])) BY <1>1 DEF Diff!Path, Diff!Twin
  <2> QED BY <1>0, <2>1, <2>3, <2>4 DEF Diff!InTime, Diff!TwinlessIsShown, Diff!Has, Diff!Twin, Diff!NoFile
<1>2. CASE reading = "sub1"
  <2>1. /\ reading' = "sub0" /\ sub0' = Diff!NoFile /\ next' = next + 1
        /\ \/ sub0 # Diff!NoFile /\ same' = same \union {Found[next]}
           \/ same' = same
        /\ \/ pc' = "open" /\ requests' = Append(requests, [cmd |-> "open", path |-> <<Found[next + 1], "sub0">>])
           \/ pc' = "end" /\ UNCHANGED requests
    BY <1>2 DEF Diff!AfterRead, Diff!AskOpen, Diff!Ask, Diff!Send, Diff!Twin, Diff!Compare
  <2>2. sub0 # Diff!NoFile => Diff!Has(Diff!Twin(Found[next])) BY <1>2 DEF Diff!InTime
  <2>3. \A n \in same' : Diff!Has(Diff!Twin(n)) BY <1>0, <2>1, <2>2
  <2>4. Diff!TwinlessIsShown' BY <2>3 DEF Diff!TwinlessIsShown, Diff!Has, Diff!Twin
  <2>5. CASE pc' = "open" /\ requests' = Append(requests, [cmd |-> "open", path |-> <<Found[next + 1], "sub0">>])
    <3>1. DiffAsks(next + 1) BY <2>1, <2>5 DEF DiffAsks
    <3>2. Diff!OneUnderWay("open")' /\ Head(requests').path = Diff!Path' BY <3>1, DiffAsksNext
    <3> QED BY <1>0, <2>1, <2>4, <2>5, <3>2 DEF Diff!InTime, Diff!NoFile
  <2>6. CASE pc' = "end" /\ UNCHANGED requests
    <3>1. Diff!Quiet' BY <2>6, DiffWay
    <3> QED BY <1>0, <2>1, <2>4, <2>6, <3>1 DEF Diff!InTime, Diff!NoFile
  <2> QED BY <2>1, <2>5, <2>6
<1> QED BY <1>1, <1>2 DEF Diff!InTime

LEMMA DiffTimelyNone == ASSUME Diff!InTime, Diff!NotOpened, Diff!AfterRead(Diff!NoFile) PROVE Diff!InTime'
<1>1. /\ pc = "open" /\ UNCHANGED files
      /\ \/ \E r : Diff!Receive("open", r) /\ UNCHANGED timeouts
         \/ Diff!NoAnswer
  BY DEF Diff!NotOpened, Diff!Got, Diff!NoneFor
<1>2. CASE Diff!NoAnswer BY <1>2, DiffMisses, DiffLate
<1>3. CASE \E r : Diff!Receive("open", r) /\ UNCHANGED timeouts
  <2>1. CASE timeouts # 0 BY <1>3, <2>1, DiffLate DEF Diff!InTime
  <2>2. CASE timeouts = 0
    <3>1. Write!OneUnderWay("open") BY <1>1, <2>2, DiffWay DEF Diff!InTime
    <3>2. requests = <<>> /\ replies' = <<>> BY <1>3, <3>1, DiffWay, InTimeReceives
    <3> QED BY <1>1, <1>3, <2>2, <3>2, DiffAfterRead
  <2> QED BY <2>1, <2>2
<1> QED BY <1>1, <1>2, <1>3

LEMMA DiffTimelyBlock == ASSUME Diff!InTime, Diff!BlockRead, Diff!Keep PROVE Diff!InTime'
<1>1. /\ pc = "read" /\ UNCHANGED <<files, next, reading, sub0, same>>
      /\ \/ \E r : Diff!Receive("read", r) /\ UNCHANGED timeouts
         \/ Diff!NoAnswer
      /\ \/ pc' = "close" /\ requests' = Append(requests, [cmd |-> "close", fd |-> fd])
         \/ pc' = "read" /\ requests' = Append(requests, [cmd |-> "read", fd |-> fd, off |-> off'])
  BY DEF Diff!BlockRead, Diff!Got, Diff!NoneFor, Diff!Keep, Diff!AskClose, Diff!AskRead, Diff!Ask, Diff!Send
<1>2. CASE Diff!NoAnswer BY <1>2, DiffMisses, DiffLate
<1>3. CASE \E r : Diff!Receive("read", r) /\ UNCHANGED timeouts
  <2>1. CASE timeouts # 0 BY <1>3, <2>1, DiffLate DEF Diff!InTime
  <2>2. CASE timeouts = 0
    <3>1. Write!OneUnderWay("read") /\ Diff!Has(Diff!Path) BY <1>1, <2>2, DiffWay DEF Diff!InTime
    <3>2. requests = <<>> /\ replies' = <<>> BY <1>3, <3>1, DiffWay, InTimeReceives
    <3>3. \/ pc' = "close" /\ Diff!OneUnderWay("close")'
          \/ pc' = "read" /\ Diff!OneUnderWay("read")'
      <4>1. CASE pc' = "close" /\ requests' = Append(requests, [cmd |-> "close", fd |-> fd])
        <5> DEFINE q == [cmd |-> "close", fd |-> fd]
        <5>1. q.cmd = "close" /\ requests' = Append(requests, q) BY <4>1
        <5> HIDE DEF q
        <5>2. Diff!OneUnderWay("close")' BY <3>2, <5>1, DiffAsked
        <5> QED BY <4>1, <5>2
      <4>2. CASE pc' = "read" /\ requests' = Append(requests, [cmd |-> "read", fd |-> fd, off |-> off'])
        <5> DEFINE q == [cmd |-> "read", fd |-> fd, off |-> off']
        <5>1. q.cmd = "read" /\ requests' = Append(requests, q) BY <4>2
        <5> HIDE DEF q
        <5>2. Diff!OneUnderWay("read")' BY <3>2, <5>1, DiffAsked
        <5> QED BY <4>2, <5>2
      <4> QED BY <1>1, <4>1, <4>2
    <3>4. Diff!Has(Diff!Path)' BY <1>1, <3>1 DEF Diff!Has, Diff!Path
    <3> QED BY <1>1, <1>3, <2>2, <3>3, <3>4 DEF Diff!InTime, Diff!TwinlessIsShown, Diff!Has, Diff!Twin
  <2> QED BY <2>1, <2>2
<1> QED BY <1>1, <1>2, <1>3

LEMMA DiffTimelyClosed == ASSUME Diff!InTime, Diff!FileClosed, Diff!AfterRead(buf) PROVE Diff!InTime'
<1>1. /\ pc = "close" /\ UNCHANGED files
      /\ \/ \E r : Diff!Receive("close", r) /\ UNCHANGED timeouts
         \/ Diff!NoAnswer
  BY DEF Diff!FileClosed, Diff!Got, Diff!NoneFor
<1>2. CASE Diff!NoAnswer BY <1>2, DiffMisses, DiffLate
<1>3. CASE \E r : Diff!Receive("close", r) /\ UNCHANGED timeouts
  <2>1. CASE timeouts # 0 BY <1>3, <2>1, DiffLate DEF Diff!InTime
  <2>2. CASE timeouts = 0
    <3>1. Write!OneUnderWay("close") /\ Diff!Has(Diff!Path) BY <1>1, <2>2, DiffWay DEF Diff!InTime
    <3>2. requests = <<>> /\ replies' = <<>> BY <1>3, <3>1, DiffWay, InTimeReceives
    <3> QED BY <1>1, <1>3, <2>2, <3>1, <3>2, DiffAfterRead
  <2> QED BY <2>1, <2>2
<1> QED BY <1>1, <1>2, <1>3

\* The modem executes the request under way: an open succeeds when the item is
\* there, and no request makes or removes an item.
LEMMA DiffTimelyModem == ASSUME Diff!InTime, Diff!ModemStep PROVE Diff!InTime'
<1> DEFINE q == Head(requests)
<1>1. /\ requests # <<>> /\ requests' = Tail(requests) /\ UNCHANGED <<timeouts, pc, next, reading, sub0, same>>
      /\ Diff!ModemFails(q) \/ Diff!ModemHasNone(q) \/ Diff!ModemOpens(q)
           \/ Diff!ModemReads(q) \/ Diff!ModemWrites(q) \/ Diff!ModemCloses(q)
  BY DEF Diff!ModemStep, Diff!Modem, Diff!Keep, Diff!readvars
<1>2. CASE timeouts # 0 BY <1>1, <1>2, DiffLate DEF Diff!InTime
<1>3. CASE timeouts = 0
  <2>1. pc \in {"open", "read", "close"} => Write!OneUnderWay(pc) BY <1>1, <1>3, DiffWay DEF Diff!InTime
  <2>2. pc \notin {"start", "end"} BY <1>1, <1>3 DEF Diff!InTime, Diff!Quiet
  <2> HIDE DEF q
  <2>3. PICK r : replies' = Append(replies, r) /\ r.cmd = q.cmd
                 /\ (q.cmd = "open" /\ r.err = 0 => q.path \in DOMAIN files)
    <3>1. CASE Diff!ModemFails(q)
      BY <3>1 DEF Diff!ModemFails, Diff!Answer
    <3>2. CASE Diff!ModemHasNone(q)
      BY <3>2 DEF Diff!ModemHasNone, Diff!Answer
    <3>3. CASE Diff!ModemOpens(q)
      BY <3>3 DEF Diff!ModemOpens, Diff!Answer
    <3>4. CASE Diff!ModemReads(q)
      <4>1. PICK f, n, b : replies' = Append(replies, [cmd |-> "read", fd |-> f, err |-> 0, n |-> n, body |-> b])
        BY <3>4 DEF Diff!ModemReads, Diff!Answer
      <4>2. q.cmd = "read" BY <3>4 DEF Diff!ModemReads
      <4> QED BY <4>1, <4>2
    <3>5. CASE Diff!ModemWrites(q)
      <4>1. PICK f, n : replies' = Append(replies, [cmd |-> "write", fd |-> f, err |-> 0, n |-> n, body |-> <<>>])
        BY <3>5 DEF Diff!ModemWrites, Diff!Answer
      <4>2. q.cmd = "write" BY <3>5 DEF Diff!ModemWrites
      <4> QED BY <4>1, <4>2
    <3>6. CASE Diff!ModemCloses(q)
      BY <3>6 DEF Diff!ModemCloses, Diff!Answer
    <3> QED BY <1>1, <3>1, <3>2, <3>3, <3>4, <3>5, <3>6 DEF q
  <2>4. DOMAIN files' = DOMAIN files
    BY <1>1 DEF q, Diff!ModemFails, Diff!ModemHasNone, Diff!ModemOpens, Diff!ModemReads, Diff!ModemWrites, Diff!ModemCloses
  <2>5. (Diff!Has(Diff!Path) => Diff!Has(Diff!Path)') /\ Diff!TwinlessIsShown' /\ Diff!Path' = Diff!Path
        /\ (Diff!Has(Diff!Twin(Found[next])) => Diff!Has(Diff!Twin(Found[next]))')
    BY <1>1, <1>3, <2>4 DEF Diff!Has, Diff!Path, Diff!InTime, Diff!TwinlessIsShown, Diff!Twin
  <2>6. CASE pc \in {"open", "read", "close"}
    <3>1. /\ Diff!OneUnderWay(pc)' /\ requests' = <<>> /\ replies' # <<>> /\ Head(replies') = r /\ q.cmd = pc
      <4>1. PICK c : c = pc OBVIOUS
      <4>2. Write!OneUnderWay(c) /\ q.cmd = c /\ r.cmd = c
        BY <1>1, <2>1, <2>3, <2>6, <4>1, InTimeAnswers DEF q
      <4>3. Write!OneUnderWay(c)' /\ requests' = <<>> /\ replies' # <<>> /\ Head(replies') = r
        BY <1>1, <2>3, <4>2, InTimeAnswers
      <4> QED BY <1>1, <4>1, <4>2, <4>3, DiffWay
    <3>2. pc = "open" /\ r.err = 0 => Diff!Has(Diff!Path)
      BY <1>1, <1>3, <2>3, <3>1 DEF q, Diff!InTime, Diff!Has
    <3> QED BY <1>1, <1>3, <2>5, <2>6, <3>1, <3>2 DEF Diff!InTime
  <2>7. CASE pc \notin {"open", "read", "close", "start", "end"}
    BY <1>1, <1>3, <2>5, <2>7 DEF Diff!InTime
  <2> QED BY <2>2, <2>6, <2>7
<1> QED BY <1>2, <1>3

LEMMA DiffTimely ==
  ASSUME Diff!InTime, [Diff!Next]_(Diff!vars) PROVE Diff!InTime'
<1>1. CASE Diff!Next
  <2>1. CASE Diff!TickEscapes BY <2>1, DiffMisses, DiffLate DEF Diff!TickEscapes
  <2> QED BY <1>1, <2>1, DiffTimelyFirst, DiffTimelyOpened, DiffTimelyNone, DiffTimelyBlock, DiffTimelyClosed,
             DiffTimelyModem DEF Diff!Next
<1>2. CASE UNCHANGED Diff!vars
  <2>1. /\ UNCHANGED <<requests, replies, files, timeouts, pc, next, reading, sub0, same>>
        /\ Diff!Path' = Diff!Path
    BY <1>2 DEF Diff!vars, Diff!chanvars, Diff!readvars, Diff!Path
  <2>2. /\ \A c : Diff!OneUnderWay(c)' <=> Diff!OneUnderWay(c)
        /\ Diff!Quiet' <=> Diff!Quiet /\ TRUE
        /\ \A p : Diff!Has(p)' <=> Diff!Has(p)
        /\ Diff!TwinlessIsShown' <=> Diff!TwinlessIsShown
    BY <2>1 DEF Diff!OneUnderWay, Diff!OneAsked, Diff!OneAnswered, Diff!One, Diff!Quiet, Diff!Has, Diff!TwinlessIsShown
  <2> QED BY <2>1, <2>2 DEF Diff!InTime, Diff!Twin
<1> QED BY <1>1, <1>2

-----------------------------------------------------------------------------
(* Walk!: diagwalk.py, with answers in time.                               *)

LEMMA WalkWay ==
  /\ \A c : Walk!OneUnderWay(c) <=> Write!OneUnderWay(c)
  /\ \A c : Walk!OneUnderWay(c)' <=> Write!OneUnderWay(c)'
  /\ \A c : Write!OneAsked(c)' => Write!OneUnderWay(c)'
  /\ Walk!Quiet <=> Write!Quiet
  /\ Walk!Quiet' <=> (requests' = <<>> /\ replies' = <<>>)
  /\ \A c, r : Walk!Receive(c, r) => Write!Receive(c, r)
  /\ \A s : Walk!Queue(s) <=> Client!Queue(s)
BY DEF Walk!OneUnderWay, Walk!OneAsked, Walk!OneAnswered, Walk!One, Walk!Quiet,
       Write!OneUnderWay, Write!OneAsked, Write!OneAnswered, Write!One, Write!Quiet,
       Walk!Receive, Write!Receive, Walk!Queue, Client!Queue

LEMMA WalkMisses ==
  ASSUME Walk!InTime, Walk!NoAnswer PROVE timeouts' \in Nat /\ timeouts' # 0
BY DEF Walk!InTime, Walk!NoAnswer

LEMMA WalkLate ==
  ASSUME timeouts' \in Nat, timeouts' # 0 PROVE Walk!InTime'
BY DEF Walk!InTime, Walk!NothingIsInvented

LEMMA WalkTimelyStart == ASSUME Walk!Init, ConstantsAssumption PROVE Walk!InTime
<1>1. /\ requests = <<>> /\ replies = <<>> /\ timeouts = 0 /\ pc = "visit" /\ open = <<>> /\ dirs = <<>>
      /\ out = <<>> /\ kids = <<>> /\ files = Content
      /\ todo = <<[path |-> <<>>, isdir |-> TRUE, size |-> 0]>>
  BY DEF Walk!Init, Walk!ChannelInit, Walk!Root
<1> DEFINE v == [path |-> <<>>, isdir |-> TRUE, size |-> 0]
<1>2. v.path = <<>> /\ v.isdir = TRUE OBVIOUS
<1>3. todo = <<v>> BY <1>1
<1> HIDE DEF v
<1>4. Walk!IsThere(v) BY <1>2 DEF Walk!IsThere, ConstantsAssumption
<1>5. Walk!Queue(<<>>) BY DEF Walk!Queue
<1>6. Walk!Queue(<<v>>) /\ DOMAIN <<v>> = {1} /\ <<v>>[1] = v BY DEF Walk!Queue
<1>8. \A i \in DOMAIN todo : todo[i] = v BY <1>3, <1>6
<1>9. kids = <<>> /\ DOMAIN kids = {} BY <1>1
<1>7. Walk!LeftIsThere BY <1>3, <1>4, <1>5, <1>6, <1>8, <1>9 DEF Walk!LeftIsThere
<1> QED BY <1>1, <1>5, <1>7 DEF Walk!InTime, Walk!Timely, Walk!Quiet, Walk!NothingIsInvented

LEMMA WalkAsked ==
  ASSUME requests = <<>>, NEW q, requests' = Append(requests, q), replies' = <<>>
  PROVE  Walk!OneUnderWay(q.cmd)' /\ requests' # <<>> /\ Head(requests') = q
<1>1. requests' = <<q>> /\ replies' = <<>> BY OneAdded
<1> QED BY <1>1, OneAdded, WalkWay DEF Write!OneAsked

\* The first of what is left is there.
LEMMA WalkHere ==
  ASSUME Walk!LeftIsThere, todo # <<>>
  PROVE  /\ Walk!IsThere(Head(todo)) /\ Head(todo).isdir \in BOOLEAN
         /\ Head(todo).isdir => Walk!Here \in DOMAIN Tree
         /\ ~Head(todo).isdir => Walk!Here \in DOMAIN Content
<1>1. Client!Queue(todo) BY WalkWay DEF Walk!LeftIsThere
<1>2. Head(todo) = todo[1] /\ 1 \in DOMAIN todo BY <1>1, QueueTail, QueueDomain
<1>3. Walk!IsThere(Head(todo)) BY <1>2 DEF Walk!LeftIsThere
<1> QED BY <1>3 DEF Walk!IsThere, Walk!Here

\* A line about a path that is there, with nothing or how its file begins.
IsRight(p, b) ==
  /\ Walk!Exists(p)
  /\ p \in DOMAIN Content =>
       b \in {Walk!NotRead, Walk!NoFile} \/ Walk!Under(b, Content[p])

LEMMA WalkLine ==
  ASSUME Client!Queue(out), Walk!NothingIsInvented, timeouts = 0, NEW p, NEW b, IsRight(p, b),
         out' = Append(out, [path |-> p, body |-> b])
  PROVE  Client!Queue(out') /\ Walk!NothingIsInvented'
<1> DEFINE e == [path |-> p, body |-> b]
<1>1. e.path = p /\ e.body = b OBVIOUS
<1>2. out' = Append(out, e) OBVIOUS
<1> HIDE DEF e
<1>3. /\ Client!Queue(out') /\ DOMAIN out' = 1 .. Len(out) + 1 /\ DOMAIN out = 1 .. Len(out) /\ Len(out) \in Nat
      /\ \A i \in 1 .. Len(out) : out'[i] = out[i]
      /\ out'[Len(out) + 1] = e
  BY <1>2, QueueAppend, QueueDomain
<1>4. \A i \in DOMAIN out : IsRight(out[i].path, out[i].body) BY DEF Walk!NothingIsInvented, IsRight
<1>5. \A i \in DOMAIN out' : i \in DOMAIN out \/ i = Len(out) + 1 BY <1>3
<1>6. \A i \in DOMAIN out' : IsRight(out'[i].path, out'[i].body) BY <1>1, <1>3, <1>4, <1>5
<1> QED BY <1>3, <1>6 DEF Walk!NothingIsInvented, IsRight, Walk!Exists, Walk!Under, Walk!NotRead, Walk!NoFile

\* What is left is there without its first, and with the kids before it.
LEMMA WalkLeft ==
  ASSUME Walk!LeftIsThere, todo # <<>>, kids' = kids,
         todo' = Tail(todo) \/ todo' = kids \o Tail(todo)
  PROVE  Walk!LeftIsThere'
<1> DEFINE t == Tail(todo)
<1>1. Client!Queue(todo) /\ Client!Queue(kids) BY WalkWay DEF Walk!LeftIsThere
<1>2. Client!Queue(t) /\ \A i \in DOMAIN t : Walk!IsThere(t[i])
  <2>1. Client!Queue(t) /\ \A i \in 1 .. Len(t) : i + 1 \in 1 .. Len(todo) /\ t[i] = todo[i + 1]
    BY <1>1, QueueTail
  <2>2. DOMAIN t = 1 .. Len(t) /\ DOMAIN todo = 1 .. Len(todo) BY <1>1, <2>1, QueueDomain
  <2> HIDE DEF t
  <2> QED BY <2>1, <2>2 DEF Walk!LeftIsThere
<1> HIDE DEF t
<1>3. Client!Queue(kids \o t) /\ \A i \in DOMAIN (kids \o t) : Walk!IsThere((kids \o t)[i])
  <2> DEFINE u == kids \o t
  <2>1. Client!Queue(u) /\ Len(u) = Len(kids) + Len(t)
        /\ \A i \in 1 .. Len(kids) + Len(t) : u[i] = IF i <= Len(kids) THEN kids[i] ELSE t[i - Len(kids)]
    BY <1>1, <1>2, QueueConcat
  <2> HIDE DEF u
  <2>2. /\ DOMAIN u = 1 .. Len(kids) + Len(t) /\ DOMAIN kids = 1 .. Len(kids) /\ DOMAIN t = 1 .. Len(t)
        /\ Len(kids) \in Nat /\ Len(t) \in Nat
    BY <1>1, <1>2, <2>1, QueueDomain
  <2>3. ASSUME NEW i \in DOMAIN u PROVE Walk!IsThere(u[i])
    <3>1. CASE i <= Len(kids)
      <4>1. i \in DOMAIN kids /\ u[i] = kids[i] BY <2>1, <2>2, <3>1
      <4> QED BY <4>1 DEF Walk!LeftIsThere
    <3>2. CASE ~(i <= Len(kids))
      <4>1. i - Len(kids) \in DOMAIN t /\ u[i] = t[i - Len(kids)] BY <2>1, <2>2, <3>2
      <4> QED BY <1>2, <4>1
    <3> QED BY <3>1, <3>2
  <2>4. Client!Queue(u) /\ \A i \in DOMAIN u : Walk!IsThere(u[i]) BY <2>1, <2>3
  <2> QED BY <2>4 DEF u
<1>4. Client!Queue(todo') /\ \A i \in DOMAIN todo' : Walk!IsThere(todo'[i])
  <2>1. CASE todo' = t BY <1>2, <2>1
  <2>2. CASE todo' = kids \o t BY <1>3, <2>2
  <2> QED BY <2>1, <2>2 DEF t
<1> QED BY <1>4, WalkWay DEF Walk!LeftIsThere, Walk!IsThere

\* A visit that ends: its line is written, and the next one is begun.
LEMMA WalkGoesOn ==
  ASSUME Walk!InTime, timeouts = 0, todo # <<>>, requests' = <<>>, replies' = <<>>,
         UNCHANGED <<files, open, dirs, kids, timeouts>>, pc' = "visit",
         NEW b, IsRight(Walk!Here, b), Walk!Line(b),
         todo' = Tail(todo) \/ todo' = kids \o Tail(todo)
  PROVE  Walk!InTime'
<1>1. Walk!Timely BY DEF Walk!InTime
<1>2. Walk!LeftIsThere' BY <1>1, WalkLeft DEF Walk!Timely
<1>3. Client!Queue(out) /\ Walk!NothingIsInvented BY <1>1, WalkWay DEF Walk!Timely, Walk!InTime
<1>4. out' = Append(out, [path |-> Walk!Here, body |-> b]) BY DEF Walk!Line, Walk!Here
<1>5. Client!Queue(out') /\ Walk!NothingIsInvented'
  <2>1. PICK p : p = Walk!Here OBVIOUS
  <2>2. IsRight(p, b) /\ out' = Append(out, [path |-> p, body |-> b]) BY <1>4, <2>1
  <2> QED BY <1>3, <2>2, WalkLine
<1>6. Walk!Quiet' BY WalkWay
<1>7. timeouts' \in Nat BY DEF Walk!InTime
<1>8. Walk!Queue(out)' /\ Walk!Queue(open)' /\ Walk!Queue(dirs)'
  BY <1>1, <1>5, WalkWay DEF Walk!Timely, Walk!Queue
<1> QED BY <1>1, <1>2, <1>5, <1>6, <1>7, <1>8 DEF Walk!InTime, Walk!Timely

\* A request about the same path: what is left stays, and nothing is written.
LEMMA WalkStays ==
  ASSUME Walk!InTime, timeouts = 0, UNCHANGED <<files, todo, kids, out, timeouts>>
  PROVE  /\ timeouts' = 0 /\ timeouts' \in Nat /\ Walk!Timely
         /\ Walk!NothingIsInvented' /\ Walk!LeftIsThere' /\ Walk!Here' = Walk!Here
         /\ Walk!Queue(out)' /\ (files = Content)'
BY DEF Walk!InTime, Walk!Timely, Walk!NothingIsInvented, Walk!LeftIsThere, Walk!Here, Walk!Queue,
       Walk!IsThere, Walk!Exists, Walk!Under, Walk!NotRead, Walk!NoFile

LEMMA WalkTimelyVisit == ASSUME Walk!InTime, Walk!Visit, ConstantsAssumption PROVE Walk!InTime'
<1>1. /\ pc = "visit" /\ UNCHANGED <<replies, files, open, timeouts, dirs, kids>>
      /\ \/ todo = <<>> /\ pc' = "end" /\ UNCHANGED <<requests, todo, out>>
         \/ /\ todo # <<>> /\ Head(todo).isdir /\ pc' = "opendir" /\ UNCHANGED <<todo, out>>
            /\ requests' = Append(requests, [cmd |-> "opendir", path |-> Walk!Here])
         \/ /\ todo # <<>> /\ ~Head(todo).isdir /\ pc' = "open" /\ UNCHANGED <<todo, out>>
            /\ requests' = Append(requests, [cmd |-> "open", path |-> Walk!Here])
         \/ /\ todo # <<>> /\ ~Head(todo).isdir /\ pc' = "visit" /\ UNCHANGED requests
            /\ todo' = Tail(todo) /\ Walk!Line(Walk!NotRead)
  BY DEF Walk!Visit, Walk!Ask, Walk!AskOpen, Walk!Send, Walk!Here
<1>2. CASE timeouts # 0 BY <1>1, <1>2, WalkLate DEF Walk!InTime
<1>3. CASE timeouts = 0
  <2>1. Walk!Timely /\ requests = <<>> /\ replies = <<>> BY <1>1, <1>3 DEF Walk!InTime, Walk!Timely, Walk!Quiet
  <2>2. CASE todo = <<>> /\ pc' = "end" /\ UNCHANGED <<requests, todo, out>>
    BY <1>1, <1>3, <2>1, <2>2, WalkStays, WalkWay DEF Walk!InTime, Walk!Timely
  <2>3. CASE /\ todo # <<>> /\ Head(todo).isdir /\ pc' = "opendir" /\ UNCHANGED <<todo, out>>
             /\ requests' = Append(requests, [cmd |-> "opendir", path |-> Walk!Here])
    <3>1. PICK p : p = Walk!Here OBVIOUS
    <3> DEFINE q == [cmd |-> "opendir", path |-> p]
    <3>2. q.cmd = "opendir" /\ q.path = p /\ requests' = Append(requests, q) BY <2>3, <3>1
    <3> HIDE DEF q
    <3>3. Walk!OneUnderWay("opendir")' /\ Head(requests') = q BY <1>1, <2>1, <3>2, WalkAsked
    <3>4. Walk!DirHere' BY <1>1, <1>3, <2>1, <2>3, <3>1, <3>2, <3>3, WalkStays DEF Walk!DirHere
    <3> QED BY <1>1, <1>3, <2>1, <2>3, <3>3, <3>4, WalkStays DEF Walk!InTime, Walk!Timely
  <2>4. CASE /\ todo # <<>> /\ ~Head(todo).isdir /\ pc' = "open" /\ UNCHANGED <<todo, out>>
             /\ requests' = Append(requests, [cmd |-> "open", path |-> Walk!Here])
    <3>1. PICK p : p = Walk!Here OBVIOUS
    <3> DEFINE q == [cmd |-> "open", path |-> p]
    <3>2. q.cmd = "open" /\ q.path = p /\ requests' = Append(requests, q) BY <2>4, <3>1
    <3> HIDE DEF q
    <3>3. Walk!OneUnderWay("open")' /\ Head(requests') = q BY <1>1, <2>1, <3>2, WalkAsked
    <3>4. Walk!OpenHere' BY <1>1, <1>3, <2>1, <2>4, <3>1, <3>2, <3>3, WalkStays DEF Walk!OpenHere
    <3> QED BY <1>1, <1>3, <2>1, <2>4, <3>3, <3>4, WalkStays DEF Walk!InTime, Walk!Timely
  <2>5. CASE /\ todo # <<>> /\ ~Head(todo).isdir /\ pc' = "visit" /\ UNCHANGED requests
             /\ todo' = Tail(todo) /\ Walk!Line(Walk!NotRead)
    <3>1. IsRight(Walk!Here, Walk!NotRead)
      BY <2>1, <2>5, WalkHere DEF IsRight, Walk!Exists, Walk!Timely
    <3> QED BY <1>1, <1>3, <2>1, <2>5, <3>1, WalkGoesOn
  <2> QED BY <1>1, <2>2, <2>3, <2>4, <2>5
<1> QED BY <1>2, <1>3 DEF Walk!InTime

\* The answer that is taken is to the request under way.
LEMMA WalkTakes ==
  ASSUME Walk!InTime, timeouts = 0, NEW c, pc = c, c \notin {"visit", "end"}, NEW d, NEW r, Walk!Receive(d, r)
  PROVE  /\ Walk!Timely /\ requests = <<>> /\ replies # <<>> /\ r = Head(replies) /\ replies' = <<>>
         /\ todo # <<>>
         /\ Head(todo).isdir => Walk!Here \in DOMAIN Tree
         /\ ~Head(todo).isdir => Walk!Here \in DOMAIN Content
<1>1. Walk!Timely /\ Walk!LeftIsThere /\ Write!OneUnderWay(c) /\ todo # <<>> BY WalkWay DEF Walk!InTime, Walk!Timely
<1>2. Write!Receive(d, r) BY WalkWay
<1> QED BY <1>1, <1>2, InTimeReceives, WalkHere

LEMMA WalkTimelyOpened == ASSUME Walk!InTime, Walk!FileOpened, UNCHANGED <<Walk!walkvars, dirs>> PROVE Walk!InTime'
<1>1. PICK r : /\ Walk!Receive("open", r) /\ r.err = 0 /\ pc = "open" /\ pc' = "read"
               /\ UNCHANGED <<files, open, dirs, timeouts, todo, kids, out>>
               /\ fd' = r.fd /\ off' = 0 /\ buf' = <<>>
               /\ requests' = Append(requests, [cmd |-> "read", fd |-> r.fd, off |-> 0])
  BY DEF Walk!FileOpened, Walk!Got, Walk!AskRead, Walk!Ask, Walk!Send, Walk!walkvars
<1>2. CASE timeouts # 0 BY <1>1, <1>2, WalkLate DEF Walk!InTime
<1>3. CASE timeouts = 0
  <2>1. /\ Walk!Timely /\ requests = <<>> /\ replies # <<>> /\ r = Head(replies) /\ replies' = <<>>
        /\ todo # <<>> /\ ~Head(todo).isdir
    BY <1>1, <1>3, WalkTakes DEF Walk!Timely
  <2>2. r.fd \in DOMAIN open /\ open[r.fd] = Walk!Here BY <1>1, <2>1 DEF Walk!Timely, Walk!OpenHere
  <2>3. Walk!OneUnderWay("read")' /\ Head(requests').fd = r.fd /\ Head(requests').off = 0
    <3> DEFINE q == [cmd |-> "read", fd |-> r.fd, off |-> 0]
    <3>1. q.cmd = "read" /\ q.fd = r.fd /\ q.off = 0 /\ requests' = Append(requests, q) BY <1>1
    <3> HIDE DEF q
    <3> QED BY <2>1, <3>1, WalkAsked
  <2>4. Walk!ReadHere' BY <1>1, <1>3, <2>1, <2>2, <2>3, WalkStays DEF Walk!ReadHere
  <2>5. Walk!BufIsBegin'
    <3>1. Walk!Queue(<<>>) /\ Len(<<>>) = 0 BY DEF Walk!Queue
    <3>2. Len(Content[Walk!Here]) \in Nat
      BY <1>1, <1>3, <2>1, WalkTakes, ConstantsAssumption DEF ConstantsAssumption, IsSequence
    <3> QED BY <1>1, <1>3, <3>1, <3>2, WalkStays DEF Walk!BufIsBegin
  <2> QED BY <1>1, <1>3, <2>1, <2>3, <2>4, <2>5, WalkStays DEF Walk!InTime, Walk!Timely, Walk!Queue
<1> QED BY <1>2, <1>3 DEF Walk!InTime

LEMMA WalkTimelyNone ==
  ASSUME Walk!InTime, Walk!NotOpened, Walk!AfterRead(Walk!NoFile), UNCHANGED dirs PROVE Walk!InTime'
<1>1. /\ pc = "open" /\ pc' = "visit" /\ UNCHANGED <<requests, files, open, kids, dirs>>
      /\ todo' = Tail(todo) /\ Walk!Line(Walk!NoFile)
      /\ \/ \E r : Walk!Receive("open", r) /\ UNCHANGED timeouts
         \/ Walk!NoAnswer
  BY DEF Walk!NotOpened, Walk!Got, Walk!NoneFor, Walk!AfterRead, Walk!Listed
<1>2. CASE Walk!NoAnswer BY <1>2, WalkMisses, WalkLate
<1>3. CASE \E r : Walk!Receive("open", r) /\ UNCHANGED timeouts
  <2>1. CASE timeouts # 0 BY <1>3, <2>1, WalkLate DEF Walk!InTime
  <2>2. CASE timeouts = 0
    <3>1. /\ Walk!Timely /\ requests = <<>> /\ replies' = <<>> /\ todo # <<>>
          /\ ~Head(todo).isdir => Walk!Here \in DOMAIN Content
      BY <1>1, <1>3, <2>2, WalkTakes
    <3>2. IsRight(Walk!Here, Walk!NoFile) BY <1>1, <3>1 DEF Walk!Timely, IsRight, Walk!Exists
    <3> QED BY <1>1, <1>3, <2>2, <3>1, <3>2, WalkGoesOn
  <2> QED BY <2>1, <2>2
<1> QED BY <1>1, <1>2, <1>3

\* A block is added, and what is read is still how the file begins.
LEMMA WalkTimelyBlock ==
  ASSUME Walk!InTime, Walk!BlockRead, UNCHANGED <<Walk!walkvars, dirs>>, ConstantsAssumption PROVE Walk!InTime'
<1>1. /\ pc = "read" /\ UNCHANGED <<files, open, dirs, todo, kids, out, fd>>
      /\ \/ \E r : /\ Walk!Receive("read", r) /\ UNCHANGED timeouts
                   /\ buf' = buf \o r.body /\ off' = off + r.n
         \/ Walk!NoAnswer
      /\ \/ pc' = "close" /\ requests' = Append(requests, [cmd |-> "close", fd |-> fd])
         \/ pc' = "read" /\ requests' = Append(requests, [cmd |-> "read", fd |-> fd, off |-> off'])
  BY DEF Walk!BlockRead, Walk!Got, Walk!NoneFor, Walk!walkvars, Walk!AskClose, Walk!AskRead, Walk!Ask, Walk!Send
<1>2. CASE Walk!NoAnswer BY <1>2, WalkMisses, WalkLate
<1>3. CASE \E r : /\ Walk!Receive("read", r) /\ UNCHANGED timeouts
                  /\ buf' = buf \o r.body /\ off' = off + r.n
  <2>1. CASE timeouts # 0 BY <1>3, <2>1, WalkLate DEF Walk!InTime
  <2>2. CASE timeouts = 0
    <3>1. PICK r : /\ Walk!Receive("read", r) /\ UNCHANGED timeouts
                   /\ buf' = buf \o r.body /\ off' = off + r.n
      BY <1>3
    <3>2. /\ Walk!Timely /\ requests = <<>> /\ replies # <<>> /\ r = Head(replies) /\ replies' = <<>>
          /\ todo # <<>> /\ ~Head(todo).isdir /\ Walk!Here \in DOMAIN Content
      BY <1>1, <2>2, <3>1, WalkTakes DEF Walk!Timely
    <3>3. /\ Client!Queue(r.body) /\ r.n = Len(r.body) /\ off + r.n <= Len(Content[Walk!Here])
          /\ \A u \in 1 .. r.n : r.body[u] = Content[Walk!Here][off + u]
          /\ fd \in DOMAIN open /\ open[fd] = Walk!Here
      BY <1>1, <3>2, WalkWay DEF Walk!Timely, Walk!ReadHere
    <3>4. /\ Client!Queue(buf) /\ off = Len(buf) /\ off <= Len(Content[Walk!Here])
          /\ \A u \in 1 .. off : buf[u] = Content[Walk!Here][u]
      BY <1>1, <3>2, WalkWay DEF Walk!Timely, Walk!BufIsBegin
    <3>5. Walk!BufIsBegin'
      <4>1. /\ Client!Queue(buf') /\ Len(buf') = Len(buf) + Len(r.body)
            /\ \A i \in 1 .. Len(buf) + Len(r.body) :
                 buf'[i] = IF i <= Len(buf) THEN buf[i] ELSE r.body[i - Len(buf)]
        BY <3>1, <3>3, <3>4, QueueConcat
      <4>2. off \in Nat /\ r.n \in Nat BY <3>3, <3>4, QueueDomain
      <4>3. off' = Len(buf') /\ off' <= Len(Content[Walk!Here]) BY <3>1, <3>3, <3>4, <4>1
      <4>4. ASSUME NEW i \in 1 .. off' PROVE buf'[i] = Content[Walk!Here][i]
        <5>1. i \in 1 .. off + r.n /\ i \in Nat /\ off = Len(buf) /\ r.n = Len(r.body) BY <3>1, <3>3, <3>4, <4>2
        <5>2. CASE i <= off
          <6>1. i \in 1 .. off /\ buf'[i] = buf[i] BY <4>1, <4>2, <5>1, <5>2
          <6> QED BY <3>4, <6>1
        <5>3. CASE ~(i <= off)
          <6>1. i - off \in 1 .. r.n /\ buf'[i] = r.body[i - off] /\ off + (i - off) = i BY <4>1, <4>2, <5>1, <5>3
          <6>2. r.body[i - off] = Content[Walk!Here][off + (i - off)] BY <3>3, <6>1
          <6> QED BY <6>1, <6>2
        <5> QED BY <5>2, <5>3
      <4>5. Walk!Here' = Walk!Here BY <1>1 DEF Walk!Here
      <4> QED BY <4>1, <4>3, <4>4, <4>5, WalkWay DEF Walk!BufIsBegin, Walk!Queue, Client!Queue
    <3>6. CASE pc' = "close" /\ requests' = Append(requests, [cmd |-> "close", fd |-> fd])
      <4> DEFINE q == [cmd |-> "close", fd |-> fd]
      <4>1. q.cmd = "close" /\ requests' = Append(requests, q) BY <3>6
      <4> HIDE DEF q
      <4>2. Walk!OneUnderWay("close")' BY <3>2, <4>1, WalkAsked
      <4> QED BY <1>1, <2>2, <3>1, <3>2, <3>5, <3>6, <4>2, WalkStays DEF Walk!InTime, Walk!Timely, Walk!Queue
    <3>7. CASE pc' = "read" /\ requests' = Append(requests, [cmd |-> "read", fd |-> fd, off |-> off'])
      <4> DEFINE q == [cmd |-> "read", fd |-> fd, off |-> off']
      <4>1. q.cmd = "read" /\ q.fd = fd /\ q.off = off' /\ requests' = Append(requests, q) BY <3>7
      <4> HIDE DEF q
      <4>2. Walk!OneUnderWay("read")' /\ Head(requests').fd = fd /\ Head(requests').off = off'
        BY <3>2, <4>1, WalkAsked
      <4>3. Walk!ReadHere' BY <1>1, <3>2, <3>3, <4>2 DEF Walk!ReadHere, Walk!Here
      <4> QED BY <1>1, <2>2, <3>1, <3>2, <3>5, <3>7, <4>2, <4>3, WalkStays DEF Walk!InTime, Walk!Timely, Walk!Queue
    <3> QED BY <1>1, <3>6, <3>7
  <2> QED BY <2>1, <2>2
<1> QED BY <1>1, <1>2, <1>3

LEMMA WalkTimelyClosed ==
  ASSUME Walk!InTime, Walk!FileClosed, Walk!AfterRead(buf), UNCHANGED dirs, ConstantsAssumption PROVE Walk!InTime'
<1>1. /\ pc = "close" /\ pc' = "visit" /\ UNCHANGED <<requests, files, open, kids, dirs>>
      /\ todo' = Tail(todo) /\ Walk!Line(buf)
      /\ \/ \E r : Walk!Receive("close", r) /\ UNCHANGED timeouts
         \/ Walk!NoAnswer
  BY DEF Walk!FileClosed, Walk!Got, Walk!NoneFor, Walk!AfterRead, Walk!Listed
<1>2. CASE Walk!NoAnswer BY <1>2, WalkMisses, WalkLate
<1>3. CASE \E r : Walk!Receive("close", r) /\ UNCHANGED timeouts
  <2>1. CASE timeouts # 0 BY <1>3, <2>1, WalkLate DEF Walk!InTime
  <2>2. CASE timeouts = 0
    <3>1. /\ Walk!Timely /\ requests = <<>> /\ replies' = <<>> /\ todo # <<>>
          /\ ~Head(todo).isdir => Walk!Here \in DOMAIN Content
      BY <1>1, <1>3, <2>2, WalkTakes
    <3>2. Walk!Here \in DOMAIN Content BY <1>1, <3>1 DEF Walk!Timely
    <3>3. Walk!Under(buf, Content[Walk!Here])
      <4>1. /\ Client!Queue(buf) /\ off = Len(buf) /\ off <= Len(Content[Walk!Here])
            /\ \A u \in 1 .. off : buf[u] = Content[Walk!Here][u]
        BY <1>1, <3>1, WalkWay DEF Walk!Timely, Walk!BufIsBegin
      <4>2. PICK file : file = Content[Walk!Here] OBVIOUS
      <4>3. Client!Queue(file) BY <3>2, <4>2, ConstantsAssumption DEF ConstantsAssumption, IsSequence, Client!Queue
      <4>4. Len(buf) \in 0 .. Len(file) BY <4>1, <4>2, <4>3, QueueDomain
      <4>5. SubSeq(file, 1, Len(buf)) = [i \in 1 .. Len(buf) |-> file[i]] BY <4>3, <4>4, QueueBegin
      <4>6. \A i \in 1 .. Len(buf) : buf[i] = file[i] BY <4>1, <4>2
      <4>7. buf = [i \in 1 .. Len(buf) |-> file[i]] BY <4>1, <4>6 DEF Client!Queue
      <4> QED BY <4>1, <4>2, <4>5, <4>7 DEF Walk!Under
    <3>4. IsRight(Walk!Here, buf) BY <3>2, <3>3 DEF IsRight, Walk!Exists
    <3> QED BY <1>1, <1>3, <2>2, <3>1, <3>4, WalkGoesOn
  <2> QED BY <2>1, <2>2
<1> QED BY <1>1, <1>2, <1>3

\* A directory has no line that shows a file.
LEMMA DirIsRight ==
  ASSUME NEW p \in DOMAIN Tree, NEW b, ConstantsAssumption PROVE IsRight(p, b)
BY DEF IsRight, Walk!Exists, ConstantsAssumption

LEMMA WalkTimelyDirOpened ==
  ASSUME Walk!InTime, Walk!DirOpened, UNCHANGED dirs, ConstantsAssumption PROVE Walk!InTime'
<1>1. /\ pc = "opendir" /\ UNCHANGED <<files, open, dirs>>
      /\ \/ \E r : /\ Walk!Receive("opendir", r) /\ UNCHANGED timeouts
                   /\ \/ Walk!Listed(Walk!Unreadable) /\ UNCHANGED kids
                      \/ /\ r.err = 0 /\ pc' = "readdir" /\ UNCHANGED <<todo, out>>
                         /\ dirp' = r.dirp /\ seq' = 1 /\ kids' = <<>>
                         /\ requests' = Append(requests, [cmd |-> "readdir", dirp |-> r.dirp, seq |-> 1])
         \/ Walk!NoAnswer
  BY DEF Walk!DirOpened, Walk!Got, Walk!NoneFor, Walk!AskEntry, Walk!Ask, Walk!Send
<1>2. CASE Walk!NoAnswer BY <1>2, WalkMisses, WalkLate
<1>3. CASE ~Walk!NoAnswer
  <2>1. PICK r : /\ Walk!Receive("opendir", r) /\ UNCHANGED timeouts
                 /\ \/ Walk!Listed(Walk!Unreadable) /\ UNCHANGED kids
                    \/ /\ r.err = 0 /\ pc' = "readdir" /\ UNCHANGED <<todo, out>>
                       /\ dirp' = r.dirp /\ seq' = 1 /\ kids' = <<>>
                       /\ requests' = Append(requests, [cmd |-> "readdir", dirp |-> r.dirp, seq |-> 1])
    BY <1>1, <1>3
  <2>2. CASE timeouts # 0 BY <2>1, <2>2, WalkLate DEF Walk!InTime
  <2>3. CASE timeouts = 0
    <3>1. /\ Walk!Timely /\ requests = <<>> /\ replies # <<>> /\ r = Head(replies) /\ replies' = <<>>
          /\ todo # <<>>
          /\ Head(todo).isdir => Walk!Here \in DOMAIN Tree
      BY <1>1, <2>1, <2>3, WalkTakes
    <3>2. Head(todo).isdir /\ Walk!Here \in DOMAIN Tree /\ Walk!DirHere BY <1>1, <3>1 DEF Walk!Timely
    <3>3. CASE Walk!Listed(Walk!Unreadable) /\ UNCHANGED kids
      <4>1. Walk!Line(Walk!Unreadable) /\ todo' = Tail(todo) /\ pc' = "visit" /\ UNCHANGED requests
        BY <3>3 DEF Walk!Listed
      <4>2. IsRight(Walk!Here, Walk!Unreadable) BY <3>2, DirIsRight
      <4>3. requests' = <<>> /\ replies' = <<>> /\ todo # <<>> BY <3>1, <4>1
      <4>4. UNCHANGED <<files, open, dirs, kids, timeouts>> BY <1>1, <2>1, <3>3
      <4> QED BY <2>3, <4>1, <4>2, <4>3, <4>4, WalkGoesOn
    <3>4. CASE /\ r.err = 0 /\ pc' = "readdir" /\ UNCHANGED <<todo, out>>
               /\ dirp' = r.dirp /\ seq' = 1 /\ kids' = <<>>
               /\ requests' = Append(requests, [cmd |-> "readdir", dirp |-> r.dirp, seq |-> 1])
      <4>1. r.dirp \in DOMAIN dirs /\ dirs[r.dirp] = Walk!Here BY <3>1, <3>2, <3>4 DEF Walk!DirHere
      <4> DEFINE q == [cmd |-> "readdir", dirp |-> r.dirp, seq |-> 1]
      <4>2. q.cmd = "readdir" /\ q.dirp = r.dirp /\ q.seq = 1 /\ requests' = Append(requests, q) BY <3>4
      <4> HIDE DEF q
      <4>3. Walk!OneUnderWay("readdir")' /\ Head(requests').dirp = r.dirp /\ Head(requests').seq = 1
        BY <3>1, <4>2, WalkAsked
      <4>4. Walk!EntryHere' BY <1>1, <3>1, <3>4, <4>1, <4>3 DEF Walk!EntryHere, Walk!Here
      <4>5. Walk!LeftIsThere'
        <5>1. Walk!Queue(<<>>) /\ DOMAIN <<>> = {} BY DEF Walk!Queue
        <5>2. Walk!Queue(kids)' BY <3>4, <5>1 DEF Walk!Queue
        <5> QED BY <3>1, <3>4, <5>1, <5>2 DEF Walk!Timely, Walk!LeftIsThere, Walk!IsThere, Walk!Queue
      <4>6. Walk!NothingIsInvented'
        BY <2>1, <3>4 DEF Walk!InTime, Walk!NothingIsInvented, Walk!Exists, Walk!Under, Walk!NotRead, Walk!NoFile
      <4> QED BY <1>1, <2>1, <2>3, <3>1, <3>2, <3>4, <4>3, <4>4, <4>5, <4>6
              DEF Walk!InTime, Walk!Timely, Walk!Queue
    <3> QED BY <2>1, <3>3, <3>4
  <2> QED BY <2>2, <2>3 DEF Walk!InTime
<1> QED BY <1>2, <1>3

\* A kid is in its directory; the end of the listing and a refusal close it.
LEMMA WalkTimelyEntry ==
  ASSUME Walk!InTime, Walk!Entry, UNCHANGED dirs, ConstantsAssumption PROVE Walk!InTime'
<1> DEFINE kid(r) == [path |-> Append(Walk!Here, r.name), isdir |-> r.isdir, size |-> r.size]
           Adds(r) == /\ r.err = 0 /\ r.name # "" /\ pc' = "readdir"
                      /\ kids' = Append(kids, kid(r)) /\ seq' = seq + 1
                      /\ requests' = Append(requests, [cmd |-> "readdir", dirp |-> dirp, seq |-> seq + 1])
           Closes == /\ pc' = "closedir" /\ UNCHANGED kids
                     /\ requests' = Append(requests, [cmd |-> "closedir", dirp |-> dirp])
<1>1. /\ pc = "readdir" /\ UNCHANGED <<files, open, dirs, todo, out, dirp>>
      /\ \/ \E r : Walk!Receive("readdir", r) /\ UNCHANGED timeouts /\ (Closes \/ Adds(r))
         \/ Walk!NoAnswer
  BY DEF Walk!Entry, Walk!Got, Walk!NoneFor, Walk!AskEntry, Walk!CloseDir, Walk!Ask, Walk!Send, Walk!Here
<1>2. CASE Walk!NoAnswer BY <1>2, WalkMisses, WalkLate
<1>3. CASE ~Walk!NoAnswer
  <2>1. PICK r : Walk!Receive("readdir", r) /\ UNCHANGED timeouts /\ (Closes \/ Adds(r)) BY <1>1, <1>3
  <2>2. CASE timeouts # 0 BY <2>1, <2>2, WalkLate DEF Walk!InTime
  <2>3. CASE timeouts = 0
    <3>1. /\ Walk!Timely /\ requests = <<>> /\ replies # <<>> /\ r = Head(replies) /\ replies' = <<>>
          /\ todo # <<>>
      <4> HIDE DEF Adds, Closes
      <4>1. Walk!Receive("readdir", r) BY <2>1
      <4>2. pc = "readdir" BY <1>1
      <4> QED BY <2>3, <4>1, <4>2, WalkTakes
    <3>2. Head(todo).isdir /\ Walk!EntryHere BY <1>1, <3>1 DEF Walk!Timely
    <3>0. Walk!NothingIsInvented'
      BY <1>1, <2>1 DEF Walk!InTime, Walk!NothingIsInvented, Walk!Exists, Walk!Under, Walk!NotRead, Walk!NoFile
    <3>3. CASE Closes
      <4> DEFINE q == [cmd |-> "closedir", dirp |-> dirp]
      <4>1. q.cmd = "closedir" /\ requests' = Append(requests, q) BY <3>3
      <4> HIDE DEF q
      <4>2. Walk!OneUnderWay("closedir")' BY <3>1, <4>1, WalkAsked
      <4> QED BY <1>1, <2>1, <2>3, <3>1, <3>2, <3>3, <4>2, WalkStays DEF Walk!InTime, Walk!Timely, Walk!Queue
    <3>4. CASE Adds(r)
      <4> DEFINE q == [cmd |-> "readdir", dirp |-> dirp, seq |-> seq + 1]
                 v == kid(r)
      <4>1. q.cmd = "readdir" /\ q.dirp = dirp /\ q.seq = seq + 1 /\ requests' = Append(requests, q) BY <3>4
      <4>2. v.path = Append(Walk!Here, r.name) /\ v.isdir = r.isdir /\ kids' = Append(kids, v) BY <3>4
      <4>3. Walk!IsThere(v) BY <3>1, <3>2, <3>4, <4>2 DEF Walk!EntryHere, Walk!IsThere
      <4> HIDE DEF q, v
      <4>4. Walk!OneUnderWay("readdir")' /\ Head(requests').dirp = dirp /\ Head(requests').seq = seq + 1
        BY <3>1, <4>1, WalkAsked
      <4>5. Walk!EntryHere'
        <5>1. seq' = seq + 1 /\ seq \in Nat \ {0} /\ dirp \in DOMAIN dirs /\ dirs[dirp] = Walk!Here
          BY <3>2, <3>4 DEF Walk!EntryHere
        <5>2. seq' \in Nat \ {0} BY <5>1
        <5>3. dirp' = dirp /\ dirs' = dirs /\ Walk!Here' = Walk!Here /\ replies' = <<>> BY <1>1, <3>1 DEF Walk!Here
        <5> QED BY <4>4, <5>1, <5>2, <5>3 DEF Walk!EntryHere
      <4>6. Walk!LeftIsThere'
        <5>1. Client!Queue(kids) BY <3>1, WalkWay DEF Walk!Timely, Walk!LeftIsThere
        <5>2. /\ Client!Queue(kids') /\ DOMAIN kids' = 1 .. Len(kids) + 1 /\ DOMAIN kids = 1 .. Len(kids)
              /\ \A i \in 1 .. Len(kids) : kids'[i] = kids[i]
              /\ kids'[Len(kids) + 1] = v /\ Len(kids) \in Nat
          BY <4>2, <5>1, QueueAppend, QueueDomain
        <5>3. \A i \in DOMAIN kids' : i \in DOMAIN kids \/ i = Len(kids) + 1 BY <5>2
        <5>4. \A i \in DOMAIN kids' : Walk!IsThere(kids'[i])
          BY <3>1, <4>3, <5>2, <5>3 DEF Walk!Timely, Walk!LeftIsThere
        <5>5. Walk!Queue(kids)' BY <5>2, WalkWay DEF Walk!Queue, Client!Queue
        <5> QED BY <1>1, <3>1, <5>4, <5>5 DEF Walk!Timely, Walk!LeftIsThere, Walk!IsThere, Walk!Queue
      <4> HIDE DEF kid
      <4> QED BY <1>1, <2>1, <2>3, <3>0, <3>1, <3>2, <3>4, <4>4, <4>5, <4>6
              DEF Walk!InTime, Walk!Timely, Walk!Queue
    <3> QED BY <2>1, <3>3, <3>4
  <2> QED BY <2>2, <2>3 DEF Walk!InTime
<1> QED BY <1>2, <1>3

LEMMA WalkTimelyDirClosed ==
  ASSUME Walk!InTime, Walk!DirClosed, UNCHANGED dirs, ConstantsAssumption PROVE Walk!InTime'
<1>1. PICK b : b = <<"dir">> OBVIOUS
<1>2. /\ pc = "closedir" /\ pc' = "visit" /\ UNCHANGED <<requests, files, open, kids, dirs>>
      /\ todo' = kids \o Tail(todo) /\ Walk!Line(b)
      /\ \/ \E r : Walk!Receive("closedir", r) /\ UNCHANGED timeouts
         \/ Walk!NoAnswer
  BY <1>1 DEF Walk!DirClosed, Walk!Got, Walk!NoneFor
<1>3. CASE Walk!NoAnswer BY <1>3, WalkMisses, WalkLate
<1>4. CASE \E r : Walk!Receive("closedir", r) /\ UNCHANGED timeouts
  <2>1. CASE timeouts # 0 BY <1>4, <2>1, WalkLate DEF Walk!InTime
  <2>2. CASE timeouts = 0
    <3>1. /\ Walk!Timely /\ requests = <<>> /\ replies' = <<>> /\ todo # <<>>
          /\ Head(todo).isdir => Walk!Here \in DOMAIN Tree
      BY <1>2, <1>4, <2>2, WalkTakes
    <3>2. IsRight(Walk!Here, b) BY <1>2, <3>1, DirIsRight DEF Walk!Timely
    <3>3. requests' = <<>> /\ UNCHANGED <<files, open, dirs, kids, timeouts>> BY <1>2, <1>4, <3>1
    <3> QED BY <1>2, <2>2, <3>1, <3>2, <3>3, WalkGoesOn
  <2> QED BY <2>1, <2>2
<1> QED BY <1>2, <1>3, <1>4

LEMMA QueueExcept ==
  ASSUME NEW s, Client!Queue(s), NEW i, NEW e
  PROVE  Client!Queue([s EXCEPT ![i] = e]) /\ DOMAIN [s EXCEPT ![i] = e] = DOMAIN s
<1> DEFINE u == [s EXCEPT ![i] = e]
<1>1. DOMAIN s = 1 .. Len(s) /\ Len(s) \in Nat BY QueueDomain
<1>2. u = [j \in 1 .. Len(s) |-> u[j]] BY <1>1
<1>3. Len(u) = Len(s) BY <1>1, <1>2
<1> QED BY <1>1, <1>2, <1>3 DEF Client!Queue

\* What the modem does with each command.
WalkUntouched == UNCHANGED <<timeouts, pc, buf, off, fd, todo, kids, seq, dirp, out>>

LEMMA WalkModemDoes ==
  ASSUME Walk!ModemStep, NEW q, q = Head(requests)
  PROVE  /\ requests # <<>> /\ requests' = Tail(requests) /\ WalkUntouched
         /\ q.cmd = "open" =>
              (Walk!ModemFails(q) \/ Walk!ModemHasNone(q) \/ Walk!ModemOpens(q)) /\ UNCHANGED dirs
         /\ q.cmd = "read" => (Walk!ModemFails(q) \/ Walk!ModemReads(q)) /\ UNCHANGED dirs
         /\ q.cmd = "close" => Walk!ModemCloses(q) /\ UNCHANGED dirs
         /\ q.cmd = "opendir" =>
              \/ Walk!ModemFails(q) /\ UNCHANGED dirs
              \/ Walk!ModemOpensDir(q) /\ UNCHANGED <<files, open>>
         /\ q.cmd = "readdir" =>
              \/ Walk!ModemFails(q) /\ UNCHANGED dirs
              \/ Walk!ModemReadsDir(q) /\ UNCHANGED <<files, open>>
         /\ q.cmd = "closedir" =>
              \/ Walk!ModemFails(q) /\ UNCHANGED dirs
              \/ Walk!ModemClosesDir(q) /\ UNCHANGED <<files, open>>
<1>1. requests # <<>> /\ requests' = Tail(requests) /\ WalkUntouched
  BY DEF Walk!ModemStep, Walk!Modem, Walk!ModemDir, Walk!readvars, Walk!walkvars, WalkUntouched
<1>2. CASE Walk!Modem /\ UNCHANGED dirs
  BY <1>1, <1>2 DEF Walk!Modem, Walk!ModemFails, Walk!ModemHasNone, Walk!ModemOpens,
     Walk!ModemReads, Walk!ModemWrites, Walk!ModemCloses
<1>3. CASE Walk!ModemDir
  BY <1>1, <1>3 DEF Walk!ModemDir, Walk!ModemOpensDir, Walk!ModemReadsDir, Walk!ModemClosesDir
<1> QED BY <1>2, <1>3 DEF Walk!ModemStep

\* The answer to the request under way, whatever it says.
LEMMA WalkAnswered ==
  ASSUME Walk!InTime, timeouts = 0, Walk!ModemStep, NEW c, pc = c, c \notin {"visit", "end"}
  PROVE  /\ Walk!Timely /\ Head(requests).cmd = c /\ replies = <<>> /\ requests # <<>> /\ requests' = <<>>
         /\ \A r : replies' = Append(replies, r) /\ r.cmd = c =>
              Walk!OneUnderWay(c)' /\ replies' # <<>> /\ Head(replies') = r
<1>1. Walk!Timely /\ Write!OneUnderWay(c) BY WalkWay DEF Walk!InTime, Walk!Timely
<1>2. requests # <<>> /\ requests' = Tail(requests) BY WalkModemDoes
<1>3. Head(requests).cmd = c /\ replies = <<>> /\ requests' = <<>>
  BY <1>1, <1>2, OneTaken DEF Write!OneUnderWay, Write!OneAsked, Write!OneAnswered
<1>4. ASSUME NEW r, replies' = Append(replies, r), r.cmd = c
      PROVE  Walk!OneUnderWay(c)' /\ replies' # <<>> /\ Head(replies') = r
  BY <1>1, <1>2, <1>4, InTimeAnswers, WalkWay
<1> QED BY <1>1, <1>2, <1>3, <1>4

\* What stays when the modem has done what it was asked.
LEMMA WalkModemStays ==
  ASSUME Walk!InTime, timeouts = 0, Walk!Timely, WalkUntouched, files' = files, Walk!Queue(open'), Walk!Queue(dirs'),
         requests' = <<>>, NEW c, pc = c, c \notin {"visit", "end"}, Walk!OneUnderWay(c)',
         c = "open" => Walk!OpenHere', c = "read" => Walk!ReadHere',
         c = "opendir" => Walk!DirHere', c = "readdir" => Walk!EntryHere'
  PROVE  Walk!InTime'
<1>1. /\ timeouts' = 0 /\ timeouts' \in Nat /\ Walk!NothingIsInvented' /\ Walk!LeftIsThere' /\ Walk!Here' = Walk!Here
      /\ Walk!Queue(out)' /\ (files = Content)'
  BY WalkStays DEF WalkUntouched
<1>2. pc' = pc /\ todo' = todo /\ buf' = buf /\ off' = off BY DEF WalkUntouched
<1>3. Walk!BufIsBegin => Walk!BufIsBegin' BY <1>1, <1>2 DEF Walk!BufIsBegin, Walk!Queue
<1>4. Walk!Queue(open)' /\ Walk!Queue(dirs)' BY DEF Walk!Queue
<1> QED BY <1>1, <1>2, <1>3, <1>4 DEF Walk!InTime, Walk!Timely

LEMMA WalkModemFails ==
  ASSUME Walk!InTime, timeouts = 0, Walk!ModemStep, NEW c, pc = c, c \notin {"visit", "end"},
         Walk!ModemFails(Head(requests)), UNCHANGED dirs
  PROVE  Walk!InTime'
<1>1. /\ Walk!Timely /\ Head(requests).cmd = c /\ replies = <<>> /\ requests' = <<>>
      /\ \A r : replies' = Append(replies, r) /\ r.cmd = c =>
              Walk!OneUnderWay(c)' /\ replies' # <<>> /\ Head(replies') = r
  BY WalkAnswered
<1> DEFINE r == [cmd |-> c, fd |-> 0, err |-> 1, n |-> 0, body |-> <<>>]
<1>2. r.cmd = c /\ r.err = 1 /\ r.n = 0 /\ r.body = <<>> OBVIOUS
<1>3. replies' = Append(replies, r) /\ UNCHANGED <<files, open>> BY <1>1 DEF Walk!ModemFails, Walk!Answer
<1> HIDE DEF r
<1>4. Walk!OneUnderWay(c)' /\ replies' # <<>> /\ Head(replies') = r BY <1>1, <1>2, <1>3
<1>5. WalkUntouched BY WalkModemDoes
<1>6. Walk!OpenHere' /\ Walk!DirHere' BY <1>1, <1>2, <1>4 DEF Walk!OpenHere, Walk!DirHere
<1>7. c = "read" => Walk!ReadHere'
  <2>1. SUFFICES ASSUME c = "read" PROVE Walk!ReadHere' OBVIOUS
  <2>2. fd \in DOMAIN open /\ open[fd] = Walk!Here BY <1>1, <2>1 DEF Walk!Timely, Walk!ReadHere
  <2>3. off \in Nat /\ off <= Len(Content[Walk!Here])
    BY <1>1, <2>1, WalkWay, QueueDomain DEF Walk!Timely, Walk!BufIsBegin
  <2>4. Walk!Queue(<<>>)' /\ Len(<<>>) = 0 BY DEF Walk!Queue
  <2>5. off + 0 <= Len(Content[Walk!Here]) /\ 1 .. 0 = {} BY <2>3
  <2>6. UNCHANGED <<fd, off, open>> /\ Walk!Here' = Walk!Here BY <1>3, <1>5 DEF WalkUntouched, Walk!Here
  <2> QED BY <1>1, <1>2, <1>4, <2>2, <2>4, <2>5, <2>6 DEF Walk!ReadHere, Walk!Queue
<1>8. c = "readdir" => Walk!EntryHere'
  <2>1. SUFFICES ASSUME c = "readdir" PROVE Walk!EntryHere' OBVIOUS
  <2>2. seq \in Nat \ {0} /\ dirp \in DOMAIN dirs /\ dirs[dirp] = Walk!Here
    BY <1>1, <2>1 DEF Walk!Timely, Walk!EntryHere
  <2>3. UNCHANGED <<seq, dirp, dirs>> /\ Walk!Here' = Walk!Here BY <1>5 DEF WalkUntouched, Walk!Here
  <2>4. Head(replies').err # 0 BY <1>2, <1>4
  <2> QED BY <1>1, <2>2, <2>3, <2>4 DEF Walk!EntryHere
<1>9. Walk!Queue(open') /\ Walk!Queue(dirs') BY <1>1, <1>3 DEF Walk!Timely, Walk!Queue
<1> QED BY <1>1, <1>3, <1>4, <1>5, <1>6, <1>7, <1>8, <1>9, WalkModemStays

\* The modem opens, reads and closes the file it is asked for.
LEMMA WalkModemFile ==
  ASSUME Walk!InTime, timeouts = 0, Walk!ModemStep, NEW c, pc = c, c \in {"open", "read", "close"}, ConstantsAssumption
  PROVE  Walk!InTime'
<1> DEFINE q == Head(requests)
<1>1. /\ Walk!Timely /\ q.cmd = c /\ replies = <<>> /\ requests # <<>> /\ requests' = <<>>
      /\ \A r : replies' = Append(replies, r) /\ r.cmd = c =>
              Walk!OneUnderWay(c)' /\ replies' # <<>> /\ Head(replies') = r
  BY WalkAnswered
<1>2. /\ WalkUntouched /\ UNCHANGED dirs
      /\ c = "open" => Walk!ModemFails(q) \/ Walk!ModemHasNone(q) \/ Walk!ModemOpens(q)
      /\ c = "read" => Walk!ModemFails(q) \/ Walk!ModemReads(q)
      /\ c = "close" => Walk!ModemCloses(q)
  BY <1>1, WalkModemDoes
<1>3. Walk!Here' = Walk!Here /\ UNCHANGED <<fd, off>> BY <1>2 DEF WalkUntouched, Walk!Here
<1>4. Client!Queue(open) /\ Walk!Queue(dirs') BY <1>1, <1>2, WalkWay DEF Walk!Timely, Walk!Queue
<1>5. CASE Walk!ModemFails(q) BY <1>2, <1>5, WalkModemFails
<1>6. CASE c = "open" /\ Walk!ModemHasNone(q)
  <2> DEFINE r == [cmd |-> "open", fd |-> 0, err |-> 1, n |-> 0, body |-> <<>>]
  <2>1. r.cmd = "open" /\ r.err = 1 OBVIOUS
  <2>2. replies' = Append(replies, r) /\ UNCHANGED <<files, open>> BY <1>6 DEF Walk!ModemHasNone, Walk!Answer
  <2> HIDE DEF r
  <2>3. Walk!OneUnderWay("open")' /\ Head(replies') = r BY <1>1, <1>6, <2>1, <2>2
  <2>4. Walk!OpenHere' BY <1>1, <2>1, <2>3 DEF Walk!OpenHere
  <2>5. Walk!Queue(open') BY <1>4, <2>2, WalkWay
  <2> QED BY <1>1, <1>2, <1>4, <1>6, <2>2, <2>3, <2>4, <2>5, WalkModemStays
<1>7. CASE c = "open" /\ Walk!ModemOpens(q)
  <2> DEFINE r == [cmd |-> "open", fd |-> Len(open'), err |-> 0, n |-> 0, body |-> <<>>]
  <2>1. r.cmd = "open" /\ r.fd = Len(open') OBVIOUS
  <2>2. replies' = Append(replies, r) /\ UNCHANGED files /\ open' = Append(open, q.path)
    BY <1>7 DEF Walk!ModemOpens, Walk!Answer
  <2> HIDE DEF r
  <2>3. Walk!OneUnderWay("open")' /\ Head(replies') = r BY <1>1, <1>7, <2>1, <2>2
  <2>4. q.path = Walk!Here BY <1>1, <1>7 DEF Walk!Timely, Walk!OpenHere
  <2>5. Client!Queue(open') /\ Len(open') = Len(open) + 1 /\ open'[Len(open) + 1] = q.path
    BY <1>4, <2>2, QueueAppend
  <2>6. Len(open') \in DOMAIN open' /\ open'[Len(open')] = Walk!Here
    BY <1>4, <2>4, <2>5, QueueDomain
  <2>7. Walk!OpenHere' BY <1>1, <1>3, <2>1, <2>3, <2>6 DEF Walk!OpenHere
  <2>8. Walk!Queue(open') BY <2>5, WalkWay
  <2> QED BY <1>1, <1>2, <1>4, <1>7, <2>2, <2>3, <2>7, <2>8, WalkModemStays
<1>8. CASE c = "read" /\ Walk!ModemReads(q)
  <2>1. /\ Walk!ReadHere /\ Walk!BufIsBegin /\ files = Content /\ ~Head(todo).isdir /\ todo # <<>> /\ Walk!LeftIsThere
    BY <1>1, <1>8 DEF Walk!Timely
  <2>2. q.fd = fd /\ q.off = off /\ fd \in DOMAIN open /\ open[fd] = Walk!Here
    BY <1>1, <2>1 DEF Walk!ReadHere
  <2>3. PICK file : file = Content[Walk!Here] OBVIOUS
  <2>4. Client!Queue(file) BY <2>1, <2>3, WalkHere, ConstantsAssumption DEF ConstantsAssumption, IsSequence, Client!Queue
  <2>5. off \in 0 .. Len(file) /\ Len(file) \in Nat
    BY <2>1, <2>3, <2>4, WalkWay, QueueDomain DEF Walk!BufIsBegin
  <2>6. PICK m : m = Walk!Least(off + 5, Len(file)) OBVIOUS
  <2>7. m \in off .. Len(file) BY <2>5, <2>6 DEF Walk!Least
  <2>8. PICK body : body = SubSeq(file, off + 1, m) OBVIOUS
  <2>9. Client!Queue(body) /\ Len(body) = m - off /\ \A u \in 1 .. m - off : body[u] = file[off + u]
    BY <2>4, <2>5, <2>7, <2>8, QueuePart
  <2> DEFINE r == [cmd |-> "read", fd |-> fd, err |-> 0, n |-> Len(body), body |-> body]
  <2>10. r.cmd = "read" /\ r.n = Len(body) /\ r.body = body OBVIOUS
  <2>11. replies' = Append(replies, r) /\ UNCHANGED <<files, open>>
    BY <1>8, <2>1, <2>2, <2>3, <2>6, <2>8 DEF Walk!ModemReads, Walk!Answer
  <2> HIDE DEF r
  <2>12. Walk!OneUnderWay("read")' /\ Head(replies') = r BY <1>1, <1>8, <2>10, <2>11
  <2>13. off + Len(body) <= Len(Content[Walk!Here]) /\ \A u \in 1 .. Len(body) : body[u] = Content[Walk!Here][off + u]
    BY <2>3, <2>5, <2>7, <2>9
  <2>15. Walk!ReadHere'
    <3>1. fd' \in DOMAIN open' /\ open'[fd'] = Walk!Here' BY <1>3, <2>2, <2>11
    <3>3. /\ r.n = Len(r.body) /\ off' + r.n <= Len(Content[Walk!Here'])
          /\ \A u \in 1 .. r.n : r.body[u] = Content[Walk!Here'][off' + u]
      BY <1>3, <2>10, <2>13
    <3>4. r = Head(replies') /\ Walk!Queue(r.body) BY <2>9, <2>10, <2>12, WalkWay
    <3> QED BY ONLY <1>1, <3>1, <3>3, <3>4 DEF Walk!ReadHere, Walk!Queue
  <2>16. Walk!Queue(open') BY <1>4, <2>11, WalkWay
  <2> QED BY <1>1, <1>2, <1>4, <1>8, <2>11, <2>12, <2>15, <2>16, WalkModemStays
<1>9. CASE c = "close" /\ Walk!ModemCloses(q)
  <2> DEFINE r == [cmd |-> "close", fd |-> q.fd, err |-> 0, n |-> 0, body |-> <<>>]
  <2>1. r.cmd = "close" OBVIOUS
  <2>2. replies' = Append(replies, r) /\ UNCHANGED files /\ open' = [open EXCEPT ![q.fd] = "closed"]
    BY <1>9 DEF Walk!ModemCloses, Walk!Answer
  <2> HIDE DEF r
  <2>3. Walk!OneUnderWay("close")' BY <1>1, <1>9, <2>1, <2>2
  <2>4. Walk!Queue(open')
    <3>1. PICK f : f = q.fd OBVIOUS
    <3>2. open' = [open EXCEPT ![f] = "closed"] BY <2>2, <3>1
    <3>3. Client!Queue(open') BY <1>4, <3>2, QueueExcept
    <3> QED BY <3>3, WalkWay
  <2> QED BY <1>1, <1>2, <1>4, <1>9, <2>2, <2>3, <2>4, WalkModemStays
<1> QED BY <1>2, <1>5, <1>6, <1>7, <1>8, <1>9

\* The modem opens, reads and closes the directory it is asked for.
LEMMA WalkModemDir ==
  ASSUME Walk!InTime, timeouts = 0, Walk!ModemStep, NEW c, pc = c, c \in {"opendir", "readdir", "closedir"},
         ConstantsAssumption
  PROVE  Walk!InTime'
<1> DEFINE q == Head(requests)
<1>1. /\ Walk!Timely /\ q.cmd = c /\ replies = <<>> /\ requests # <<>> /\ requests' = <<>>
      /\ \A r : replies' = Append(replies, r) /\ r.cmd = c =>
              Walk!OneUnderWay(c)' /\ replies' # <<>> /\ Head(replies') = r
  BY WalkAnswered
<1>2. /\ WalkUntouched
      /\ \/ Walk!ModemFails(q) /\ UNCHANGED dirs
         \/ /\ UNCHANGED <<files, open>>
            /\ \/ c = "opendir" /\ Walk!ModemOpensDir(q)
               \/ c = "readdir" /\ Walk!ModemReadsDir(q)
               \/ c = "closedir" /\ Walk!ModemClosesDir(q)
  BY <1>1, WalkModemDoes
<1>3. Walk!Here' = Walk!Here /\ UNCHANGED <<seq, dirp>> BY <1>2 DEF WalkUntouched, Walk!Here
<1>4. Client!Queue(dirs) /\ Client!Queue(open) BY <1>1, WalkWay DEF Walk!Timely
<1>0. /\ todo # <<>> /\ Walk!LeftIsThere /\ Head(todo).isdir /\ Walk!Here \in DOMAIN Tree
  BY <1>1, WalkHere DEF Walk!Timely
<1>5. CASE Walk!ModemFails(q) /\ UNCHANGED dirs BY <1>2, <1>5, WalkModemFails
<1>6. CASE c = "opendir" /\ Walk!ModemOpensDir(q) /\ UNCHANGED <<files, open>>
  <2>0. Walk!Queue(open') BY <1>4, <1>6, WalkWay
  <2>1. CASE q.path \in DOMAIN Tree
    <3> DEFINE r == [cmd |-> "opendir", dirp |-> Len(dirs'), err |-> 0]
    <3>1. r.cmd = "opendir" /\ r.dirp = Len(dirs') OBVIOUS
    <3>2. replies' = Append(replies, r) /\ dirs' = Append(dirs, q.path)
      BY <1>6, <2>1 DEF Walk!ModemOpensDir, Walk!Answer
    <3> HIDE DEF r
    <3>3. Walk!OneUnderWay("opendir")' /\ Head(replies') = r BY <1>1, <1>6, <3>1, <3>2
    <3>4. q.path = Walk!Here BY <1>1, <1>6 DEF Walk!Timely, Walk!DirHere
    <3>5. Client!Queue(dirs') /\ Len(dirs') = Len(dirs) + 1 /\ dirs'[Len(dirs) + 1] = q.path
      BY <1>4, <3>2, QueueAppend
    <3>6. Len(dirs') \in DOMAIN dirs' /\ dirs'[Len(dirs')] = Walk!Here BY <1>4, <3>4, <3>5, QueueDomain
    <3>7. Walk!DirHere' BY <1>1, <1>3, <3>1, <3>3, <3>6 DEF Walk!DirHere
    <3>8. Walk!Queue(dirs') BY <3>5, WalkWay
    <3> QED BY <1>1, <1>2, <1>6, <2>0, <3>3, <3>7, <3>8, WalkModemStays
  <2>2. CASE q.path \notin DOMAIN Tree
    <3> DEFINE r == [cmd |-> "opendir", dirp |-> 0, err |-> 1]
    <3>1. r.cmd = "opendir" /\ r.err = 1 OBVIOUS
    <3>2. replies' = Append(replies, r) /\ dirs' = dirs
      BY <1>6, <2>2 DEF Walk!ModemOpensDir, Walk!Answer
    <3> HIDE DEF r
    <3>3. Walk!OneUnderWay("opendir")' /\ Head(replies') = r BY <1>1, <1>6, <3>1, <3>2
    <3>4. Walk!DirHere' BY <1>1, <3>1, <3>3 DEF Walk!DirHere
    <3>5. Walk!Queue(dirs') BY <1>4, <3>2, WalkWay
    <3> QED BY <1>1, <1>2, <1>6, <2>0, <3>3, <3>4, <3>5, WalkModemStays
  <2> QED BY <2>1, <2>2
<1>7. CASE c = "readdir" /\ Walk!ModemReadsDir(q) /\ UNCHANGED <<files, open>>
  <2>0. Walk!Queue(open') /\ Walk!Queue(dirs') /\ dirs' = dirs BY <1>4, <1>7, WalkWay DEF Walk!ModemReadsDir
  <2>1. q.dirp = dirp /\ q.seq = seq /\ seq \in Nat \ {0} /\ dirp \in DOMAIN dirs /\ dirs[dirp] = Walk!Here
    BY <1>1, <1>7 DEF Walk!Timely, Walk!EntryHere
  <2>2. PICK here : here = Walk!Here OBVIOUS
  <2> DEFINE name == Tree[here][seq]
             kid == Append(here, name)
             size == IF kid \in DOMAIN Tree THEN 0 ELSE Len(Content[kid])
             isdir == kid \in DOMAIN Tree
             r == IF here = "closed" THEN [cmd |-> "readdir", err |-> 1]
                  ELSE IF seq > Len(Tree[here]) THEN [cmd |-> "readdir", err |-> 0, name |-> ""]
                  ELSE [cmd |-> "readdir", err |-> 0, name |-> name, isdir |-> isdir, size |-> size]
  <2>3. replies' = Append(replies, r)
    <3>1. dirs[q.dirp] = here /\ q.seq = seq BY <2>1, <2>2
    <3> QED BY <1>7, <3>1 DEF Walk!ModemReadsDir, Walk!Answer
  <2>4. /\ r.cmd = "readdir"
        /\ r.err = 0 /\ r.name # "" => Walk!IsThere([path |-> Append(here, r.name), isdir |-> r.isdir])
    <3> HIDE DEF size
    <3>1. CASE here = "closed" BY <3>1
    <3>2. CASE here # "closed" /\ seq > Len(Tree[here]) BY <3>2
    <3>3. CASE here # "closed" /\ ~(seq > Len(Tree[here]))
      <4>1. r = [cmd |-> "readdir", err |-> 0, name |-> name, isdir |-> isdir, size |-> size] BY <3>3
      <4>2. r.name = name /\ r.isdir = isdir /\ r.cmd = "readdir" BY <4>1
      <4>3. seq \in DOMAIN Tree[here]
        BY <1>0, <2>1, <2>2, <3>3, ConstantsAssumption DEF ConstantsAssumption, IsSequence
      <4>4. kid \in DOMAIN Tree \union DOMAIN Content
        BY <1>0, <2>2, <4>3, ConstantsAssumption DEF ConstantsAssumption
      <4> DEFINE v == [path |-> kid, isdir |-> isdir]
      <4>5. v.path = kid /\ v.isdir = isdir OBVIOUS
      <4> HIDE DEF v, kid, name, r
      <4>6. Walk!IsThere(v)
        <5>1. isdir \in BOOLEAN OBVIOUS
        <5>2. CASE kid \in DOMAIN Tree BY <4>5, <5>2 DEF Walk!IsThere
        <5>3. CASE kid \notin DOMAIN Tree
          <6>1. kid \in DOMAIN Content BY <4>4, <5>3
          <6>2. v.isdir = FALSE /\ v.path \in DOMAIN Content BY <4>5, <5>3, <6>1
          <6> QED BY ONLY <6>2 DEF Walk!IsThere
        <5> QED BY <5>2, <5>3
      <4>7. v = [path |-> Append(here, r.name), isdir |-> r.isdir] BY <4>2 DEF v, kid
      <4> QED BY <4>2, <4>6, <4>7
    <3> QED BY <3>1, <3>2, <3>3
  <2> HIDE DEF r
  <2>5. Walk!OneUnderWay("readdir")' /\ Head(replies') = r BY <1>1, <1>7, <2>3, <2>4
  <2>6. Walk!EntryHere'
    <3>1. UNCHANGED <<seq, dirp, dirs>> /\ Walk!Here' = here BY <1>3, <2>0, <2>2
    <3>2. Walk!EntryHere' <=>
            /\ seq \in Nat \ {0} /\ dirp \in DOMAIN dirs /\ dirs[dirp] = here
            /\ requests' # <<>> => Head(requests').dirp = dirp /\ Head(requests').seq = seq
            /\ replies' # <<>> =>
                 (Head(replies').err = 0 /\ Head(replies').name # "" =>
                    Walk!IsThere([path |-> Append(here, Head(replies').name), isdir |-> Head(replies').isdir]))
      BY <3>1 DEF Walk!EntryHere, Walk!IsThere
    <3> QED BY <1>1, <2>1, <2>2, <2>4, <2>5, <3>2
  <2> QED BY <1>1, <1>2, <1>7, <2>0, <2>5, <2>6, WalkModemStays
<1>8. CASE c = "closedir" /\ Walk!ModemClosesDir(q) /\ UNCHANGED <<files, open>>
  <2> DEFINE r == [cmd |-> "closedir", err |-> 0]
  <2>1. r.cmd = "closedir" OBVIOUS
  <2>2. replies' = Append(replies, r) /\ dirs' = [dirs EXCEPT ![q.dirp] = "closed"]
    BY <1>8 DEF Walk!ModemClosesDir, Walk!Answer
  <2> HIDE DEF r
  <2>3. Walk!OneUnderWay("closedir")' BY <1>1, <1>8, <2>1, <2>2
  <2>4. Walk!Queue(dirs')
    <3>1. PICK f : f = q.dirp OBVIOUS
    <3>2. dirs' = [dirs EXCEPT ![f] = "closed"] BY <2>2, <3>1
    <3>3. Client!Queue(dirs') BY <1>4, <3>2, QueueExcept
    <3> QED BY <3>3, WalkWay
  <2>5. Walk!Queue(open') BY <1>4, <1>8, WalkWay
  <2> QED BY <1>1, <1>2, <1>8, <2>3, <2>4, <2>5, WalkModemStays
<1> QED BY <1>2, <1>5, <1>6, <1>7, <1>8

LEMMA WalkTimely ==
  ASSUME Walk!InTime, [Walk!Next]_(Walk!vars), ConstantsAssumption PROVE Walk!InTime'
<1>1. CASE Walk!Visit BY <1>1, WalkTimelyVisit
<1>2. CASE Walk!Program
  <2>1. CASE Walk!TickEscapes BY <2>1, WalkMisses, WalkLate DEF Walk!TickEscapes
  <2> QED BY <1>2, <2>1, WalkTimelyOpened, WalkTimelyNone, WalkTimelyBlock, WalkTimelyClosed, WalkTimelyDirOpened,
             WalkTimelyEntry, WalkTimelyDirClosed DEF Walk!Program
<1>3. CASE Walk!ModemStep
  <2>1. CASE timeouts # 0
    <3>1. timeouts' = timeouts BY <1>3, WalkModemDoes DEF WalkUntouched
    <3> QED BY <2>1, <3>1, WalkLate DEF Walk!InTime
  <2>2. CASE timeouts = 0
    <3>1. requests # <<>> BY <1>3, WalkModemDoes
    <3>2. pc \in {"open", "read", "close", "opendir", "readdir", "closedir"}
      BY <2>2, <3>1 DEF Walk!InTime, Walk!Timely, Walk!Quiet
    <3> QED BY <1>3, <2>2, <3>2, WalkModemFile, WalkModemDir
  <2> QED BY <2>1, <2>2 DEF Walk!InTime
<1>4. CASE UNCHANGED Walk!vars
  <2>1. CASE timeouts # 0
    BY <1>4, <2>1, WalkLate DEF Walk!InTime, Walk!vars, Walk!chanvars
  <2>2. CASE timeouts = 0
    <3>1. /\ UNCHANGED <<requests, replies, files, open, timeouts, pc, buf, off, fd, dirs, todo, kids, seq, dirp, out>>
      BY <1>4 DEF Walk!vars, Walk!chanvars, Walk!readvars
    <3>2. /\ timeouts' \in Nat /\ Walk!Timely
          /\ Walk!NothingIsInvented' /\ Walk!LeftIsThere' /\ Walk!Here' = Walk!Here
      BY <2>2, <3>1, WalkStays
    <3>3. /\ \A c : Walk!OneUnderWay(c)' <=> Walk!OneUnderWay(c)
          /\ Walk!Quiet' <=> (Walk!Quiet /\ TRUE)
          /\ \A v : Walk!IsThere(v)' <=> (Walk!IsThere(v) /\ TRUE)
          /\ \A s : Walk!Queue(s)' <=> (Walk!Queue(s) /\ TRUE)
      BY <3>1 DEF Walk!OneUnderWay, Walk!OneAsked, Walk!OneAnswered, Walk!One, Walk!Quiet, Walk!Queue, Walk!IsThere
    <3>4. (Walk!OpenHere => Walk!OpenHere') /\ (Walk!DirHere => Walk!DirHere') BY <3>1 DEF Walk!OpenHere, Walk!DirHere, Walk!Here
    <3>5. (Walk!ReadHere => Walk!ReadHere') /\ (Walk!BufIsBegin => Walk!BufIsBegin')
      BY <3>1 DEF Walk!ReadHere, Walk!BufIsBegin, Walk!Here, Walk!Queue
    <3>6. Walk!EntryHere => Walk!EntryHere' BY <3>1 DEF Walk!EntryHere, Walk!Here, Walk!IsThere
    <3> QED BY <3>1, <3>2, <3>3, <3>4, <3>5, <3>6 DEF Walk!InTime, Walk!Timely, Walk!Queue
  <2> QED BY <2>1, <2>2 DEF Walk!InTime
<1> QED BY <1>1, <1>2, <1>3, <1>4 DEF Walk!Next

-----------------------------------------------------------------------------
(* Write!: efswrite.py, with answers in time.                              *)

LEMMA WriteMisses ==
  ASSUME Write!InTime, Write!NoAnswer PROVE Write!InTime'
BY DEF Write!InTime, Write!NoAnswer

LEMMA WriteTimelyStart == ASSUME Write!Init PROVE Write!InTime
<1>1. requests = <<>> /\ replies = <<>> /\ timeouts = 0 /\ pc = "start" /\ open = <<>>
  BY DEF Write!Init, Write!ChannelInit, Write!ReadInit
<1> QED BY <1>1 DEF Write!InTime, Write!Timely, Write!Quiet

\* A request is sent when none is under way.
LEMMA WriteAsked ==
  ASSUME requests = <<>>, NEW q, requests' = Append(requests, q), replies' = <<>>
  PROVE  Write!OneUnderWay(q.cmd)' /\ requests' # <<>> /\ Head(requests') = q
<1>1. requests' = <<q>> /\ replies' = <<>> BY OneAdded
<1> QED BY <1>1, OneAdded DEF Write!OneAsked, Write!OneUnderWay

AllClosed == \A f \in DOMAIN open : open[f] = "closed"

\* With every descriptor closed the program ends, or opens the item.
LEMMA WriteOpens ==
  ASSUME Write!InTime, timeouts = 0, UNCHANGED <<open, timeouts>>, requests = <<>>, replies' = <<>>, AllClosed,
         \/ pc' = "end" /\ UNCHANGED requests
         \/ \E way \in {"open", "openw"} : Write!AskOpen("item", way)
  PROVE  Write!InTime'
<1>1. \A f \in DOMAIN open' : open'[f] = "closed" BY DEF AllClosed
<1>2. CASE pc' = "end" /\ UNCHANGED requests
  BY <1>1, <1>2 DEF Write!InTime, Write!Timely, Write!Accounted, Write!Quiet
<1>3. CASE \E way \in {"open", "openw"} : Write!AskOpen("item", way)
  <2> DEFINE q == [cmd |-> "open", path |-> "item"]
  <2>1. pc' \in {"open", "openw"} /\ requests' = Append(requests, q) BY <1>3 DEF Write!AskOpen, Write!Ask, Write!Send
  <2>2. q.cmd = "open" OBVIOUS
  <2> HIDE DEF q
  <2>3. Write!OneUnderWay("open")' BY <2>1, <2>2, WriteAsked
  <2> QED BY <1>1, <2>1, <2>3 DEF Write!InTime, Write!Timely, Write!Accounted
<1> QED BY <1>2, <1>3

\* Of a descriptor that is in use it asks for the next block, or the close.
LEMMA WriteUses ==
  ASSUME Write!InTime, timeouts = 0, UNCHANGED <<open, timeouts>>, requests = <<>>, replies' = <<>>,
         \A f \in DOMAIN open : open[f] = "closed" \/ f = fd',
         NEW q, requests' = Append(requests, q), q.fd = fd',
         \/ pc' \in {"close", "closew"} /\ q.cmd = "close"
         \/ pc' = "read" /\ q.cmd = "read"
         \/ pc' = "write" /\ q.cmd = "write"
  PROVE  Write!InTime'
<1>1. Write!OneUnderWay(q.cmd)' /\ requests' # <<>> /\ Head(requests') = q BY WriteAsked
<1>2. CASE pc' \in {"close", "closew"} /\ q.cmd = "close"
  <2>1. Write!OneUnderWay("close")' BY <1>1, <1>2
  <2> QED BY <1>1, <1>2, <2>1 DEF Write!InTime, Write!Timely, Write!Accounted
<1>3. CASE pc' = "read" /\ q.cmd = "read"
  <2>1. Write!OneUnderWay("read")' BY <1>1, <1>3
  <2> QED BY <1>1, <1>3, <2>1 DEF Write!InTime, Write!Timely, Write!Accounted
<1>4. CASE pc' = "write" /\ q.cmd = "write"
  <2>1. Write!OneUnderWay("write")' BY <1>1, <1>4
  <2> QED BY <1>1, <1>4, <2>1 DEF Write!InTime, Write!Timely, Write!Accounted
<1> QED BY <1>2, <1>3, <1>4

\* The answer that is taken, and what is open then.
LEMMA WriteTakes ==
  ASSUME Write!InTime, timeouts = 0, pc \in {"open", "openw", "read", "write", "close", "closew"},
         NEW c, NEW r, Write!Receive(c, r)
  PROVE  /\ requests = <<>> /\ replies # <<>> /\ r = Head(replies) /\ replies' = <<>>
         /\ pc \in {"open", "openw"} /\ r.err # 0 => AllClosed
         /\ pc \in {"open", "openw"} => \A f \in DOMAIN open : open[f] = "closed" \/ f = r.fd
         /\ pc \in {"read", "write"} => \A f \in DOMAIN open : open[f] = "closed" \/ f = fd
         /\ pc \in {"close", "closew"} => AllClosed
<1>1. Write!Timely BY DEF Write!InTime
<1>2. \E cmd : Write!OneUnderWay(cmd) BY <1>1 DEF Write!Timely
<1>3. requests = <<>> /\ replies # <<>> /\ r = Head(replies) /\ replies' = <<>> BY <1>2, InTimeReceives
<1>4. \A f \in DOMAIN open : Write!Accounted(f) BY <1>1 DEF Write!Timely
<1> QED BY <1>3, <1>4 DEF Write!Accounted, AllClosed

LEMMA WriteTimelyFirst == ASSUME Write!InTime, Write!Start PROVE Write!InTime'
<1>1. pc = "start" /\ Write!AskOpen("item", "open") /\ UNCHANGED <<replies, open, timeouts>> BY DEF Write!Start
<1>2. CASE timeouts # 0 BY <1>1, <1>2 DEF Write!InTime
<1>3. CASE timeouts = 0
  <2>1. requests = <<>> /\ replies = <<>> /\ AllClosed
    BY <1>1, <1>3 DEF Write!InTime, Write!Timely, Write!Quiet, Write!Accounted, AllClosed
  <2> QED BY <1>1, <1>3, <2>1, WriteOpens
<1> QED BY <1>2, <1>3 DEF Write!InTime

LEMMA WriteTimelyOpened == ASSUME Write!InTime, Write!FileOpened PROVE Write!InTime'
<1>1. PICK r : /\ Write!Receive("open", r) /\ pc = "open" /\ UNCHANGED <<open, timeouts>> /\ pc' = "read" /\ fd' = r.fd
               /\ requests' = Append(requests, [cmd |-> "read", fd |-> r.fd, off |-> 0])
  BY DEF Write!FileOpened, Write!Got, Write!AskRead, Write!Ask, Write!Send
<1>2. CASE timeouts # 0 BY <1>1, <1>2 DEF Write!InTime
<1>3. CASE timeouts = 0
  <2>1. requests = <<>> /\ replies' = <<>> /\ \A f \in DOMAIN open : open[f] = "closed" \/ f = r.fd
    BY <1>1, <1>3, WriteTakes
  <2> DEFINE q == [cmd |-> "read", fd |-> r.fd, off |-> 0]
  <2>2. q.cmd = "read" /\ q.fd = fd' /\ requests' = Append(requests, q) BY <1>1
  <2> HIDE DEF q
  <2> QED BY <1>1, <1>3, <2>1, <2>2, WriteUses
<1> QED BY <1>2, <1>3 DEF Write!InTime

\* After read_file() the program ends, or opens the item for the write.
LEMMA WriteTimelyAfterRead ==
  ASSUME Write!InTime, timeouts = 0, UNCHANGED <<open, timeouts>>, requests = <<>>, replies' = <<>>, AllClosed,
         NEW body, Write!AfterRead(body)
  PROVE  Write!InTime'
<1>1. \/ pc' = "end" /\ UNCHANGED requests
      \/ \E way \in {"open", "openw"} : Write!AskOpen("item", way)
  BY DEF Write!AfterRead, Write!Decide, Write!Verdict, Write!Exit, Write!GoOn
<1> QED BY <1>1, WriteOpens

LEMMA WriteTimelyNone == ASSUME Write!InTime, Write!NotOpened, Write!AfterRead(Write!NoFile) PROVE Write!InTime'
<1>1. /\ pc = "open" /\ UNCHANGED open
      /\ \/ \E r : Write!Receive("open", r) /\ r.err # 0 /\ UNCHANGED timeouts
         \/ Write!NoAnswer
  BY DEF Write!NotOpened, Write!Got, Write!NoneFor
<1>2. CASE Write!NoAnswer BY <1>2, WriteMisses
<1>3. CASE \E r : Write!Receive("open", r) /\ r.err # 0 /\ UNCHANGED timeouts
  <2>1. CASE timeouts # 0 BY <1>3, <2>1 DEF Write!InTime
  <2>2. CASE timeouts = 0
    <3>1. requests = <<>> /\ replies' = <<>> /\ AllClosed BY <1>1, <1>3, <2>2, WriteTakes
    <3> QED BY <1>1, <1>3, <2>2, <3>1, WriteTimelyAfterRead
  <2> QED BY <2>1, <2>2
<1> QED BY <1>1, <1>2, <1>3

LEMMA WriteTimelyBlock == ASSUME Write!InTime, Write!BlockRead PROVE Write!InTime'
<1>1. /\ pc = "read" /\ UNCHANGED <<open, fd>>
      /\ \/ \E r : Write!Receive("read", r) /\ UNCHANGED timeouts
         \/ Write!NoAnswer
      /\ \/ pc' = "close" /\ requests' = Append(requests, [cmd |-> "close", fd |-> fd])
         \/ pc' = "read" /\ requests' = Append(requests, [cmd |-> "read", fd |-> fd, off |-> off'])
  BY DEF Write!BlockRead, Write!Got, Write!NoneFor, Write!AskClose, Write!AskRead, Write!Ask, Write!Send
<1>2. CASE Write!NoAnswer BY <1>2, WriteMisses
<1>3. CASE \E r : Write!Receive("read", r) /\ UNCHANGED timeouts
  <2>1. CASE timeouts # 0 BY <1>3, <2>1 DEF Write!InTime
  <2>2. CASE timeouts = 0
    <3>1. requests = <<>> /\ replies' = <<>> /\ \A f \in DOMAIN open : open[f] = "closed" \/ f = fd'
      BY <1>1, <1>3, <2>2, WriteTakes
    <3>2. PICK q : /\ requests' = Append(requests, q) /\ q.fd = fd'
                   /\ \/ pc' = "close" /\ q.cmd = "close"
                      \/ pc' = "read" /\ q.cmd = "read"
      <4>1. CASE pc' = "close" /\ requests' = Append(requests, [cmd |-> "close", fd |-> fd]) BY <1>1, <4>1
      <4>2. CASE pc' = "read" /\ requests' = Append(requests, [cmd |-> "read", fd |-> fd, off |-> off'])
        BY <1>1, <4>2
      <4> QED BY <1>1, <4>1, <4>2
    <3> QED BY <1>1, <1>3, <2>2, <3>1, <3>2, WriteUses
  <2> QED BY <2>1, <2>2
<1> QED BY <1>1, <1>2, <1>3

LEMMA WriteTimelyClosed == ASSUME Write!InTime, Write!FileClosed, Write!AfterRead(buf) PROVE Write!InTime'
<1>1. /\ pc = "close" /\ UNCHANGED open
      /\ \/ \E r : Write!Receive("close", r) /\ UNCHANGED timeouts
         \/ Write!NoAnswer
  BY DEF Write!FileClosed, Write!Got, Write!NoneFor
<1>2. CASE Write!NoAnswer BY <1>2, WriteMisses
<1>3. CASE \E r : Write!Receive("close", r) /\ UNCHANGED timeouts
  <2>1. CASE timeouts # 0 BY <1>3, <2>1 DEF Write!InTime
  <2>2. CASE timeouts = 0
    <3>1. requests = <<>> /\ replies' = <<>> /\ AllClosed BY <1>1, <1>3, <2>2, WriteTakes
    <3> QED BY <1>1, <1>3, <2>2, <3>1, WriteTimelyAfterRead
  <2> QED BY <2>1, <2>2
<1> QED BY <1>1, <1>2, <1>3

LEMMA WriteTimelyOpenedW == ASSUME Write!InTime, Write!OpenedForWrite PROVE Write!InTime'
<1> DEFINE part == SubSeq(data, 0 + 1, Write!Least(0 + WriteChunk, Len(data)))
           q(f) == [cmd |-> "write", fd |-> f, off |-> 0, part |-> part]
<1>1. /\ pc = "openw" /\ UNCHANGED open
      /\ \/ \E r : /\ Write!Receive("open", r) /\ UNCHANGED timeouts
                   /\ \/ r.err # 0 /\ pc' = "end" /\ UNCHANGED requests
                      \/ pc' = "write" /\ fd' = r.fd /\ requests' = Append(requests, q(r.fd))
         \/ Write!NoAnswer
  BY DEF Write!OpenedForWrite, Write!Got, Write!NoneFor, Write!Exit, Write!AskWrite, Write!Ask, Write!Send
<1>2. \A f : q(f).cmd = "write" /\ q(f).fd = f OBVIOUS
<1> HIDE DEF q
<1>3. CASE Write!NoAnswer BY <1>3, WriteMisses
<1>4. CASE ~Write!NoAnswer
  <2>1. PICK r : /\ Write!Receive("open", r) /\ UNCHANGED timeouts
                 /\ \/ r.err # 0 /\ pc' = "end" /\ UNCHANGED requests
                    \/ pc' = "write" /\ fd' = r.fd /\ requests' = Append(requests, q(r.fd))
    BY <1>1, <1>4
  <2>2. CASE timeouts # 0 BY <2>1, <2>2 DEF Write!InTime
  <2>3. CASE timeouts = 0
    <3>1. /\ requests = <<>> /\ replies' = <<>> /\ \A f \in DOMAIN open : open[f] = "closed" \/ f = r.fd
          /\ r.err # 0 => AllClosed
      BY <1>1, <2>1, <2>3, WriteTakes
    <3>2. CASE r.err # 0 /\ pc' = "end" /\ UNCHANGED requests BY <1>1, <2>1, <2>3, <3>1, <3>2, WriteOpens
    <3>3. CASE pc' = "write" /\ fd' = r.fd /\ requests' = Append(requests, q(r.fd))
      <4>1. PICK w : w = q(r.fd) OBVIOUS
      <4>2. w.cmd = "write" /\ w.fd = fd' /\ requests' = Append(requests, w) BY <1>2, <3>3, <4>1
      <4> QED BY <1>1, <2>1, <2>3, <3>1, <3>3, <4>2, WriteUses
    <3> QED BY <2>1, <3>2, <3>3
  <2> QED BY <2>2, <2>3 DEF Write!InTime
<1> QED BY <1>3, <1>4

LEMMA WriteTimelyPart == ASSUME Write!InTime, Write!Wrote PROVE Write!InTime'
<1> DEFINE part == SubSeq(data, off' + 1, Write!Least(off' + WriteChunk, Len(data)))
<1>1. /\ pc = "write" /\ UNCHANGED <<open, fd>>
      /\ \/ \E r : Write!Receive("write", r) /\ UNCHANGED timeouts
         \/ Write!NoAnswer
      /\ \/ pc' = "closew" /\ requests' = Append(requests, [cmd |-> "close", fd |-> fd])
         \/ pc' = "write" /\ requests' = Append(requests, [cmd |-> "write", fd |-> fd, off |-> off', part |-> part])
  BY DEF Write!Wrote, Write!Got, Write!NoneFor, Write!Refused, Write!GoOnWriting, Write!AskClose, Write!AskWrite,
     Write!Ask, Write!Send
<1> HIDE DEF part
<1>2. CASE Write!NoAnswer BY <1>2, WriteMisses
<1>3. CASE \E r : Write!Receive("write", r) /\ UNCHANGED timeouts
  <2>1. CASE timeouts # 0 BY <1>3, <2>1 DEF Write!InTime
  <2>2. CASE timeouts = 0
    <3>1. requests = <<>> /\ replies' = <<>> /\ \A f \in DOMAIN open : open[f] = "closed" \/ f = fd'
      BY <1>1, <1>3, <2>2, WriteTakes
    <3>2. PICK q : /\ requests' = Append(requests, q) /\ q.fd = fd'
                   /\ \/ pc' = "closew" /\ q.cmd = "close"
                      \/ pc' = "write" /\ q.cmd = "write"
      <4>1. CASE pc' = "closew" /\ requests' = Append(requests, [cmd |-> "close", fd |-> fd]) BY <1>1, <4>1
      <4>2. CASE /\ pc' = "write"
                 /\ requests' = Append(requests, [cmd |-> "write", fd |-> fd, off |-> off', part |-> part])
        BY <1>1, <4>2
      <4> QED BY <1>1, <4>1, <4>2
    <3> QED BY <1>1, <1>3, <2>2, <3>1, <3>2, WriteUses
  <2> QED BY <2>1, <2>2
<1> QED BY <1>1, <1>2, <1>3

LEMMA WriteTimelyClosedW == ASSUME Write!InTime, Write!ClosedAfterWrite PROVE Write!InTime'
<1>1. /\ pc = "closew" /\ UNCHANGED open
      /\ \/ \E r : Write!Receive("close", r) /\ UNCHANGED timeouts
         \/ Write!NoAnswer
      /\ \/ pc' = "end" /\ UNCHANGED requests
         \/ \E way \in {"open", "openw"} : Write!AskOpen("item", way)
  BY DEF Write!ClosedAfterWrite, Write!Got, Write!NoneFor, Write!Exit, Write!GoOn
<1>2. CASE Write!NoAnswer BY <1>2, WriteMisses
<1>3. CASE \E r : Write!Receive("close", r) /\ UNCHANGED timeouts
  <2>1. CASE timeouts # 0 BY <1>3, <2>1 DEF Write!InTime
  <2>2. CASE timeouts = 0
    <3>1. requests = <<>> /\ replies' = <<>> /\ AllClosed BY <1>1, <1>3, <2>2, WriteTakes
    <3> QED BY <1>1, <1>3, <2>2, <3>1, WriteOpens
  <2> QED BY <2>1, <2>2
<1> QED BY <1>1, <1>2, <1>3

LEMMA WriterQueues == ASSUME Write!IInv PROVE Client!Queue(open)
BY DEF Write!IInv, Write!Queue, Client!Queue

\* The modem executes the request under way: a descriptor that it opens is
\* told in its answer, and one that it closes is closed.
LEMMA WriteTimelyModem == ASSUME Write!InTime, Write!IInv, Write!ModemStep PROVE Write!InTime'
<1> DEFINE q == Head(requests)
<1>1. /\ requests # <<>> /\ requests' = Tail(requests) /\ UNCHANGED <<timeouts, pc, fd>>
      /\ Write!ModemFails(q) \/ Write!ModemHasNone(q) \/ Write!ModemOpens(q)
           \/ Write!ModemReads(q) \/ Write!ModemWrites(q) \/ Write!ModemCloses(q)
  BY DEF Write!ModemStep, Write!Modem, Write!readvars
<1>2. CASE timeouts # 0 BY <1>1, <1>2 DEF Write!InTime
<1>3. CASE timeouts = 0
  <2>1. Write!Timely /\ Client!Queue(open) BY <1>3, WriterQueues DEF Write!InTime
  <2>2. pc \in {"open", "openw", "read", "write", "close", "closew"}
    BY <1>1, <2>1 DEF Write!IInv, Write!Stages, Write!Timely, Write!Quiet
  <2>3. PICK c : /\ c \in {"open", "read", "write", "close"} /\ Write!OneUnderWay(c)
                 /\ (pc \in {"open", "openw"} <=> c = "open") /\ (pc = "read" <=> c = "read")
                 /\ (pc = "write" <=> c = "write") /\ (pc \in {"close", "closew"} <=> c = "close")
    <3>1. CASE pc \in {"open", "openw"} BY <2>1, <3>1 DEF Write!Timely
    <3>2. CASE pc \in {"close", "closew"} BY <2>1, <3>2 DEF Write!Timely
    <3>3. CASE pc = "read" BY <2>1, <3>3 DEF Write!Timely
    <3>4. CASE pc = "write" BY <2>1, <3>4 DEF Write!Timely
    <3> QED BY <2>2, <3>1, <3>2, <3>3, <3>4
  <2>4. q.cmd = c /\ replies = <<>> /\ requests' = <<>>
    BY <1>1, <2>3, OneTaken DEF Write!OneUnderWay, Write!OneAsked, Write!OneAnswered
  <2>5. \A f \in DOMAIN open : Write!Accounted(f) BY <2>1 DEF Write!Timely
  <2> HIDE DEF q
  <2>6. ASSUME NEW r, replies' = Append(replies, r), r.cmd = c,
               \A f \in DOMAIN open' : Write!Accounted(f)'
        PROVE  Write!InTime'
    <3>1. Write!OneUnderWay(c)' BY <1>1, <2>3, <2>6, InTimeAnswers
    <3> QED BY <1>1, <1>3, <2>2, <2>3, <2>4, <2>6, <3>1 DEF Write!InTime, Write!Timely
  <2>7. CASE open' = open /\ c \in {"read", "write"}
    <3>1. \A f \in DOMAIN open' : Write!Accounted(f)' BY <1>1, <2>3, <2>5, <2>7 DEF Write!Accounted
    <3>2. \E r : replies' = Append(replies, r) /\ r.cmd = c
      <4>1. CASE Write!ModemFails(q) BY <2>4, <4>1 DEF Write!ModemFails, Write!Answer
      <4>2. CASE Write!ModemReads(q)
        <5>1. PICK b : replies' = Append(replies, [cmd |-> "read", fd |-> q.fd, err |-> 0, n |-> Len(b), body |-> b])
          BY <4>2 DEF Write!ModemReads, Write!Answer
        <5>2. q.cmd = "read" BY <4>2 DEF Write!ModemReads
        <5> QED BY <2>4, <5>1, <5>2
      <4>3. CASE Write!ModemWrites(q)
        <5>1. PICK n : replies' = Append(replies, [cmd |-> "write", fd |-> q.fd, err |-> 0, n |-> n, body |-> <<>>])
          BY <4>3 DEF Write!ModemWrites, Write!Answer
        <5>2. q.cmd = "write" BY <4>3 DEF Write!ModemWrites
        <5> QED BY <2>4, <5>1, <5>2
      <4> QED BY <1>1, <2>4, <2>7, <4>1, <4>2, <4>3 DEF q, Write!ModemHasNone, Write!ModemOpens, Write!ModemCloses
    <3> QED BY <2>6, <3>1, <3>2
  <2>8. CASE c = "open" /\ (Write!ModemFails(q) \/ Write!ModemHasNone(q))
    <3> DEFINE r == [cmd |-> "open", fd |-> 0, err |-> 1, n |-> 0, body |-> <<>>]
    <3>1. r.cmd = c BY <2>8
    <3>2. replies' = Append(replies, r) /\ open' = open
      BY <2>4, <2>8 DEF Write!ModemFails, Write!ModemHasNone, Write!Answer
    <3> HIDE DEF r
    <3>3. \A f \in DOMAIN open' : Write!Accounted(f)' BY <1>1, <2>3, <2>4, <2>5, <2>8, <3>2 DEF Write!Accounted
    <3> QED BY <2>6, <3>1, <3>2, <3>3
  <2>9. CASE c = "open" /\ Write!ModemOpens(q)
    <3> DEFINE r == [cmd |-> "open", fd |-> Len(open'), err |-> 0, n |-> 0, body |-> <<>>]
    <3>1. r.cmd = c /\ r.fd = Len(open') /\ r.err = 0 BY <2>9
    <3>2. replies' = Append(replies, r) /\ open' = Append(open, q.path) BY <2>9 DEF Write!ModemOpens, Write!Answer
    <3> HIDE DEF r
    <3>3. /\ DOMAIN open' = 1 .. Len(open) + 1 /\ DOMAIN open = 1 .. Len(open) /\ Len(open) \in Nat
          /\ Len(open') = Len(open) + 1 /\ \A f \in 1 .. Len(open) : open'[f] = open[f]
      BY <2>1, <3>2, QueueAppend, QueueDomain
    <3>4. replies' # <<>> /\ Head(replies') = r BY <1>1, <2>3, <3>1, <3>2, InTimeAnswers
    <3>5. ASSUME NEW f \in DOMAIN open' PROVE Write!Accounted(f)'
      <4>1. CASE f \in DOMAIN open
        <5>1. open[f] = "closed" BY <2>3, <2>4, <2>5, <2>9, <4>1 DEF Write!Accounted
        <5>2. open'[f] = "closed" BY <3>3, <4>1, <5>1
        <5> QED BY <5>2 DEF Write!Accounted
      <4>2. CASE f \notin DOMAIN open
        <5>1. f = Len(open') BY <3>3, <4>2
        <5> QED BY <1>1, <2>3, <2>9, <3>1, <3>4, <5>1 DEF Write!Accounted
      <4> QED BY <4>1, <4>2
    <3> QED BY <2>6, <3>1, <3>2, <3>5
  <2>10. CASE c = "close" /\ Write!ModemCloses(q)
    <3> DEFINE r == [cmd |-> "close", fd |-> q.fd, err |-> 0, n |-> 0, body |-> <<>>]
    <3>1. r.cmd = c BY <2>10
    <3>2. replies' = Append(replies, r) /\ open' = [open EXCEPT ![q.fd] = "closed"]
      BY <2>10 DEF Write!ModemCloses, Write!Answer
    <3> HIDE DEF r
    <3>3. q.fd = fd BY <1>1, <2>1, <2>3, <2>10 DEF Write!Timely, q
    <3>4. ASSUME NEW f \in DOMAIN open' PROVE open'[f] = "closed"
      <4>1. f \in DOMAIN open BY <3>2
      <4>2. f = fd \/ open[f] = "closed" BY <2>3, <2>4, <2>5, <2>10, <4>1 DEF Write!Accounted
      <4> QED BY <3>2, <3>3, <4>1, <4>2
    <3>5. \A f \in DOMAIN open' : Write!Accounted(f)' BY <3>4 DEF Write!Accounted
    <3> QED BY <2>6, <3>1, <3>2, <3>5
  <2> QED BY <1>1, <2>3, <2>4, <2>7, <2>8, <2>9, <2>10 DEF q, Write!ModemFails, Write!ModemHasNone,
     Write!ModemOpens, Write!ModemReads, Write!ModemWrites, Write!ModemCloses
<1> QED BY <1>2, <1>3 DEF Write!InTime

LEMMA WriteTimely ==
  ASSUME Write!InTime, Write!IInv, [Write!Next]_(Write!vars) PROVE Write!InTime'
<1>1. CASE Write!Next
  <2>1. CASE Write!TickEscapes BY <2>1, WriteMisses DEF Write!TickEscapes
  <2> QED BY <1>1, <2>1, WriteTimelyFirst, WriteTimelyOpened, WriteTimelyNone, WriteTimelyBlock, WriteTimelyClosed,
         WriteTimelyOpenedW, WriteTimelyPart, WriteTimelyClosedW, WriteTimelyModem DEF Write!Next, Write!Client
<1>2. CASE UNCHANGED Write!vars
  <2>1. UNCHANGED <<requests, replies, open, timeouts, pc, fd>>
    BY <1>2 DEF Write!vars, Write!chanvars, Write!readvars
  <2>2. /\ \A c : Write!OneUnderWay(c)' <=> Write!OneUnderWay(c)
        /\ Write!Quiet => Write!Quiet'
        /\ \A f : Write!Accounted(f)' <=> Write!Accounted(f)
    BY <2>1 DEF Write!OneUnderWay, Write!OneAsked, Write!OneAnswered, Write!One, Write!Quiet, Write!Accounted
  <2> QED BY <2>1, <2>2 DEF Write!InTime, Write!Timely
<1> QED BY <1>1, <1>2

LEMMA WriteCloses == ASSUME Write!InTime PROVE Write!DescriptorsClosed
BY DEF Write!InTime, Write!Timely, Write!Accounted, Write!DescriptorsClosed

-----------------------------------------------------------------------------
(* F3!: the programs that raise the message masks, with answers in time.   *)

LEMMA F3Way ==
  /\ F3!Quiet <=> Write!Quiet
  /\ F3!Quiet' <=> (requests' = <<>> /\ replies' = <<>>)
  /\ F3!OnePending => \E c : Write!OneUnderWay(c)
  /\ F3!OnePending <=> \/ Write!One(requests) /\ replies = <<>>
                       \/ requests = <<>> /\ Write!One(replies)
  /\ \A c : Write!OneAsked(c)' => F3!OnePending'
  /\ requests' = <<>> /\ Write!One(replies)' => F3!OnePending'
  /\ \A c, r : F3!Receive(c, r) => Write!Receive(c, r)
  /\ F3!NoAnswer => Write!NoAnswer
  /\ \A q : F3!Queue(q) <=> Client!Queue(q)
BY DEF F3!OnePending, F3!One, F3!Quiet, F3!Receive, F3!NoAnswer, F3!Queue, Client!Queue,
       Write!OneUnderWay, Write!OneAsked, Write!OneAnswered, Write!One, Write!Quiet,
       Write!Receive, Write!NoAnswer

\* Each probe is of a range of the arguments, and the one after a set gets
\* the range that was set.
LEMMA ProbeIs ==
  ASSUME ConstantsAssumption, NEW ranges \in Argv, NEW i \in 1 .. 3 * Len(ranges)
  PROVE  /\ F3!Probes(ranges)[i] =
              IF i % 3 = 2 THEN F3!set_mask(ranges[(i + 2) \div 3], F3!Level)
              ELSE F3!get_mask(ranges[(i + 2) \div 3])
         /\ F3!Probes(ranges)[i].sub = IF i % 3 = 2 THEN "set" ELSE "get"
         /\ F3!Probes(ranges)[i].level = IF i % 3 = 2 THEN F3!Level ELSE 0
         /\ F3!Probes(ranges)[i].lo = ranges[(i + 2) \div 3][1]
         /\ F3!Probes(ranges)[i].hi = ranges[(i + 2) \div 3][2]
<1>1. F3!Probes(ranges)[i] =
        IF i % 3 = 2 THEN F3!set_mask(ranges[(i + 2) \div 3], F3!Level)
        ELSE F3!get_mask(ranges[(i + 2) \div 3])
  BY DEF F3!Probes
<1> QED BY <1>1 DEF F3!set_mask, F3!get_mask, F3!Request

LEMMA ThirdAfter ==
  ASSUME NEW i \in Nat, i > 1, (i - 1) % 3 = 2
  PROVE  i % 3 = 0 /\ (i + 2) \div 3 = ((i - 1) + 2) \div 3
OBVIOUS

LEMMA ProbeAfter ==
  ASSUME ConstantsAssumption, NEW ranges \in Argv, NEW i \in 1 .. 3 * Len(ranges),
         i > 1, F3!Probes(ranges)[i - 1].sub = "set"
  PROVE  /\ F3!Probes(ranges)[i].sub = "get"
         /\ F3!Probes(ranges)[i].lo = F3!Probes(ranges)[i - 1].lo
         /\ F3!Probes(ranges)[i].hi = F3!Probes(ranges)[i - 1].hi
<1>1. Len(ranges) \in Nat BY DEF ConstantsAssumption
<1>2. i - 1 \in 1 .. 3 * Len(ranges) BY <1>1
<1>3. (i - 1) % 3 = 2 BY <1>2, ProbeIs
<1>4. i % 3 = 0 /\ (i + 2) \div 3 = ((i - 1) + 2) \div 3
  <2>1. i \in Nat /\ i > 1 BY <1>1
  <2> QED BY ONLY <1>3, <2>1, ThirdAfter
<1>5. PICK d : d = (i + 2) \div 3 OBVIOUS
<1>6. i % 3 # 2 BY <1>4
<1>7. F3!Probes(ranges)[i].sub = "get" /\ F3!Probes(ranges)[i].lo = ranges[d][1] /\ F3!Probes(ranges)[i].hi = ranges[d][2]
  BY <1>5, <1>6, ProbeIs
<1>8. F3!Probes(ranges)[i - 1].lo = ranges[d][1] /\ F3!Probes(ranges)[i - 1].hi = ranges[d][2]
  <2>1. PICK j : j = i - 1 OBVIOUS
  <2>2. j \in 1 .. 3 * Len(ranges) /\ (j + 2) \div 3 = d BY <1>2, <1>4, <1>5, <2>1
  <2>3. F3!Probes(ranges)[j].lo = ranges[d][1] /\ F3!Probes(ranges)[j].hi = ranges[d][2] BY <2>2, ProbeIs
  <2> QED BY <2>1, <2>3
<1> QED BY <1>7, <1>8

LEMMA F3TimelyStart == ASSUME F3!Init, ConstantsAssumption PROVE F3!InTime
<1>1. requests = <<>> /\ replies = <<>> /\ timeouts = 0 /\ pc = "send" /\ reports = <<>>
  BY DEF F3!Init, F3!ChannelInit
<1>2. program = "f3probe" => argv \in Argv /\ todo = F3!Probes(argv) BY DEF F3!Init
<1>3. F3!Queue(reports) /\ Len(reports) = 0 /\ DOMAIN reports = {} BY <1>1 DEF F3!Queue
<1>4. F3!ReportsAreTheirOwn BY <1>3 DEF F3!ReportsAreTheirOwn
<1>5. ASSUME program = "f3probe" PROVE F3!OnCourse
  <2>1. argv \in Seq(Nat \X Nat) /\ Len(argv) \in Nat BY <1>2, <1>5 DEF ConstantsAssumption
  <2>2. Len(todo) = 3 * Len(argv) /\ DOMAIN todo = 1 .. 3 * Len(argv) BY <1>2, <1>5, <2>1 DEF F3!Probes
  <2>3. \A i \in DOMAIN todo : 0 + i = i BY <2>1, <2>2
  <2> QED BY <1>2, <1>3, <1>5, <2>1, <2>2, <2>3 DEF F3!OnCourse
<1> QED BY <1>1, <1>3, <1>4, <1>5 DEF F3!InTime, F3!Timely, F3!Quiet

\* Once an answer was late nothing is claimed.
LEMMA F3Late == ASSUME timeouts' \in Nat, timeouts' # 0 PROVE F3!InTime'
BY DEF F3!InTime, F3!ReportsAreTheirOwn

LEMMA F3Kept ==
  ASSUME UNCHANGED <<program, argv, reports, timeouts>>
  PROVE  /\ F3!ReportsAreTheirOwn => F3!ReportsAreTheirOwn'
         /\ F3!Queue(reports) => F3!Queue(reports)'
         /\ F3!OnCourse /\ UNCHANGED <<todo, mask>> => F3!OnCourse'
BY DEF F3!ReportsAreTheirOwn, F3!IsAfter, F3!Queue, F3!OnCourse, F3!Raises, F3!AllIds

LEMMA F3TimelyAsks == ASSUME F3!InTime, F3!Asks PROVE F3!InTime'
<1>1. /\ pc \in {"send", "lower"} /\ todo # <<>> /\ requests' = Append(requests, Head(todo))
      /\ pc' = IF pc = "send" THEN "wait" ELSE "lowered"
      /\ UNCHANGED <<replies, timeouts, program, argv, todo, reports, mask>>
  BY DEF F3!Asks, F3!Send
<1>2. SUFFICES ASSUME timeouts = 0 PROVE F3!InTime' BY <1>1, F3Late DEF F3!InTime
<1>3. F3!Timely /\ F3!ReportsAreTheirOwn BY <1>2 DEF F3!InTime
<1>4. Write!Quiet BY <1>1, <1>3, F3Way DEF F3!Timely
<1>5. PICK q : q = Head(todo) OBVIOUS
<1>6. Write!OneAsked(q.cmd)' /\ Head(requests') = q /\ replies' = <<>>
  BY <1>1, <1>4, <1>5, InTimeSends
<1>7. F3!Pending' BY <1>1, <1>5, <1>6, F3Way DEF F3!Pending
<1>8. F3!Timely' BY <1>1, <1>3, <1>7, F3Kept DEF F3!Timely
<1> QED BY <1>1, <1>2, <1>3, <1>8, F3Kept DEF F3!InTime

\* What is taken answers what was asked.
LEMMA F3Takes ==
  ASSUME F3!Timely, pc \in {"wait", "lowered"}, NEW r, F3!Receive("msg", r), UNCHANGED requests
  PROVE  F3!AnswerIs(Head(todo), r) /\ todo # <<>> /\ F3!Quiet'
<1>1. F3!Pending BY DEF F3!Timely
<1>2. PICK c : Write!OneUnderWay(c) BY <1>1, F3Way DEF F3!Pending
<1>3. PICK m : m = "msg" OBVIOUS
<1>4. Write!Receive(m, r) BY <1>3, F3Way
<1>5. requests = <<>> /\ replies # <<>> /\ r = Head(replies) /\ replies' = <<>>
  BY ONLY <1>2, <1>4, InTimeReceives
<1> QED BY <1>1, <1>5, F3Way DEF F3!Pending

\* The report of an answer in time is that of its range, and after a set that
\* was taken it shows the level.
LEMMA F3Reports ==
  ASSUME F3!ReportsAreTheirOwn, F3!Timely, F3!IInv, ConstantsAssumption, timeouts = 0,
         pc \in {"wait", "lowered"}, todo # <<>>, UNCHANGED <<program, argv, timeouts>>,
         NEW r, F3!AnswerIs(Head(todo), r),
         reports' = Append(reports, [asked |-> Head(todo), got |-> r])
  PROVE  /\ F3!ReportsAreTheirOwn' /\ F3!Queue(reports)'
         /\ Len(reports') = Len(reports) + 1 /\ DOMAIN reports' = 1 .. Len(reports) + 1 /\ Len(reports) \in Nat
         /\ DOMAIN reports = 1 .. Len(reports)
         /\ \A i \in 1 .. Len(reports) : reports'[i] = reports[i]
         /\ reports'[Len(reports) + 1].asked = Head(todo) /\ reports'[Len(reports) + 1].got = r
<1> DEFINE e == [asked |-> Head(todo), got |-> r]
<1>1. PICK n : n = Len(reports) OBVIOUS
<1>2. e.asked = Head(todo) /\ e.got = r OBVIOUS
<1> HIDE DEF e
<1>3. Client!Queue(reports) BY F3Way DEF F3!Timely
<1>4. /\ Client!Queue(reports') /\ n \in Nat /\ Len(reports') = n + 1 /\ DOMAIN reports' = 1 .. n + 1
      /\ DOMAIN reports = 1 .. n
      /\ \A i \in 1 .. n : reports'[i] = reports[i]
      /\ reports'[n + 1] = e
  <2>1. reports' = Append(reports, e) BY DEF e
  <2> QED BY <1>1, <1>3, <2>1, QueueAppend, QueueDomain
<1>5. F3!Queue(reports)' BY <1>4 DEF F3!Queue, Client!Queue
<1>6. ASSUME NEW i \in 1 .. n + 1
      PROVE  /\ <<reports'[i].got.sub, reports'[i].got.lo, reports'[i].got.hi>> =
                  <<reports'[i].asked.sub, reports'[i].asked.lo, reports'[i].asked.hi>>
             /\ F3!IsAfter(i)' /\ reports'[i - 1].got.err = 0 /\ reports'[i].got.err = 0 =>
                  reports'[i].got.levels = {F3!Level : s \in reports'[i].asked.lo .. reports'[i].asked.hi}
  <2>1. CASE i \in 1 .. n
    <3>1. reports'[i] = reports[i] /\ i \in DOMAIN reports BY <1>4, <2>1
    <3>2. i > 1 => reports'[i - 1] = reports[i - 1] BY <1>4, <2>1
    <3>3. F3!IsAfter(i)' => F3!IsAfter(i) /\ i > 1 BY <3>1, <3>2 DEF F3!IsAfter
    <3>4. /\ <<reports[i].got.sub, reports[i].got.lo, reports[i].got.hi>> =
               <<reports[i].asked.sub, reports[i].asked.lo, reports[i].asked.hi>>
          /\ F3!IsAfter(i) /\ reports[i - 1].got.err = 0 /\ reports[i].got.err = 0 =>
               reports[i].got.levels = {F3!Level : s \in reports[i].asked.lo .. reports[i].asked.hi}
      BY <3>1 DEF F3!ReportsAreTheirOwn
    <3> QED BY <3>1, <3>2, <3>3, <3>4
  <2>2. CASE i = n + 1
    <3>1. reports'[i].asked = Head(todo) /\ reports'[i].got = r BY <1>2, <1>4, <2>2
    <3>2. <<r.sub, r.lo, r.hi>> = <<Head(todo).sub, Head(todo).lo, Head(todo).hi>> BY DEF F3!AnswerIs
    <3>3. ASSUME F3!IsAfter(i)', reports'[i - 1].got.err = 0, r.err = 0
          PROVE  r.levels = {F3!Level : s \in Head(todo).lo .. Head(todo).hi}
      <4>1. /\ program = "f3probe" /\ n \in 1 .. n /\ i - 1 = n /\ n > 0 /\ reports'[n] = reports[n]
            /\ Head(todo).sub = "get" /\ reports[n].asked.sub = "set"
        BY <1>4, <2>2, <3>1, <3>3 DEF F3!IsAfter
      <4>2. F3!Queue(todo) /\ argv \in Argv BY <4>1 DEF F3!IInv
      <4>3. Head(todo) = todo[1] /\ 1 \in DOMAIN todo /\ DOMAIN todo = 1 .. Len(todo) /\ Len(todo) \in Nat
            /\ Len(todo) > 0
        BY <4>2, F3Way, QueueTail, QueueDomain
      <4>4. pc = "wait" BY <4>1, <4>3 DEF F3!Timely
      <4>5. F3!OnCourse BY <4>1, <4>4 DEF F3!Timely
      <4>6. /\ reports[n].asked = F3!Probes(argv)[n] /\ todo[1] = F3!Probes(argv)[n + 1]
            /\ n + Len(todo) = 3 * Len(argv)
        BY <1>1, <1>4, <4>1, <4>3, <4>5 DEF F3!OnCourse
      <4>7. n + 1 \in 1 .. 3 * Len(argv) /\ n + 1 > 1 /\ (n + 1) - 1 = n BY <1>4, <4>1, <4>3, <4>6
      <4>8. /\ F3!Probes(argv)[n + 1].lo = F3!Probes(argv)[n].lo
            /\ F3!Probes(argv)[n + 1].hi = F3!Probes(argv)[n].hi
        <5>1. PICK m : m = n + 1 OBVIOUS
        <5>2. m \in 1 .. 3 * Len(argv) /\ m > 1 /\ m - 1 = n BY <4>7, <5>1
        <5>3. F3!Probes(argv)[m - 1].sub = "set" BY <4>1, <4>6, <5>2
        <5> QED BY <4>2, <5>1, <5>2, <5>3, ProbeAfter
      <4>9. F3!Raises(reports[n].asked)
        BY <1>1, <1>4, <3>3, <4>1, <4>5 DEF F3!OnCourse
      <4>10. \A s \in Head(todo).lo .. Head(todo).hi : mask[s] = F3!Level
        BY <4>3, <4>6, <4>8, <4>9 DEF F3!Raises
      <4>11. r.levels = {mask[s] : s \in Head(todo).lo .. Head(todo).hi}
        BY <3>3, <4>1 DEF F3!AnswerIs
      <4> QED BY <4>10, <4>11
    <3> QED BY <3>1, <3>2, <3>3
  <2>3. i \in 1 .. n \/ i = n + 1 BY <1>4
  <2> QED BY ONLY <2>1, <2>2, <2>3
<1>7. F3!ReportsAreTheirOwn' BY <1>4, <1>6 DEF F3!ReportsAreTheirOwn
<1> QED BY <1>1, <1>2, <1>4, <1>5, <1>7

\* The probe goes on with what is left of its requests.
LEMMA F3Left ==
  ASSUME F3!IInv, program = "f3probe", todo # <<>>, todo' = Tail(todo) \o <<>>
  PROVE  /\ Head(todo) = todo[1] /\ 1 \in DOMAIN todo /\ Len(todo) \in Nat /\ Len(todo) > 0
         /\ Len(todo') = Len(todo) - 1 /\ DOMAIN todo' = 1 .. Len(todo) - 1
         /\ \A i \in DOMAIN todo' : i + 1 \in DOMAIN todo /\ todo'[i] = todo[i + 1]
<1>1. F3!Queue(todo) BY DEF F3!IInv
<1>2. Client!Queue(todo) BY <1>1, F3Way
<1>3. /\ Client!Queue(Tail(todo)) /\ Len(Tail(todo)) = Len(todo) - 1
      /\ DOMAIN todo = 1 .. Len(todo) /\ Len(todo) \in Nat
      /\ DOMAIN Tail(todo) = 1 .. Len(todo) - 1
      /\ \A i \in 1 .. Len(todo) - 1 : i + 1 \in 1 .. Len(todo) /\ Tail(todo)[i] = todo[i + 1]
      /\ Head(todo) = todo[1] /\ 1 \in 1 .. Len(todo)
  BY <1>2, QueueTail, QueueDomain
<1>4. todo' = Tail(todo)
  <2> DEFINE S == {Tail(todo)[i] : i \in 1 .. Len(Tail(todo))}
  <2>1. Tail(todo) \in Seq(S) BY <1>3, QueueIsSeq
  <2> QED BY <2>1, ConcatEmptySeq
<1> QED BY <1>3, <1>4

LEMMA F3TimelyAnswered ==
  ASSUME F3!InTime, F3!IInv, F3!Answered, ConstantsAssumption PROVE F3!InTime'
<1>1. /\ pc \in {"wait", "lowered"} /\ UNCHANGED <<requests, program, argv, mask>>
      /\ \/ \E r : F3!Receive("msg", r) /\ F3!Takes(r) /\ UNCHANGED timeouts
         \/ F3!NoAnswer
  BY DEF F3!Answered
<1>2. CASE F3!NoAnswer
  <2>1. timeouts' \in Nat /\ timeouts' # 0 BY <1>2, InTimeMisses, F3Way DEF F3!InTime
  <2> QED BY <2>1, F3Late
<1>3. CASE \E r : F3!Receive("msg", r) /\ F3!Takes(r) /\ UNCHANGED timeouts
  <2>1. PICK r : F3!Receive("msg", r) /\ F3!Takes(r) /\ UNCHANGED timeouts BY <1>3
  <2>2. SUFFICES ASSUME timeouts = 0 PROVE F3!InTime' BY <2>1, F3Late DEF F3!InTime
  <2>3. F3!Timely /\ F3!ReportsAreTheirOwn BY <2>2 DEF F3!InTime
  <2>4. F3!AnswerIs(Head(todo), r) /\ todo # <<>> /\ F3!Quiet' BY <1>1, <2>1, <2>3, F3Takes
  <2>5. /\ reports' = Append(reports, [asked |-> Head(todo), got |-> r])
        /\ todo' = Tail(todo) \o F3!ThenRaises(r)
        /\ pc' = IF pc = "wait" THEN "send" ELSE "lower"
    BY <2>1 DEF F3!Takes
  <2>6. PICK n : n = Len(reports) OBVIOUS
  <2>7. /\ F3!ReportsAreTheirOwn' /\ F3!Queue(reports)'
        /\ Len(reports') = n + 1 /\ DOMAIN reports' = 1 .. n + 1 /\ n \in Nat
        /\ DOMAIN reports = 1 .. n
        /\ \A i \in 1 .. n : reports'[i] = reports[i]
        /\ reports'[n + 1].asked = Head(todo) /\ reports'[n + 1].got = r
    BY <1>1, <2>1, <2>2, <2>3, <2>4, <2>5, <2>6, F3Reports
  <2>8. ASSUME program = "f3probe", pc = "wait" PROVE F3!OnCourse'
    <3>1. todo' = Tail(todo) \o <<>> BY <2>5, <2>8 DEF F3!ThenRaises
    <3>2. /\ Head(todo) = todo[1] /\ 1 \in DOMAIN todo /\ Len(todo) \in Nat /\ Len(todo) > 0
          /\ Len(todo') = Len(todo) - 1 /\ DOMAIN todo' = 1 .. Len(todo) - 1
          /\ \A i \in DOMAIN todo' : i + 1 \in DOMAIN todo /\ todo'[i] = todo[i + 1]
      BY <2>4, <2>8, <3>1, F3Left
    <3>3. F3!OnCourse /\ argv \in Argv BY <2>3, <2>8 DEF F3!Timely, F3!IInv
    <3>4. argv' = argv /\ F3!Probes(argv)' = F3!Probes(argv) BY <1>1 DEF F3!Probes, F3!set_mask, F3!get_mask, F3!Request
    <3>5. Len(reports') + Len(todo') = 3 * Len(argv) /\ n + 1 \in 1 .. 3 * Len(argv)
      <4>1. n + Len(todo) = 3 * Len(argv) BY <2>6, <3>3 DEF F3!OnCourse
      <4>2. Len(argv) \in Nat BY <3>3 DEF ConstantsAssumption
      <4>3. PICK t : t = Len(todo) OBVIOUS
      <4>4. PICK a : a = Len(argv) OBVIOUS
      <4>5. n \in Nat /\ t \in Nat /\ a \in Nat /\ t > 0 /\ n + t = 3 * a BY <2>7, <3>2, <4>1, <4>2, <4>3, <4>4
      <4>6. (n + 1) + (t - 1) = 3 * a /\ n + 1 \in 1 .. 3 * a BY ONLY <4>5
      <4>7. Len(reports') = n + 1 /\ Len(todo') = t - 1 BY <2>7, <3>2, <4>3
      <4> QED BY <4>4, <4>6, <4>7
    <3>6. todo[1] = F3!Probes(argv)[n + 1] BY <2>6, <3>2, <3>3 DEF F3!OnCourse
    <3>7. \A i \in DOMAIN reports' : reports'[i].asked = F3!Probes(argv)[i]
      <4> SUFFICES ASSUME NEW i \in DOMAIN reports' PROVE reports'[i].asked = F3!Probes(argv)[i] OBVIOUS
      <4>1. CASE i \in 1 .. n BY <2>7, <3>3, <4>1 DEF F3!OnCourse
      <4>2. CASE i = n + 1 BY <2>7, <3>2, <3>6, <4>2
      <4>3. i \in 1 .. n \/ i = n + 1 BY <2>7
      <4> QED BY <4>1, <4>2, <4>3
    <3>8. \A i \in DOMAIN todo' : todo'[i] = F3!Probes(argv)[Len(reports') + i]
      <4> SUFFICES ASSUME NEW i \in DOMAIN todo' PROVE todo'[i] = F3!Probes(argv)[Len(reports') + i] OBVIOUS
      <4>1. todo'[i] = todo[i + 1] /\ i + 1 \in DOMAIN todo /\ i \in Nat BY <3>2
      <4>2. todo[i + 1] = F3!Probes(argv)[n + (i + 1)] BY <2>6, <3>3, <4>1 DEF F3!OnCourse
      <4>3. n + (i + 1) = Len(reports') + i BY <2>7, <4>1
      <4> QED BY <4>1, <4>2, <4>3
    <3>9. ASSUME Head(todo).sub = "set", r.err = 0 PROVE F3!Raises(Head(todo))
      <4>1. PICK m : m = n + 1 OBVIOUS
      <4>2. m \in 1 .. 3 * Len(argv) /\ Head(todo) = F3!Probes(argv)[m] BY <3>2, <3>5, <3>6, <4>1
      <4>3. Head(todo).level = F3!Level
        <5>1. /\ Head(todo).sub = IF m % 3 = 2 THEN "set" ELSE "get"
              /\ Head(todo).level = IF m % 3 = 2 THEN F3!Level ELSE 0
          BY <3>3, <4>2, ProbeIs
        <5> QED BY <3>9, <5>1
      <4> QED BY <2>4, <2>8, <3>9, <4>3 DEF F3!AnswerIs
    <3>10. \A q : F3!Raises(q) => F3!Raises(q)' BY <1>1 DEF F3!Raises, F3!AllIds
    <3>11. \A i \in DOMAIN reports' :
             i = Len(reports') /\ reports'[i].asked.sub = "set" /\ reports'[i].got.err = 0 =>
               F3!Raises(reports[i].asked)'
      <4> SUFFICES ASSUME reports'[n + 1].asked.sub = "set", reports'[n + 1].got.err = 0
                   PROVE  F3!Raises(reports[n + 1].asked)'
        BY <2>7
      <4>1. F3!Raises(Head(todo)) BY <2>7, <3>9
      <4>2. \A s \in Head(todo).lo .. Head(todo).hi : s \in F3!AllIds /\ mask[s] = F3!Level
        BY <4>1 DEF F3!Raises
      <4>3. mask' = mask /\ F3!AllIds' = F3!AllIds BY <1>1 DEF F3!AllIds
      <4> QED BY <2>7, <4>2, <4>3 DEF F3!Raises
    <3> QED BY <3>4, <3>5, <3>7, <3>8, <3>11 DEF F3!OnCourse
  <2>9. ASSUME program = "f3probe", pc = "lowered" PROVE \A i \in DOMAIN todo' : todo'[i].sub = "set"
    <3>1. todo' = Tail(todo) \o <<>> BY <2>5, <2>9 DEF F3!ThenRaises
    <3>2. \A i \in DOMAIN todo' : i + 1 \in DOMAIN todo /\ todo'[i] = todo[i + 1]
      BY <2>4, <2>9, <3>1, F3Left
    <3> QED BY <2>3, <2>9, <3>2 DEF F3!Timely
  <2>10. F3!Timely' BY <1>1, <2>4, <2>5, <2>7, <2>8, <2>9 DEF F3!Timely
  <2> QED BY <2>1, <2>2, <2>7, <2>10 DEF F3!InTime
<1> QED BY <1>1, <1>2, <1>3

\* When the time is over the ranges are lowered, with sets alone.
LEMMA F3TimelyListened ==
  ASSUME F3!InTime, F3!IInv, F3!Listened, ConstantsAssumption PROVE F3!InTime'
<1>1. /\ pc = "listen" /\ UNCHANGED <<requests, replies, timeouts, program, argv, reports, mask>>
      /\ IF program = "f3probe" THEN pc' = "lower" /\ todo' = F3!Lowers(argv)
         ELSE pc' = "end" /\ UNCHANGED todo
  BY DEF F3!Listened, F3!chanvars
<1>2. SUFFICES ASSUME timeouts = 0 PROVE F3!InTime' BY <1>1, F3Late DEF F3!InTime
<1>3. F3!Timely /\ F3!ReportsAreTheirOwn BY <1>2 DEF F3!InTime
<1>4. F3!Quiet' BY <1>1, <1>3, F3Way DEF F3!Timely, F3!Quiet
<1>5. ASSUME program = "f3probe" PROVE \A i \in DOMAIN todo' : todo'[i].sub = "set"
  BY <1>1, <1>5 DEF F3!Lowers, F3!set_mask, F3!Request
<1>6. F3!Timely' BY <1>1, <1>3, <1>4, <1>5, F3Kept DEF F3!Timely
<1> QED BY <1>1, <1>2, <1>3, <1>6, F3Kept DEF F3!InTime

\* The modem does what the program waits for: a get shows the levels, a set
\* that is taken leaves its range at the level, and a get changes none.
LEMMA F3TimelyModem ==
  ASSUME F3!InTime, F3!IInv, F3!ModemDoes, ConstantsAssumption PROVE F3!InTime'
<1>0. PICK q : q = Head(requests) OBVIOUS
<1>1. /\ requests # <<>> /\ requests' = Tail(requests)
      /\ UNCHANGED <<timeouts, program, argv, pc, todo, reports>>
      /\ \/ /\ q.sub \in {"ranges", "set_all"} \/ q.lo .. q.hi \subseteq F3!AllIds
            /\ mask' = [s \in F3!AllIds |->
                 IF q.sub \in {"set", "set_all"} /\ (q.sub = "set_all" \/ s \in q.lo .. q.hi)
                   THEN q.level ELSE mask[s]]
            /\ replies' = Append(replies, F3!Reply(q, 0))
         \/ /\ replies' = Append(replies, F3!Reply(q, 1))
            /\ UNCHANGED mask
  BY <1>0 DEF F3!ModemDoes
<1>2. SUFFICES ASSUME timeouts = 0 PROVE F3!InTime' BY <1>1, F3Late DEF F3!InTime
<1>3. F3!Timely /\ F3!ReportsAreTheirOwn BY <1>2 DEF F3!InTime
<1>4. F3!ReportsAreTheirOwn' /\ F3!Queue(reports)' BY <1>1, <1>3, F3Kept DEF F3!Timely
<1>5. CASE pc \in {"wait", "lowered"}
  <2>1. F3!Pending BY <1>3, <1>5 DEF F3!Timely
  <2>2. Write!One(requests) /\ replies = <<>> /\ q = Head(todo) /\ todo # <<>>
    BY <1>0, <1>1, <2>1, F3Way DEF F3!Pending
  <2>3. PICK r : /\ replies' = Append(replies, r)
                 /\ r = F3!Reply(q, 0) \/ (r = F3!Reply(q, 1) /\ UNCHANGED mask)
                 /\ r.err = 0 => r = F3!Reply(q, 0)
    <3>1. F3!Reply(q, 1).err = 1 BY DEF F3!Reply
    <3> QED BY <1>1, <3>1
  <2>4. requests' = <<>> /\ replies' = <<r>> /\ Write!One(replies)' /\ Head(replies') = r
    BY <1>1, <2>2, <2>3, OneTaken, OneAdded
  <2>5. /\ r.sub = q.sub /\ r.lo = q.lo /\ r.hi = q.hi
        /\ r.levels = IF q.sub = "get" /\ r.err = 0 THEN {mask[s] : s \in q.lo .. q.hi} ELSE {}
    <3>0. PICK levels : levels = {mask[s] : s \in q.lo .. q.hi} OBVIOUS
    <3>1. ASSUME NEW e
          PROVE  /\ F3!Reply(q, e).sub = q.sub /\ F3!Reply(q, e).lo = q.lo /\ F3!Reply(q, e).hi = q.hi
                 /\ F3!Reply(q, e).err = e
                 /\ F3!Reply(q, e).levels =
                      IF q.sub = "get" /\ e = 0 THEN levels ELSE {}
      BY <3>0 DEF F3!Reply
    <3>2. r.sub = q.sub /\ r.lo = q.lo /\ r.hi = q.hi BY ONLY <2>3, <3>1
    <3>3. r.levels = IF q.sub = "get" /\ r.err = 0 THEN levels ELSE {}
      <4>1. CASE r = F3!Reply(q, 0) BY ONLY <3>1, <4>1
      <4>2. CASE r = F3!Reply(q, 1) BY ONLY <3>1, <4>2
      <4> QED BY <2>3, <4>1, <4>2
    <3> QED BY <3>0, <3>2, <3>3
  <2>6. r.err = 0 =>
          /\ q.sub \in {"ranges", "set_all"} \/ q.lo .. q.hi \subseteq F3!AllIds
          /\ mask' = [s \in F3!AllIds |->
               IF q.sub \in {"set", "set_all"} /\ (q.sub = "set_all" \/ s \in q.lo .. q.hi)
                 THEN q.level ELSE mask[s]]
    <3>1. F3!Reply(q, 1).err = 1 /\ F3!Reply(q, 0).err = 0 BY DEF F3!Reply
    <3>2. ASSUME r.err = 0, replies' = Append(replies, F3!Reply(q, 1)) PROVE FALSE
      <4>1. PICK x : x = F3!Reply(q, 1) OBVIOUS
      <4>2. replies' = <<x>> BY <2>2, <3>2, <4>1, OneAdded
      <4>3. x = r BY <2>4, <4>2
      <4> QED BY <3>1, <3>2, <4>1, <4>3
    <3> QED BY <1>1, <3>2
  <2>7. program = "f3probe" /\ r.err = 0 /\ q.sub = "set" /\ q.level = F3!Level => F3!Raises(q)'
    BY <2>6 DEF F3!Raises, F3!AllIds
  <2>8. r.err = 0 /\ q.sub = "get" => r.levels = {mask'[s] : s \in q.lo .. q.hi}
    <3> SUFFICES ASSUME r.err = 0, q.sub = "get" PROVE r.levels = {mask'[s] : s \in q.lo .. q.hi} OBVIOUS
    <3>1. \A s \in q.lo .. q.hi : mask'[s] = mask[s] BY <2>6
    <3> QED BY <2>5, <3>1
  <2>9. F3!AnswerIs(q, r)' BY <1>1, <2>5, <2>7, <2>8 DEF F3!AnswerIs
  <2>10. F3!Pending' BY <1>1, <2>2, <2>4, <2>9, F3Way DEF F3!Pending, F3!AnswerIs
  <2>11. ASSUME program = "f3probe", pc = "wait" PROVE F3!OnCourse'
    <3>1. F3!OnCourse /\ argv \in Argv /\ F3!Queue(todo) BY <1>3, <2>11 DEF F3!Timely, F3!IInv
    <3>2. ASSUME NEW i \in DOMAIN reports, i = Len(reports), reports[i].asked.sub = "set", reports[i].got.err = 0
          PROVE  F3!Raises(reports[i].asked)'
      <4>1. F3!Raises(reports[i].asked) /\ reports[i].asked = F3!Probes(argv)[i] BY <3>1, <3>2 DEF F3!OnCourse
      <4>2. Head(todo) = todo[1] /\ 1 \in DOMAIN todo /\ Len(todo) \in Nat /\ Len(todo) > 0
        BY <2>2, <3>1, F3Way, QueueTail, QueueDomain
      <4>3. todo[1] = F3!Probes(argv)[i + 1] /\ i + Len(todo) = 3 * Len(argv)
        BY <3>1, <3>2, <4>2 DEF F3!OnCourse
      <4>4. i \in Nat /\ i > 0
        <5>1. Client!Queue(reports) BY <1>3, F3Way DEF F3!Timely
        <5>2. DOMAIN reports = 1 .. Len(reports) BY <5>1, QueueDomain
        <5> QED BY <3>2, <5>2
      <4>5. q.sub = "get"
        <5>1. PICK m : m = i + 1 OBVIOUS
        <5>2. m \in 1 .. 3 * Len(argv) /\ m > 1 /\ m - 1 = i BY <4>2, <4>3, <4>4, <5>1
        <5>3. F3!Probes(argv)[m - 1].sub = "set" BY <3>2, <4>1, <5>2
        <5>4. F3!Probes(argv)[m].sub = "get" BY <3>1, <5>2, <5>3, ProbeAfter
        <5> QED BY <2>2, <4>2, <4>3, <5>1, <5>4
      <4>6. \A s \in F3!AllIds : mask'[s] = mask[s]
        <5>1. CASE r.err = 0 BY <2>6, <4>5, <5>1
        <5>2. CASE UNCHANGED mask BY <5>2
        <5>3. r.err = 0 \/ UNCHANGED mask
          <6>1. F3!Reply(q, 0).err = 0 BY DEF F3!Reply
          <6> QED BY <2>3, <6>1
        <5> QED BY <5>1, <5>2, <5>3
      <4> QED BY <1>1, <4>1, <4>6 DEF F3!Raises, F3!AllIds
    <3>3. F3!Probes(argv)' = F3!Probes(argv) BY <1>1 DEF F3!Probes, F3!set_mask, F3!get_mask, F3!Request
    <3>4. (\A i \in DOMAIN reports : reports[i].asked = F3!Probes(argv)[i])'
      BY <1>1, <3>1, <3>3 DEF F3!OnCourse
    <3>5. (\A i \in DOMAIN todo : todo[i] = F3!Probes(argv)[Len(reports) + i])'
      BY <1>1, <3>1, <3>3 DEF F3!OnCourse
    <3>6. (Len(reports) + Len(todo) = 3 * Len(argv))' BY <1>1, <3>1 DEF F3!OnCourse
    <3>7. (\A i \in DOMAIN reports :
             i = Len(reports) /\ reports[i].asked.sub = "set" /\ reports[i].got.err = 0 =>
               F3!Raises(reports[i].asked))'
      BY <1>1, <3>2
    <3> QED BY <3>4, <3>5, <3>6, <3>7 DEF F3!OnCourse
  <2>12. F3!Timely' BY <1>1, <1>3, <1>4, <1>5, <2>10, <2>11 DEF F3!Timely
  <2> QED BY <1>1, <1>2, <1>4, <2>12 DEF F3!InTime
<1>6. CASE pc \notin {"wait", "lowered"}
  <2>1. pc \notin {"send", "listen", "lower", "end"} BY <1>1, <1>3 DEF F3!Timely, F3!Quiet
  <2>2. F3!Timely' BY <1>1, <1>4, <1>6, <2>1 DEF F3!Timely
  <2> QED BY <1>1, <1>2, <1>4, <2>2 DEF F3!InTime
<1> QED BY <1>5, <1>6

LEMMA F3Timely ==
  ASSUME F3!InTime, F3!IInv, [F3!Next]_(F3!vars), ConstantsAssumption PROVE F3!InTime'
<1>1. ASSUME UNCHANGED <<requests, replies, timeouts, program, argv, todo, reports, mask>>,
             \/ pc' = pc \/ pc' = "died"
             \/ pc = "send" /\ pc' \in {"end", "listen"}
             \/ pc = "lower" /\ pc' = "end"
      PROVE  F3!InTime'
  <2>1. SUFFICES ASSUME timeouts = 0 PROVE F3!InTime' BY <1>1, F3Late DEF F3!InTime
  <2>2. F3!Timely /\ F3!ReportsAreTheirOwn BY <2>1 DEF F3!InTime
  <2>3. F3!Quiet => F3!Quiet' BY <1>1 DEF F3!Quiet
  <2>4. F3!Pending => F3!Pending'
    BY <1>1 DEF F3!Pending, F3!OnePending, F3!One, F3!AnswerIs, F3!Raises, F3!AllIds
  <2>5. F3!Timely' BY <1>1, <2>2, <2>3, <2>4, F3Kept DEF F3!Timely
  <2> QED BY <1>1, <2>1, <2>2, <2>5, F3Kept DEF F3!InTime
<1>2. CASE F3!Raised BY <1>1, <1>2 DEF F3!Raised, F3!chanvars
<1>3. CASE F3!Lowered BY <1>1, <1>3 DEF F3!Lowered, F3!chanvars
<1>4. CASE F3!Ticked BY <1>1, <1>4 DEF F3!Ticked, F3!chanvars
<1>5. CASE UNCHANGED F3!vars BY <1>1, <1>5 DEF F3!vars, F3!maskvars, F3!chanvars
<1> QED BY <1>2, <1>3, <1>4, <1>5, F3TimelyAsks, F3TimelyAnswered, F3TimelyListened, F3TimelyModem DEF F3!Next

-----------------------------------------------------------------------------
(* The programs together.                                                  *)

InTimeIInv ==
  /\ running = "efswrite" => Write!InTime
  /\ running = "subdiff" => Diff!InTime
  /\ running = "diagwalk" => Walk!InTime
  /\ running = "log_masks" => Masks!InTime
  /\ running = "message_masks" => F3!InTime
  /\ running = "setting" => Setting!InTime
  /\ running = "bindprobe" => Bind!InTime
  /\ running = "sweep" => Sweep!InTime

\* A step of the family is one of the program that runs: the three that
\* OwnSteps leaves out.
LEMMA ReaderSteps ==
  ASSUME [Next]_vars
  PROVE  /\ running = "subdiff" => [Diff!Next]_(Diff!vars)
         /\ running = "diagwalk" => [Walk!Next]_(Walk!vars)
         /\ running = "log_masks" => [Masks!Next]_(Masks!vars)
<1>1. CASE Next BY <1>1 DEF Next
<1>2. CASE UNCHANGED vars
  <2> USE <1>2 DEF vars, channelVars, efsVars, pcVars, bufVars, writeVars, diffVars, shownVars, walkVars,
                   todoVars, masksVars, okVars, programVars, f3Vars, clientVars, triesVars, valueVars,
                   bindVars, sweepVars
  <2>1. UNCHANGED Diff!vars BY DEF Diff!vars, Diff!chanvars, Diff!readvars
  <2>2. UNCHANGED Walk!vars BY DEF Walk!vars, Walk!chanvars, Walk!readvars
  <2>3. UNCHANGED Masks!vars BY DEF Masks!vars, Masks!chanvars
  <2> QED BY <2>1, <2>2, <2>3
<1> QED BY <1>1, <1>2

LEMMA InTimeStart == Init => InTimeIInv
<1> SUFFICES ASSUME Init PROVE InTimeIInv OBVIOUS
<1>1. running = "efswrite" => Write!InTime BY WriteTimelyStart DEF Init
<1>2. running = "subdiff" => Diff!InTime BY DiffTimelyStart, ConstantsAssumption DEF Init
<1>3. running = "diagwalk" => Walk!InTime BY WalkTimelyStart, ConstantsAssumption DEF Init
<1>4. running = "log_masks" => Masks!InTime BY MasksTimelyStart, ConstantsAssumption DEF Init
<1>5. running = "message_masks" => F3!InTime BY F3TimelyStart, ConstantsAssumption DEF Init
<1>6. running = "setting" => Setting!InTime BY SettingTimelyStart DEF Init
<1>7. running = "bindprobe" => Bind!InTime BY BindTimelyStart, ConstantsAssumption DEF Init
<1>8. running = "sweep" => Sweep!InTime BY SweepTimelyStart, ConstantsAssumption DEF Init
<1> QED BY <1>1, <1>2, <1>3, <1>4, <1>5, <1>6, <1>7, <1>8 DEF InTimeIInv

LEMMA InTimeStep == IInv /\ InTimeIInv /\ [Next]_vars => InTimeIInv'
<1> SUFFICES ASSUME IInv, InTimeIInv, [Next]_vars PROVE InTimeIInv' OBVIOUS
<1>1. running' = running BY OwnSteps
<1>2. running = "efswrite" => Write!InTime' BY OwnSteps, WriteTimely DEF IInv, InTimeIInv
<1>3. running = "subdiff" => Diff!InTime' BY ReaderSteps, DiffTimely DEF InTimeIInv
<1>4. running = "diagwalk" => Walk!InTime' BY ReaderSteps, WalkTimely, ConstantsAssumption DEF InTimeIInv
<1>5. running = "log_masks" => Masks!InTime' BY ReaderSteps, MasksTimely, ConstantsAssumption DEF InTimeIInv
<1>6. running = "message_masks" => F3!InTime' BY OwnSteps, F3Timely, ConstantsAssumption DEF IInv, InTimeIInv
<1>7. running = "setting" => Setting!InTime'
  BY OwnSteps, SettingTimely, ConstantsAssumption DEF IInv, InTimeIInv
<1>8. running = "bindprobe" => Bind!InTime' BY OwnSteps, BindTimely, ConstantsAssumption DEF IInv, InTimeIInv
<1>9. running = "sweep" => Sweep!InTime' BY OwnSteps, SweepTimely, ConstantsAssumption DEF IInv, InTimeIInv
<1> QED BY <1>1, <1>2, <1>3, <1>4, <1>5, <1>6, <1>7, <1>8, <1>9 DEF InTimeIInv

\* As long as the modem's answers come in time, and whatever errors they
\* carry: efswrite.py closes what it opened, subdiff.py shows each item
\* without a twin, diagwalk.py lists nothing that is not there, sdpraw.py's
\* report of the raised masks is exact, diag/f3probe.py prints each range's
\* own levels, "no tag/width combination set it" of setprovvolte.py:79 is
\* true, bindprobe.py reports the setter that bound the client, and a sweep
\* sorts every message by its result; for every item, tree of the EFS, list
\* of items, masks, ranges, setters and messages.
THEOREM InTimeHolds == Spec => []InTimeIsRight
<1>1. IInv /\ InTimeIInv => InTimeIsRight
  <2> SUFFICES ASSUME IInv, InTimeIInv PROVE InTimeIsRight OBVIOUS
  <2>1. running = "efswrite" => Write!DescriptorsClosed BY WriteCloses DEF InTimeIInv
  <2>2. running = "subdiff" => Diff!TwinlessIsShown BY DEF InTimeIInv, Diff!InTime
  <2>3. running = "diagwalk" => Walk!NothingIsInvented BY DEF InTimeIInv, Walk!InTime
  <2>4. running = "log_masks" => Masks!ReportIsExact BY MasksReported, ConstantsAssumption DEF InTimeIInv
  <2>5. running = "message_masks" => F3!ReportsAreTheirOwn BY DEF InTimeIInv, F3!InTime
  <2>6. running = "setting" => Setting!UnchangedWhenSaid BY SettingSaid DEF InTimeIInv
  <2>7. running = "bindprobe" => Bind!BinderIsFound BY BinderFound DEF InTimeIInv
  <2>8. running = "sweep" => Sweep!SweepIsComplete BY SweepComplete, ConstantsAssumption DEF IInv, InTimeIInv
  <2> QED BY <2>1, <2>2, <2>3, <2>4, <2>5, <2>6, <2>7, <2>8 DEF InTimeIsRight
<1>2. Init => InTimeIInv BY InTimeStart
<1>3. IInv /\ InTimeIInv /\ [Next]_vars => InTimeIInv' BY InTimeStep
<1> QED BY <1>1, <1>2, <1>3, Invariance, PTL DEF Spec
=============================================================================
