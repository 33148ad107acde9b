----------------------------- MODULE QmiSetting -----------------------------
(***************************************************************************)
(* scripts/qmi/setprovvolte.py and smsdomain.py: set one setting whose TLV *)
(* tag is not known, by trying the plausible tags until one is accepted    *)
(* and the read-back shows the wanted value.                               *)
(***************************************************************************)
EXTENDS QmiClient

CONSTANT Programs  \* of {"setprovvolte", "smsdomain"}

VARIABLES
  program,
  pc,       \* "before", "set", "after", "final" or "end"
  k,        \* the attempt
  result,   \* what the last SET gave: [of, ok], of = 0 when it gave nothing
  seen,     \* what the last GET gave: a value, or "none"
  during,   \* values the setting had since the pending GET was sent
  verdict,  \* "none", "already", "accepted" or "unchanged"
  setting,  \* in the modem
  meaning, width    \* what a tag sets, and the width the modem takes

settingvars == <<program, pc, k, result, seen, during, verdict, setting, meaning, width>>
vars == <<settingvars, client>>

Tags == {17, 16, 1}

Attempts(p) ==
  IF p = "setprovvolte"
  THEN << <<17, 1>>, <<17, 4>>, <<16, 1>>, <<16, 4>>, <<1, 1>>, <<1, 4>> >>
  ELSE << <<1, 1>>, <<16, 1>> >>

Want == "wanted"
NoResult == [of |-> 0, ok |-> FALSE]

Init ==
  /\ ClientInit
  /\ program \in Programs
  /\ pc = "before" /\ k = 1
  /\ result = NoResult /\ seen = "none"
  /\ verdict = "none"
  /\ setting \in (IF program = "smsdomain" THEN {"old", Want} ELSE {"old"})
  /\ during = {setting}
  /\ meaning \in [Tags -> {"setting", "other", "refused"}]
  /\ width \in {1, 4}

Get ==
  /\ pc \in {"before", "after", "final"}
  /\ Send("get", 0)
  /\ seen' = "none" /\ during' = {setting}
  /\ UNCHANGED <<program, pc, k, result, verdict, setting, meaning, width>>

Set ==
  /\ pc = "set"
  /\ Send("set", k)
  /\ UNCHANGED settingvars

\* The next attempt, or the last words.
GoOn ==
  /\ k' = k + 1
  /\ IF k < Len(Attempts(program))
     THEN pc' = "set" /\ UNCHANGED verdict
     ELSE pc' = "final" /\ verdict' = "unchanged"

\* show(): smsdomain.py ends when the wanted value is there already.
Shown(value) ==
  CASE pc = "before" /\ program = "smsdomain" /\ value = Want ->
         pc' = "end" /\ verdict' = "already" /\ UNCHANGED k
    [] pc = "before" /\ (program = "setprovvolte" \/ value # Want) ->
         pc' = "set" /\ UNCHANGED <<k, verdict>>
    [] pc = "after" /\ value = Want -> pc' = "end" /\ verdict' = "accepted" /\ UNCHANGED k
    [] pc = "after" /\ value # Want -> GoOn
    [] pc = "final" -> pc' = "end" /\ UNCHANGED <<k, verdict>>

GotGet ==
  /\ pc \in {"before", "after", "final"}
  /\ \/ Returns /\ seen' = Head(replies).body.value
     \/ TimesOut /\ seen' = "none"
  /\ Shown(seen')
  /\ UNCHANGED <<program, result, during, setting, meaning, width>>

GotSet ==
  /\ pc = "set"
  /\ \/ /\ Returns
        /\ result' = Head(replies).body.result
        /\ IF result'.ok THEN pc' = "after" /\ UNCHANGED <<k, verdict>> ELSE GoOn
     \/ TimesOut /\ result' = NoResult /\ GoOn
  /\ UNCHANGED <<program, seen, during, setting, meaning, width>>

Discards == Discard /\ UNCHANGED settingvars

\* The modem: a SET acts when its tag and width mean something.
ModemGets ==
  /\ requests # <<>> /\ Head(requests).msg = "get"
  /\ ModemAnswers([value |-> setting])
  /\ UNCHANGED settingvars

ModemSets ==
  /\ requests # <<>> /\ Head(requests).msg = "set"
  /\ LET n == Head(requests).arg
         a == Attempts(program)[n]
         does == IF a[2] = width THEN meaning[a[1]] ELSE "refused"
     IN /\ ModemAnswers([result |-> [of |-> n, ok |-> does # "refused"]])
        /\ setting' = IF does = "setting" THEN Want ELSE setting
        /\ during' = during \union {setting'}
  /\ UNCHANGED <<program, pc, k, result, seen, verdict, meaning, width>>

Next ==
  \/ Get
  \/ Set
  \/ GotGet
  \/ GotSet
  \/ Discards
  \/ ModemGets
  \/ ModemSets

Spec == Init /\ [][Next]_vars

-----------------------------------------------------------------------------
TypeOK ==
  /\ ClientTypeOK
  /\ program \in Programs
  /\ pc \in {"before", "set", "after", "final", "end"}
  /\ k \in 1 .. Len(Attempts(program)) + 1
  /\ result.of \in 0 .. Len(Attempts(program))
  /\ verdict \in {"none", "already", "accepted", "unchanged"}
  /\ pc = "after" => result.ok

\* A result is credited to the tag whose request it answers, never to a later
\* one: an answer that comes after its deadline is thrown away.
ResultIsItsOwn == pc = "after" => result.of = k

\* What a GET shows is a value the setting had while it was asked, so the
\* read-back that decides cannot be an answer from before the write.
ReadIsCurrent == seen # "none" => seen \in during

\* When every answer comes in time, "no tag/width combination set it;
\* provisioning unchanged" (setprovvolte.py:79) is true, whatever the tags it
\* tried mean.
UnchangedWhenSaid ==
  verdict = "unchanged" /\ program = "setprovvolte" /\ Undisturbed =>
    setting = "old"

-----------------------------------------------------------------------------
(* The inductive invariant (MCModem_proofs).                               *)

\* An answer with the id of the pending call says what that call did: which
\* attempt was taken, or a value the setting had since.
AnswersTheCall(r) ==
  r.txn = wait.txn =>
    /\ r.msg = "set" => r.body.result.of = wait.arg
    /\ r.msg = "get" => r.body.value \in during

\* The pending call is the one the program waits for.
CallIsAwaited ==
  wait # NoCall => IF pc = "set" THEN wait.msg = "set" /\ wait.arg = k
                   ELSE pc \in {"before", "after", "final"} /\ wait.msg = "get"

IInv ==
  /\ IdsAreFresh
  /\ program \in {"setprovvolte", "smsdomain"}
  /\ \A i \in 1 .. Len(replies) : AnswersTheCall(replies[i])
  /\ CallIsAwaited
  /\ setting \in during
  /\ ResultIsItsOwn /\ ReadIsCurrent

\* The inductive invariant of UnchangedWhenSaid (MCModem_proofs): once the
\* setting has changed, the answer to the set that did it is there, or the
\* read-back follows, or has shown it.
InTime ==
  /\ InStep
  /\ verdict = "unchanged" => pc \in {"final", "end"}
  /\ Undisturbed =>
       /\ setting \in {"old", Want}
       /\ pc = "after" /\ IsAnswered => Head(replies).body.value = setting
       /\ program = "setprovvolte" /\ setting # "old" =>
            \/ pc = "set" /\ IsAnswered /\ Head(replies).body.result.ok
            \/ pc = "after"
            \/ pc = "end" /\ verdict = "accepted"
=============================================================================
