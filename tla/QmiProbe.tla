------------------------------ MODULE QmiProbe ------------------------------
(***************************************************************************)
(* scripts/qmi/bindprobe.py: the messages that fail are asked again with a *)
(* subscription selector, and the setter that binds the client to a        *)
(* subscription is looked for.                                             *)
(***************************************************************************)
EXTENDS QmiClient, SequencesExt, FiniteSetsExt

CONSTANTS Internal, Setters  \* ids that answered INTERNAL, and the setters

VARIABLES
  todo,     \* the probes left: [phase, msg, payload]
  flipped,  \* <<phase, msg>> reported as succeeding
  hits,     \* setters reported to have made EnableGet answer
  accepts,  \* in the modem: <<msg, payload>> it accepts without a bind
  binder,   \* and the <<msg, payload>> that binds, or Nobody
  bound,    \* this client has been bound
  answered  \* <<phase, msg>> the modem has answered with success

probevars == <<todo, flipped, hits, accepts, binder, bound, answered>>
vars == <<probevars, client>>

EnableSet == "0x8f"
EnableGet == "0x90"
Nobody == <<"nobody", "none">>
Selectors == {"u32", "u8"}

Probes(phase, ids, payload) ==
  [i \in DOMAIN ids |-> [phase |-> phase, msg |-> ids[i], payload |-> payload]]

\* Phase C tries both selectors on one setter before the next.
Hunt ==
  [i \in 1 .. 2 * Len(Setters) |->
     [phase |-> "C", msg |-> Setters[(i + 1) \div 2],
      payload |-> IF i % 2 = 1 THEN "u32" ELSE "u8"]]

Bindprobe ==
  Probes("baseline", <<EnableGet>>, "empty")
  \o Probes("A", Internal, "u32") \o Probes("B", Internal, "u8")
  \o Hunt
  \o Probes("D", <<"0x28">>, "empty")

Init ==
  /\ ClientInit
  /\ todo = Bindprobe
  /\ flipped = {} /\ hits = <<>> /\ answered = {}
  /\ binder \in {Nobody} \union (ToSet(Setters) \X Selectors)
  /\ accepts \in SUBSET (ToSet(Setters) \X Selectors)
  /\ bound = FALSE

Ask ==
  /\ todo # <<>>
  /\ Send(Head(todo).msg, Head(todo))
  /\ UNCHANGED probevars

\* The break: the second selector of the setter is not tried.
NextSetter(p) == IF p.payload = "u32" THEN Tail(Tail(todo)) ELSE Tail(todo)

\* Faulty variant: an accepted setter is not asked about.
AcceptedForgets(p) == NextSetter(p)

\* Phase C, accepted: EnableGet at once, on the same client, and then the
\* next setter.
Accepted(p) ==
  <<[phase |-> "check", msg |-> EnableGet, payload |-> p.msg]>> \o NextSetter(p)

Took(p, ok) ==
  /\ todo' = IF p.phase = "C" /\ ok THEN Accepted(p) ELSE Tail(todo)
  /\ flipped' = flipped \union (IF ok /\ p.phase \in {"A", "B"} THEN {<<p.phase, p.msg>>} ELSE {})
  /\ hits' = IF ok /\ p.phase = "check" THEN Append(hits, p.payload) ELSE hits

Got ==
  /\ todo # <<>>
  /\ \/ Returns /\ Took(Head(todo), Head(replies).body)
     \/ TimesOut /\ Took(Head(todo), FALSE)
  /\ UNCHANGED <<accepts, binder, bound, answered>>

Discards == Discard /\ UNCHANGED probevars

\* The modem: EnableGet answers a client that is bound; a message of the
\* others may answer or not.
Modem ==
  /\ requests # <<>>
  /\ LET p == Head(requests).arg
         a == <<p.msg, p.payload>>
         binds == a = binder
     IN \E ok \in BOOLEAN :
          /\ p.msg = EnableGet => ok = bound
          /\ p.phase = "C" => ok = (binds \/ a \in accepts)
          /\ ModemAnswers(ok)
          /\ bound' = (bound \/ binds)
          /\ answered' = IF ok THEN answered \union {<<p.phase, p.msg>>} ELSE answered
  /\ UNCHANGED <<todo, flipped, hits, accepts, binder>>

Next ==
  \/ Ask
  \/ Got
  \/ Discards
  \/ Modem

Spec == Init /\ [][Next]_vars

-----------------------------------------------------------------------------
TypeOK ==
  /\ ClientTypeOK
  /\ \A i \in DOMAIN todo : todo[i].phase \in {"baseline", "A", "B", "C", "check", "D"}
  /\ ToSet(hits) \subseteq ToSet(Setters)
  /\ Cardinality(ToSet(hits)) = Len(hits)
  /\ answered \subseteq {"baseline", "A", "B", "C", "check", "D"}
       \X (ToSet(Internal) \union ToSet(Setters) \union {EnableGet, "0x28"})

\* A message is reported to succeed in a phase only when the modem answered
\* that phase's request so; a late answer to the other selector never counts.
FlippedIsTrue == flipped \subseteq answered

\* The inductive invariant (MCModem_proofs): the pending call is the probe at
\* the head of the list, and an answer with its id is the modem's to it.
AnswersTheProbe(r) ==
  r.txn = wait.txn /\ r.body = TRUE => <<wait.arg.phase, wait.arg.msg>> \in answered

IInv ==
  /\ IdsAreFresh
  /\ \A i \in DOMAIN replies : AnswersTheProbe(replies[i])
  /\ wait # NoCall => todo # <<>> /\ wait.arg = Head(todo)
  /\ FlippedIsTrue

\* The modem accepted the setter that binds, with the selector that binds.
BinderAnswered ==
  /\ binder # Nobody /\ <<"C", binder[1]>> \in answered
  /\ binder[2] = "u8" => <<binder[1], "u32">> \notin accepts

\* With every answer in time, the first setter reported is the one that bound
\* the client, when the selector that binds is asked: the narrow one is not
\* where the wide one is accepted.
BinderIsFound ==
  todo = <<>> /\ wait = NoCall /\ Undisturbed /\ BinderAnswered =>
    hits # <<>> /\ Head(hits) = binder[1]

\* The inductive invariant of BinderIsFound (MCModem_proofs).  In time,
\* nothing is reported before the client is bound; when it is, the answer to
\* the setter that did it is there, then the question whether EnableGet
\* answers now, and then the report.
IsProbe(p) ==
  \/ p.phase \in {"baseline", "D"} /\ p.payload = "empty"
  \/ p.phase \in {"A", "B"} /\ p.msg \in ToSet(Internal)
  \/ p.phase = "C" /\ p.msg \in ToSet(Setters) /\ p.payload \in Selectors
  \/ p.phase = "check" /\ p.msg = EnableGet

IsHunt(i, setter, selector) ==
  /\ i \in DOMAIN todo /\ todo[i].phase = "C"
  /\ todo[i].msg = setter /\ todo[i].payload = selector

HeadBinds == todo # <<>> /\ IsHunt(1, binder[1], binder[2])
HeadChecks == todo # <<>> /\ Head(todo).phase = "check"

InTime ==
  /\ InStep /\ Queue(todo) /\ Queue(hits) /\ bound \in BOOLEAN
  /\ \A i \in DOMAIN todo :
       /\ IsProbe(todo[i])
       /\ IsHunt(i, todo[i].msg, "u32") => IsHunt(i + 1, todo[i].msg, "u8")
  /\ binder \in {Nobody} \union (ToSet(Setters) \X Selectors)
  /\ Undisturbed /\ binder # Nobody =>
       /\ BinderAnswered => bound
       /\ IsAnswered /\ HeadBinds => bound
       /\ IsAnswered /\ HeadChecks => Head(replies).body = bound
       /\ IF bound
            THEN \/ hits # <<>> /\ Head(hits) = binder[1]
                 \/ hits = <<>> /\ IsAnswered /\ HeadBinds /\ Head(replies).body = TRUE
                 \/ hits = <<>> /\ HeadChecks /\ Head(todo).payload = binder[1]
            ELSE /\ hits = <<>>
                 /\ binder[2] = "u32" =>
                      \A i \in DOMAIN todo : IsHunt(i, binder[1], "u8") => IsHunt(i - 1, binder[1], "u32")
=============================================================================
