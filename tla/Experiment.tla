----------------------------- MODULE Experiment -----------------------------
(***************************************************************************)
(* The experiments of scripts/qmi that put the phone into another state    *)
(* and promise to put it back: cfgdial.sh, sipext.sh, codeclist.sh,        *)
(* incodec.sh, f3reg.sh and f3in.sh.  Each is a body and a restore()       *)
(* trapped on EXIT, INT and TERM.  restore() does not exit, so the shell   *)
(* goes on with the body after a signal and restores again at its end; a   *)
(* signal may also come while restore() runs.  Waiting for registration,   *)
(* sleeping and printing change nothing and are left out.                  *)
(***************************************************************************)
EXTENDS Integers, SequencesExt

CONSTANTS
  MaxSignals,  \* bound on the INT and TERM a run gets
  MaxFailures  \* bound on the commands of a run that fail

Scripts == {"cfgdial", "sipext", "codeclist", "incodec", "f3reg", "f3in"}

VARIABLES
  script,
  stack,     \* the body and the restores inside it: [code, at]
  trapped,   \* the trap is set
  exiting,   \* the EXIT trap has been taken
  over,      \* "no", "exited" or, before the trap is set, "killed"
  saved,     \* $OLD: "none", "whole" or "prefix" of the item
  phone,
  cpid, lpid, \* the shell knows the pid of the capture, of logcat
  missed,    \* restoring commands whose last execution failed
  failures, signals

vars == <<script, stack, trapped, exiting, over, saved, phone, cpid, lpid,
          missed, failures, signals>>

Capturing == <<"log", "lpid", "capture", "cpid">>
\* Faulty variant: restore() trusts the pid.
KillsKnown == <<"kill_cpid", "kill_lpid">>
Killing == <<"kill_cpid", "kill_lpid", "pkill">>
Finishing == <<"wait", "forget_cpid">>
\* Faulty variant: one hangup for both calls.
CallsHangLast == <<"dial", "dial", "hangup">>
Calls == <<"dial", "hangup", "dial", "hangup">>
Reregistering == <<"offline", "online">>
TestPlugin == <<"plugin_test", "pref_3", "restart">>
GoodPlugin == <<"plugin_good", "pref_1", "restart">>

CfgdialBody == <<"trap">> \o TestPlugin \o Capturing \o Calls \o Finishing
CfgdialRestore == <<"hangup">> \o Killing \o GoodPlugin

SipextBody ==
  <<"read_old", "trap", "item_new">> \o TestPlugin \o Capturing \o Calls \o Finishing
SipextRestore == <<"hangup">> \o Killing \o <<"item_old">> \o GoodPlugin

\* The old value is generated, and taken for what the item holds.
CodeclistBody ==
  <<"make_old", "trap", "item_new", "capture", "cpid">> \o Reregistering \o Finishing
CodeclistRestore == <<"kill_cpid", "pkill", "item_old">> \o Reregistering

IncodecBody ==
  <<"make_old", "trap", "item_new">> \o Reregistering \o Capturing \o Finishing
IncodecRestore == Killing \o <<"item_old">>

F3regBody == <<"trap">> \o Capturing \o Reregistering \o Finishing
F3regRestore == Killing \o <<"online">>

F3inBody == <<"trap">> \o Capturing \o Finishing
F3inRestore == Killing

Code(s, part) ==
  CASE s = "cfgdial" -> IF part = "body" THEN CfgdialBody ELSE CfgdialRestore
    [] s = "sipext" -> IF part = "body" THEN SipextBody ELSE SipextRestore
    [] s = "codeclist" -> IF part = "body" THEN CodeclistBody ELSE CodeclistRestore
    [] s = "incodec" -> IF part = "body" THEN IncodecBody ELSE IncodecRestore
    [] s = "f3reg" -> IF part = "body" THEN F3regBody ELSE F3regRestore
    [] s = "f3in" -> IF part = "body" THEN F3inBody ELSE F3inRestore

AtStart ==
  [plugin |-> "good", loaded |-> "good", pref |-> 1, item |-> "old",
   online |-> TRUE, call |-> FALSE, capture |-> FALSE, radio |-> FALSE]

Init ==
  /\ script \in Scripts
  /\ stack = <<[code |-> "body", at |-> 1]>>
  /\ trapped = FALSE /\ exiting = FALSE /\ over = "no"
  /\ saved = "none"
  /\ phone = AtStart
  /\ cpid = FALSE /\ lpid = FALSE
  /\ missed = {}
  /\ failures = 0 /\ signals = 0

Top == Last(stack)
AtEnd == Top.at > Len(Code(script, Top.code))
Op == Code(script, Top.code)[Top.at]
Below == [stack EXCEPT ![Len(stack)].at = @ + 1]
Handler == [code |-> "restore", at |-> 1]

Restoring == {"hangup", "plugin_good", "pref_1", "restart", "item_old", "online"}
Fallible == Restoring \union {"plugin_test", "pref_3", "item_new", "offline", "dial"}

FitsTheItem == saved = "whole"

\* What a command that works makes of the phone.
Effect(op) ==
  CASE op = "plugin_test" -> [phone EXCEPT !.plugin = "test"]
    [] op = "plugin_good" -> [phone EXCEPT !.plugin = "good"]
    [] op = "restart" -> [phone EXCEPT !.loaded = phone.plugin]
    [] op = "pref_3" -> [phone EXCEPT !.pref = 3]
    [] op = "pref_1" -> [phone EXCEPT !.pref = 1]
    [] op = "item_new" /\ FitsTheItem -> [phone EXCEPT !.item = "new"]
    [] op = "item_old" /\ FitsTheItem -> [phone EXCEPT !.item = "old"]
    [] op = "offline" -> [phone EXCEPT !.online = FALSE]
    [] op = "online" -> [phone EXCEPT !.online = TRUE]
    [] op = "dial" -> [phone EXCEPT !.call = TRUE]
    [] op = "hangup" -> [phone EXCEPT !.call = FALSE]
    [] op = "capture" -> [phone EXCEPT !.capture = TRUE]
    [] op = "log" -> [phone EXCEPT !.radio = TRUE]
    [] op = "pkill" -> [phone EXCEPT !.capture = FALSE]
    [] op = "kill_cpid" /\ cpid -> [phone EXCEPT !.capture = FALSE]
    [] op = "kill_lpid" /\ lpid -> [phone EXCEPT !.radio = FALSE]
    [] OTHER -> phone

\* What a command that fails, or is struck by a signal, may have done.
FailedEffects(op) ==
  {phone} \union (IF op \in Fallible THEN {Effect(op)} ELSE {})
  \union (IF op \in {"item_new", "item_old"} /\ FitsTheItem
          THEN {[phone EXCEPT !.item = "mixed"]} ELSE {})

Pids(op) ==
  /\ cpid' = (CASE op = "cpid" -> TRUE [] op = "forget_cpid" -> FALSE [] OTHER -> cpid)
  /\ lpid' = (lpid \/ op = "lpid")

\* Faulty variant: wait without a pid waits for logcat as well.
WaitsForAll == ~phone.capture /\ ~phone.radio

\* wait $CPID returns.
WaitReturns == ~phone.capture

\* sh: the next command of the innermost code runs to its end.
Works ==
  /\ over = "no" /\ ~AtEnd
  /\ Op = "wait" => WaitReturns
  /\ stack' = Below
  /\ phone' = Effect(Op)
  /\ Pids(Op)
  /\ trapped' = (trapped \/ Op = "trap")
  /\ IF Op \in {"read_old", "make_old"} THEN saved' = "whole" ELSE UNCHANGED saved
  /\ missed' = missed \ {Op}
  /\ UNCHANGED <<script, exiting, over, failures, signals>>

\* The command reports an error nobody looks at, and the next one runs.
Fails ==
  /\ over = "no" /\ ~AtEnd /\ Op \in Fallible /\ failures < MaxFailures
  /\ stack' = Below
  /\ phone' \in FailedEffects(Op)
  /\ missed' = missed \union ({Op} \intersect Restoring)
  /\ failures' = failures + 1
  /\ UNCHANGED <<script, trapped, exiting, over, saved, cpid, lpid, signals>>

\* sipext.sh reads the item it will put back: read_file() may return a prefix,
\* or nothing, and then the script ends before it has touched anything.
ReadsPrefix ==
  /\ over = "no" /\ ~AtEnd /\ Op = "read_old" /\ failures < MaxFailures
  /\ failures' = failures + 1
  /\ \/ saved' = "prefix" /\ stack' = Below /\ UNCHANGED over
     \/ over' = "exited" /\ UNCHANGED <<saved, stack>>
  /\ UNCHANGED <<script, trapped, exiting, phone, cpid, lpid, missed, signals>>

\* A signal: between two commands, or striking the one in the foreground.
Signal ==
  /\ over = "no" /\ trapped /\ signals < MaxSignals
  /\ signals' = signals + 1
  /\ \/ stack' = Append(stack, Handler) /\ UNCHANGED <<phone, missed>>
     \/ /\ ~AtEnd /\ Op \in Fallible \union {"wait"}
        /\ stack' = Append(Below, Handler)
        /\ phone' \in FailedEffects(Op)
        /\ missed' = missed \union ({Op} \intersect Restoring)
  /\ UNCHANGED <<script, trapped, exiting, over, saved, cpid, lpid, failures>>

SignalKills ==
  /\ over = "no" /\ ~trapped /\ signals < MaxSignals
  /\ signals' = signals + 1
  /\ over' = "killed"
  /\ UNCHANGED <<script, stack, trapped, exiting, saved, phone, cpid, lpid, missed, failures>>

\* restore() returns to where the signal came, or ends the EXIT trap.
Returns ==
  /\ over = "no" /\ AtEnd /\ Len(stack) > 1
  /\ stack' = Front(stack)
  /\ UNCHANGED <<script, trapped, exiting, over, saved, phone, cpid, lpid, missed, failures, signals>>

\* Faulty variant: restore is trapped on signals only.
ExitsWithoutTrap ==
  /\ over = "no" /\ AtEnd /\ Len(stack) = 1
  /\ over' = "exited"
  /\ UNCHANGED <<script, stack, trapped, exiting, saved, phone, cpid, lpid, missed, failures, signals>>

\* The body has ended: the EXIT trap, then the end.
Exits ==
  /\ over = "no" /\ AtEnd /\ Len(stack) = 1
  /\ IF exiting THEN over' = "exited" /\ UNCHANGED <<stack, exiting>>
     ELSE exiting' = TRUE /\ stack' = Append(stack, Handler) /\ UNCHANGED over
  /\ UNCHANGED <<script, trapped, saved, phone, cpid, lpid, missed, failures, signals>>

\* sdpraw.py ends after its $DUR seconds.
CaptureEnds ==
  /\ phone.capture
  /\ phone' = [phone EXCEPT !.capture = FALSE]
  /\ UNCHANGED <<script, stack, trapped, exiting, over, saved, cpid, lpid, missed, failures, signals>>

Next ==
  \/ Works
  \/ Fails
  \/ ReadsPrefix
  \/ Signal
  \/ SignalKills
  \/ Returns
  \/ Exits
  \/ CaptureEnds

Spec == Init /\ [][Next]_vars

\* The shell runs on, and the capture keeps its deadline.
FairSpec ==
  /\ Spec
  /\ WF_vars(Works) /\ WF_vars(Returns) /\ WF_vars(Exits)
  /\ WF_vars(CaptureEnds)

-----------------------------------------------------------------------------
\* However often and wherever a run was interrupted, when the shell is gone
\* the phone is as it was, but for what the last command that restores it
\* failed to do; the plugin that runs is the one installed at the restart.
RestoredAtEnd ==
  over # "no" =>
    /\ phone.plugin = "good" \/ "plugin_good" \in missed
    /\ phone.loaded = "good" \/ missed \intersect {"plugin_good", "restart"} # {}
    /\ phone.pref = 1 \/ "pref_1" \in missed
    /\ phone.item = "old" \/ "item_old" \in missed
    /\ phone.online \/ "online" \in missed
    /\ ~phone.call \/ "hangup" \in missed
    /\ ~phone.capture /\ ~phone.radio

\* The doc's lesson from the run that left the handset without service: the
\* trap stops the script's own capture before it puts anything back.
RestoresAlone ==
  (over = "no" /\ Top.code = "restore" /\ ~AtEnd
    /\ Op \in {"plugin_good", "pref_1", "item_old", "online"}) => ~phone.capture

\* An unattended run never dials while its previous call still stands, unless
\* hanging that one up failed.
DialsOnIdleLine ==
  [][(~AtEnd /\ Op = "dial" /\ stack' = Below) => (phone.call => "hangup" \in missed)]_vars

\* Every run ends: the last wait is for the capture, which ends by itself.
Ends == <>(over # "no")

-----------------------------------------------------------------------------
(* The inductive invariant (MCExperiments_proofs).                         *)

Body == Code(script, "body")
Restore == Code(script, "restore")

TypeOK ==
  /\ script \in Scripts
  /\ stack \in Seq([code : {"body", "restore"}, at : Nat \ {0}])
  /\ stack # <<>> /\ stack[1].code = "body"
  /\ \A k \in 2 .. Len(stack) : stack[k].code = "restore"
  /\ \A k \in 1 .. Len(stack) : stack[k].at <= Len(Code(script, stack[k].code)) + 1
  /\ over \in {"no", "exited", "killed"}
  /\ phone \in [plugin : {"good", "test"}, loaded : {"good", "test"}, pref : {1, 3},
                item : {"old", "new", "mixed"}, online : BOOLEAN, call : BOOLEAN,
                capture : BOOLEAN, radio : BOOLEAN]

\* What some restore() on the stack, or none of them, has still to do; what
\* one of them has done.
InRestore(op) == \E j \in 1 .. Len(Restore) : Restore[j] = op
Ahead(op) == \E k \in 2 .. Len(stack) : \E j \in 1 .. Len(Restore) :
               stack[k].at <= j /\ Restore[j] = op
Passed(k, op) == \E j \in 1 .. Len(Restore) : j < stack[k].at /\ Restore[j] = op
NextInBody(op) == stack[1].at <= Len(Body) /\ Body[stack[1].at] = op

\* Before the trap is set nothing has been touched.
NothingBeforeTrap ==
  /\ ~trapped => /\ phone = AtStart /\ Len(stack) = 1 /\ ~exiting
                 /\ stack[1].at = 1 \/ NextInBody("trap")
  /\ trapped => stack[1].at > 1

\* What restore() does not put back is as it was.
OnlyWhatIsRestored ==
  /\ ~InRestore("plugin_good") => phone.plugin = "good" /\ phone.loaded = "good" /\ phone.pref = 1
  /\ ~InRestore("item_old") \/ saved # "whole" => phone.item = "old"
  /\ ~InRestore("kill_lpid") => ~phone.radio

\* A call stands only until the body's next command; logcat runs without its
\* pid being known only until then; whoever has gone offline goes online next.
NextUndoes ==
  /\ phone.call => NextInBody("hangup") \/ "hangup" \in missed
  /\ phone.radio => NextInBody("lpid") \/ lpid
  /\ ~phone.online => \/ "online" \in missed \/ NextInBody("online")
                      \/ \E k \in 2 .. Len(stack) : /\ stack[k].at <= Len(Restore)
                                                    /\ Restore[stack[k].at] = "online"

\* No restore() is past pkill while the capture runs.
PassedKills == \A k \in 2 .. Len(stack) : Passed(k, "pkill") => ~phone.capture

\* From the EXIT trap on, whatever is not as it was will be put back by a
\* restore() on the stack, unless the last attempt failed.
ExitRestores ==
  exiting =>
    /\ stack[1].at = Len(Body) + 1
    /\ phone.plugin = "good" \/ "plugin_good" \in missed \/ Ahead("plugin_good")
    /\ \A k \in 2 .. Len(stack) : Passed(k, "plugin_good") =>
         phone.plugin = "good" \/ "plugin_good" \in missed
    /\ phone.loaded = "good" \/ missed \intersect {"plugin_good", "restart"} # {} \/ Ahead("restart")
    /\ phone.pref = 1 \/ "pref_1" \in missed \/ Ahead("pref_1")
    /\ phone.item = "old" \/ "item_old" \in missed \/ Ahead("item_old")
    /\ ~phone.capture \/ Ahead("pkill")
    /\ ~phone.radio \/ Ahead("kill_lpid")

IInv ==
  /\ TypeOK /\ NothingBeforeTrap /\ OnlyWhatIsRestored /\ NextUndoes /\ PassedKills
  /\ ExitRestores /\ RestoredAtEnd
=============================================================================
