------------------------------- MODULE LogMasks -----------------------------
(***************************************************************************)
(* scripts/qmi/sdpraw.py, set_log_mask() and the first part of main():     *)
(* raise the log mask of every equipment id, then every message mask, and  *)
(* say which were raised.  (sdpwatch.py, sdpdump.py and diagsip.py raise   *)
(* theirs with the same function.)                                         *)
(***************************************************************************)
EXTENDS DiagChannel

CONSTANT equips  \* the equipment ids, in order

VARIABLES
  pc,      \* "send", "wait", "message", "waitmessage" or "end"
  at,      \* index in equips
  ok,      \* the ids reported as raised
  status,  \* of set_all_msg_mask(): "none", "status=0" or "status=1"
  raised,  \* in the modem: ids, and "all_messages"
  refused  \* in the modem: ids it answered with an error

vars == <<chanvars, pc, at, ok, status, raised, refused>>

Ids == {equips[i] : i \in DOMAIN equips}
All == "all_messages"

TypeOK ==
  /\ pc \in {"send", "wait", "message", "waitmessage", "end"}
  /\ at \in 1 .. Len(equips) + 1
  /\ ok \subseteq {equips[i] : i \in 1 .. at - 1}
  /\ raised \union refused \subseteq Ids \union {All}
  /\ raised \intersect refused = {}
  /\ status \in {"none", "status=0", "status=1"}

Init ==
  /\ ChannelInit /\ files = <<>>
  /\ pc = "send" /\ at = 1
  /\ ok = {} /\ status = "none" /\ raised = {} /\ refused = {}

SendMask ==
  /\ pc = "send"
  /\ IF at <= Len(equips)
       THEN Send([cmd |-> "logmask", id |-> equips[at]]) /\ pc' = "wait"
       ELSE Send([cmd |-> "msgmask", id |-> All]) /\ pc' = "waitmessage"
  /\ UNCHANGED <<replies, files, open, timeouts, errors, at, ok, status, raised, refused>>

\* The id that the answer carries is not looked at.
Mask ==
  /\ pc = "wait"
  /\ \/ \E r \in {replies[i] : i \in DOMAIN replies} :
          /\ Receive("logmask", r)
          /\ ok' = IF r.err = 0 THEN ok \union {equips[at]} ELSE ok
          /\ UNCHANGED timeouts
     \/ NoAnswer /\ UNCHANGED ok
  /\ at' = at + 1 /\ pc' = "send"
  /\ UNCHANGED <<requests, files, open, errors, status, raised, refused>>

MessageMask ==
  /\ pc = "waitmessage"
  /\ \/ \E r \in {replies[i] : i \in DOMAIN replies} :
          /\ Receive("msgmask", r)
          /\ status' = IF r.err = 0 THEN "status=0" ELSE "status=1"
          /\ UNCHANGED timeouts
     \/ NoAnswer /\ UNCHANGED status
  /\ pc' = "end"
  /\ UNCHANGED <<requests, files, open, errors, at, ok, raised, refused>>

ModemSetsMask ==
  /\ requests # <<>>
  /\ requests' = Tail(requests)
  /\ LET q == Head(requests) IN
       \/ /\ raised' = raised \union {q.id}
          /\ replies' = Append(replies, [cmd |-> q.cmd, err |-> 0])
          /\ UNCHANGED <<errors, refused>>
       \/ /\ errors < MaxErrors /\ errors' = errors + 1
          /\ refused' = refused \union {q.id}
          /\ replies' = Append(replies, [cmd |-> q.cmd, err |-> 1])
          /\ UNCHANGED raised
  /\ UNCHANGED <<files, open, timeouts, pc, at, ok, status>>

Next == SendMask \/ Mask \/ MessageMask \/ ModemSetsMask

Spec == Init /\ [][Next]_vars

-----------------------------------------------------------------------------
(* Properties.                                                             *)

\* With every answer in time the report is exact: what is listed is raised,
\* what is not listed was refused.
ReportIsExact ==
  pc = "end" /\ timeouts = 0 =>
    /\ ok = raised \ {All} /\ Ids \ ok \subseteq refused
    /\ status = "status=0" <=> All \in raised

\* The inductive invariant (MCModemInTime_proofs).  In time, what is raised is
\* what was reported, and what the answer under way says.
InTime ==
  /\ timeouts \in Nat /\ at \in Nat \ {0}
  /\ timeouts = 0 =>
       /\ ok \subseteq Ids
       /\ pc \in {"send", "end"} => Quiet
       /\ pc = "send" => raised = ok
       /\ pc = "wait" =>
            /\ OneUnderWay("logmask") /\ at <= Len(equips)
            /\ requests # <<>> => Head(requests).id = equips[at] /\ raised = ok
            /\ replies # <<>> =>
                 IF Head(replies).err = 0 THEN raised = ok \union {equips[at]}
                 ELSE raised = ok /\ equips[at] \in refused
       /\ pc = "waitmessage" =>
            /\ OneUnderWay("msgmask")
            /\ requests # <<>> => Head(requests).id = All /\ raised = ok
            /\ replies # <<>> =>
                 raised = IF Head(replies).err = 0 THEN ok \union {All} ELSE ok
       /\ pc = "end" => raised = IF status = "status=0" THEN ok \union {All} ELSE ok
       /\ \A i \in DOMAIN equips : i < at => equips[i] \in ok \union refused
       /\ pc \in {"waitmessage", "end"} => at > Len(equips)
=============================================================================
