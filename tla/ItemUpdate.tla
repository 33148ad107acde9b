----------------------------- MODULE ItemUpdate -----------------------------
(***************************************************************************)
(* What scripts/qmi/efswrite.py promises about one EFS item: it is changed *)
(* in place towards the new value, unit by unit and in any order, its      *)
(* length stays, and success is reported only when it begins with the new  *)
(* value.  A failure may leave it anywhere in between.                     *)
(***************************************************************************)
EXTENDS Integers, Sequences

CONSTANT Values

VARIABLES item, data, status   \* status: "running", 0 or 1

uvars == <<item, data, status>>

Init ==
  /\ item \in Seq(Values) /\ data \in Seq(Values)
  /\ status = "running"

Towards(new) ==
  /\ Len(new) = Len(item)
  /\ \A i \in DOMAIN item :
       new[i] = item[i] \/ (i <= Len(data) /\ new[i] = data[i])

\* The modem may still be changing the item after a failure was reported.
Change ==
  /\ status # "done"
  /\ Towards(item')
  /\ UNCHANGED <<data, status>>

Succeed ==
  /\ status = "running"
  /\ Len(data) <= Len(item) /\ \A i \in DOMAIN data : item[i] = data[i]
  /\ status' = "done"
  /\ UNCHANGED <<item, data>>

Fail == status = "running" /\ status' = "failed" /\ UNCHANGED <<item, data>>

Next == Change \/ Succeed \/ Fail

Spec == Init /\ [][Next]_uvars
=============================================================================
