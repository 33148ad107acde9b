----------------------------- MODULE ParkedTree -----------------------------
(***************************************************************************)
(* What scripts/build-los-recovery.sh promises about the source tree it    *)
(* borrows: a project may be away from its own head only while its head is *)
(* on record.  There is no script here, no file and no git: only which     *)
(* projects are away, and for which of them the record holds the head the  *)
(* developer left.                                                         *)
(***************************************************************************)
CONSTANT Projects

VARIABLES
  away,      \* projects that are not at the head the developer left
  onRecord   \* projects whose head, as the developer left it, is on record

pvars == <<away, onRecord>>

Init == away = {} /\ onRecord = {}

\* The record may be rewritten in any way that still covers what is away.
Rewrite ==
  /\ onRecord' \in SUBSET Projects
  /\ away \subseteq onRecord'
  /\ UNCHANGED away

\* A project is parked only once its head is on record.
Park(p) ==
  /\ p \in onRecord
  /\ away' = away \union {p}
  /\ UNCHANGED onRecord

\* A project comes back, and the record is kept.
Return(p) ==
  /\ away' = away \ {p}
  /\ UNCHANGED onRecord

Next == Rewrite \/ \E p \in Projects : Park(p) \/ Return(p)

Spec == Init /\ [][Next]_pvars
=============================================================================
