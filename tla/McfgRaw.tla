------------------------------- MODULE McfgRaw -------------------------------
(***************************************************************************)
(* Editing a carrier config in place, byte by byte: scripts/mcfg/          *)
(* patchitem.py (one item's value byte) and retarget.py (the IIN and PLMN  *)
(* of the trailer).  The version is bumped by replacing its bytes wherever *)
(* they occur in the payload, so an accidental occurrence elsewhere must   *)
(* be noticed.  Here a version is two of its four bytes, minor and family, *)
(* and the edited field two bytes; the bytes between are arbitrary.        *)
(***************************************************************************)
EXTENDS Integers, Sequences, FiniteSets

CONSTANT Top                  \* the largest byte, 0xff

Byte == 0..Top

(* The payload: version, byte, field (2), byte, version, byte, version.    *)
CopyAt == {1, 7, 10}
FieldAt == 4
PayloadLength == 11

VARIABLES
  tool,       \* the program run
  needles,    \* how often patchitem finds the item's path in the payload
  value,      \* the value asked for
  source,     \* the payload as read
  payload,    \* the payload being edited
  dst,        \* the payload written, or nothing
  pc

vars == <<tool, needles, value, source, payload, dst, pc>>

TypeOK ==
  /\ tool \in {"patchitem", "retarget"} /\ needles \in 0..2
  /\ value \in Byte \X Byte
  /\ {source, payload} \subseteq [1..PayloadLength -> Byte]
  /\ dst \in {<<>>, payload}
  /\ pc \in {"edit", "bump", "write", "ended"}

(* No two occurrences of a version overlap, as with those of the vendor's  *)
(* configs (51.8.3.5, 7.27.2.5), whose bytes all differ.                   *)
Init ==
  /\ tool \in {"patchitem", "retarget"} /\ needles \in 0..2
  /\ value \in Byte \X Byte
  /\ \E m, f, a, b, c, d, e \in Byte :
       m # f /\ source = <<m, f, a, b, c, d, m, f, e, m, f>>
  /\ payload = source
  /\ dst = <<>>
  /\ pc = "edit"

(* patchitem.py: the byte behind the item's path, which must occur once.   *)
EditItem ==
  /\ pc = "edit" /\ tool = "patchitem"
  /\ IF needles = 1
     THEN payload' = [payload EXCEPT ![FieldAt] = value[1]] /\ pc' = "bump"
     ELSE pc' = "ended" /\ UNCHANGED payload
  /\ UNCHANGED <<tool, needles, value, source, dst>>

(* retarget.py: the first entry of the trailer's IIN and PLMN lists.       *)
EditTrailer ==
  /\ pc = "edit" /\ tool = "retarget"
  /\ payload' = [payload EXCEPT ![FieldAt] = value[1], ![FieldAt + 1] = value[2]]
  /\ pc' = "bump"
  /\ UNCHANGED <<tool, needles, value, source, dst>>

(* Where bytes.count and bytes.replace find the version: no two            *)
(* occurrences overlap, so it is everywhere it stands.                     *)
Occurrences(p, m, f) == {i \in 1..(Len(p) - 1) : p[i] = m /\ p[i + 1] = f}

(* Refused at 0xff and unless the version occurs exactly three times in    *)
(* the edited payload.                                                     *)
Bump ==
  LET at == Occurrences(payload, payload[1], payload[2]) IN
  /\ pc = "bump"
  /\ IF payload[1] # Top /\ Cardinality(at) = 3
     THEN /\ payload' = [i \in 1..PayloadLength |->
                           IF i \in at THEN payload[i] + 1 ELSE payload[i]]
          /\ pc' = "write"
     ELSE pc' = "ended" /\ UNCHANGED payload
  /\ UNCHANGED <<tool, needles, value, source, dst>>

(* The hashes are redone and the file written at a stroke.                 *)
Write ==
  /\ pc = "write"
  /\ dst' = payload
  /\ pc' = "ended"
  /\ UNCHANGED <<tool, needles, value, source, payload>>

Next == EditItem \/ EditTrailer \/ Bump \/ Write

Spec == Init /\ [][Next]_vars

(* A written config differs from the one read in the value asked for and   *)
(* in its three version copies, each raised by one, and nowhere else,      *)
(* whatever other bytes of the payload happen to read like the version.    *)
Asked(i) == CASE i = FieldAt -> value[1]
              [] i = FieldAt + 1 /\ tool = "retarget" -> value[2]
              [] i \in CopyAt -> source[i] + 1
              [] OTHER -> source[i]

WritesWhatWasAsked == dst # <<>> => \A i \in 1..PayloadLength : dst[i] = Asked(i)

-----------------------------------------------------------------------------
(* The inductive invariant (MCConfigs_proofs).                             *)

(* What was read has the version at its three places; no edit touches them,*)
(* and only a raise of these three, and of nothing else, is written.       *)
VersionStands ==
  /\ source[1] # source[2]
  /\ \A i \in CopyAt : source[i] = source[1] /\ source[i + 1] = source[2]
Edited(i) == CASE i = FieldAt -> value[1]
               [] i = FieldAt + 1 /\ tool = "retarget" -> value[2]
               [] OTHER -> source[i]
StepByStep ==
  /\ pc = "edit" => payload = source
  /\ pc = "bump" => \A i \in 1..PayloadLength : payload[i] = Edited(i)
  /\ pc = "write" => \A i \in 1..PayloadLength : payload[i] = Asked(i)
  /\ pc # "ended" => dst = <<>>
  /\ dst # <<>> => dst = payload /\ \A i \in 1..PayloadLength : payload[i] = Asked(i)

IInv == TypeOK /\ VersionStands /\ StepByStep
=============================================================================
