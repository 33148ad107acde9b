------------------------------- MODULE DevShell -------------------------------
(***************************************************************************)
(* scripts/devshell.py: run() types three lines on the telnet shell of the *)
(* handset (echo BEGIN, the command, echo END), collects what comes back   *)
(* and cuts the command's output out of it.  The terminal echoes the typed *)
(* lines, markers included, before the shell prints anything (flash.sh     *)
(* splits its sentinel because of that); lines arrive in chunks of any     *)
(* size, with silences while the command works.                            *)
(***************************************************************************)
EXTENDS Naturals, Sequences, FiniteSets, FiniteSetsExt

CONSTANT MaxLines      \* bound: lines the command prints

(* "begin" and "end" are the markers the shell prints, "echo ..." the      *)
(* terminal's echo of a typed line.                                        *)
HasBegin == {"begin", "echo begin"}
HasEnd == {"end", "echo end"}
Output(n) == [i \in 1..n |-> "line"]

VARIABLES
  length,     \* how many lines the command prints
  late,       \* lines of the banner that arrive after its drain
  sent,       \* how many lines of Stream the handset has sent
  received,   \* how many of them run() has received
  why         \* why run() stopped reading, or "reading"

vars == <<length, late, sent, received, why>>

Stream == [i \in 1..late |-> "banner"]
          \o <<"echo begin", "echo command", "echo end", "begin">>
          \o Output(length) \o <<"end">>
out == SubSeq(Stream, 1, received)

TypeOK ==
  /\ length \in 0..MaxLines /\ late \in 0..1
  /\ sent \in 0..Len(Stream) /\ received \in 0..sent
  /\ why \in {"reading", "end", "silence", "timeout", "closed"}

Init ==
  /\ length \in 0..MaxLines /\ late \in 0..1
  /\ sent = 0 /\ received = 0
  /\ why = "reading"

(* Position of the last line of s that holds one of the markers m, or 0.   *)
LastOf(s, m) == Max({0} \union {i \in 1..Len(s) : s[i] \in m})
After(s, i) == SubSeq(s, i + 1, Len(s))

(* External: the shell and its terminal send one more line.                *)
Send ==
  /\ sent < Len(Stream)
  /\ sent' = sent + 1
  /\ UNCHANGED <<length, late, received, why>>

\* Faulty variant: the end marker is looked for in all that came.
EndArrivedAnywhere(s) == LastOf(s, HasEnd) # 0

(* An end marker behind the last echo of the line that types it.           *)
EndArrived(s) == LastOf(After(s, LastOf(s, {"echo end"})), HasEnd) # 0

(* A chunk of what has been sent.                                          *)
Receive ==
  /\ why = "reading"
  /\ received' \in (received + 1)..sent
  /\ why' = IF EndArrived(SubSeq(Stream, 1, received')) THEN "end" ELSE why
  /\ UNCHANGED <<length, late, sent>>

(* Nothing came for 1.5 seconds; here any end marker will do.              *)
Silence ==
  /\ why = "reading" /\ received = sent
  /\ LastOf(out, HasEnd) # 0
  /\ why' = "silence"
  /\ UNCHANGED <<length, late, sent, received>>

(* The caller's timeout, or the handset closes the connection.             *)
GiveUp ==
  /\ why = "reading"
  /\ why' \in {"timeout", "closed"}
  /\ UNCHANGED <<length, late, sent, received>>

Next ==
  \/ Send
  \/ Receive
  \/ Silence
  \/ GiveUp

Spec == Init /\ [][Next]_vars

(* The elements of s that are not in m, in their order.                    *)
Without(s, m) ==
  LET kept == {i \in DOMAIN s : s[i] \notin m}
  IN  [n \in 1..Cardinality(kept) |->
        s[CHOOSE i \in kept : Cardinality({j \in kept : j <= i}) = n]]

(* What run() returns: the lines behind the last begin marker, up to the   *)
(* last end marker, less any that hold one.                                *)
Result ==
  LET rest == After(out, LastOf(out, HasBegin))
      stop == LastOf(rest, HasEnd)
      body == IF stop = 0 THEN rest ELSE SubSeq(rest, 1, stop - 1)
  IN Without(body, HasBegin \union HasEnd)

(* When run() stops at the end marker, it returns all the command printed  *)
(* and nothing else, however the output was cut into chunks.               *)
EndMeansAll == why = "end" => Result = Output(length)

-----------------------------------------------------------------------------
(* The inductive invariant (MCInstall_proofs).                             *)

\* run() has not stopped at an end marker before all had come.
EndIsAll == why = "end" => received = Len(Stream)

IInv == TypeOK /\ EndIsAll
=============================================================================
