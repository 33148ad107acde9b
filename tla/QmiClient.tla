------------------------------ MODULE QmiClient -----------------------------
(***************************************************************************)
(* scripts/qmi/qmiims.py, class Imss: one QMI client on the IPC router.    *)
(* call() sends a request, discards whatever does not carry its message    *)
(* and transaction id, and gives up at its deadline; the modem may answer  *)
(* after that, or never, and handles the request all the same.             *)
(***************************************************************************)
EXTENDS Integers, Sequences

CONSTANTS
  TxnLimit,    \* 2^16: the transaction id is packed in two bytes
  MaxTimeouts, \* bound on the calls answered after their deadline
  MaxLost      \* bound on the answers that are lost

VARIABLES
  txn,      \* self.txn
  wait,     \* the call under way: [txn, msg, arg], or NoCall
  requests, \* sent, not yet handled by the modem
  replies,  \* in the socket: [txn, msg, body]
  timeouts, lost

client == <<txn, wait, requests, replies, timeouts, lost>>

NoCall == [txn |-> 0, msg |-> "none", arg |-> "none"]

ClientInit ==
  /\ txn = 1
  /\ wait = NoCall
  /\ requests = <<>> /\ replies = <<>>
  /\ timeouts = 0 /\ lost = 0

ClientTypeOK ==
  /\ txn \in 1 .. TxnLimit
  /\ wait.txn \in 0 .. txn - 1
  /\ \A i \in DOMAIN requests : requests[i].txn \in 1 .. txn - 1
  /\ \A i \in DOMAIN replies : replies[i].txn \in 1 .. txn - 1

\* Of all that is under way only the request of the pending call, and its
\* answer, have its id.
Queue(q) == Len(q) \in Nat /\ q = [i \in 1 .. Len(q) |-> q[i]]

IdsAreFresh ==
  /\ ClientTypeOK /\ Queue(requests) /\ Queue(replies)
  /\ wait # NoCall => wait.txn # 0
  /\ \A i \in DOMAIN requests : requests[i].txn = wait.txn => requests[i] = wait

\* struct.pack() refuses a transaction id that does not fit.
Send(msg, arg) ==
  /\ wait = NoCall /\ txn < TxnLimit
  /\ wait' = [txn |-> txn, msg |-> msg, arg |-> arg]
  /\ requests' = Append(requests, wait')
  /\ txn' = txn + 1
  /\ UNCHANGED <<replies, timeouts, lost>>

\* Faulty variant: the transaction id is not compared.
MatchesMessage(reply) == reply.msg = wait.msg

Matches(reply) == reply.msg = wait.msg /\ reply.txn = wait.txn

\* As long as every answer comes in time and none is lost, nothing is under
\* way but the pending call: its request, or the answer to it.
Undisturbed == timeouts = 0 /\ lost = 0
IsAsked == wait # NoCall /\ requests = <<wait>> /\ replies = <<>>
IsAnswered ==
  /\ wait # NoCall /\ requests = <<>> /\ replies # <<>>
  /\ replies = <<Head(replies)>> /\ Matches(Head(replies))
InStep ==
  /\ timeouts \in Nat /\ lost \in Nat
  /\ Undisturbed =>
       \/ wait = NoCall /\ requests = <<>> /\ replies = <<>>
       \/ IsAsked \/ IsAnswered

Discard ==
  /\ wait # NoCall /\ replies # <<>> /\ ~Matches(Head(replies))
  /\ replies' = Tail(replies)
  /\ UNCHANGED <<txn, wait, requests, timeouts, lost>>

Returns ==
  /\ wait # NoCall /\ replies # <<>> /\ Matches(Head(replies))
  /\ replies' = Tail(replies)
  /\ wait' = NoCall
  /\ UNCHANGED <<txn, requests, timeouts, lost>>

Underway ==
  \/ \E i \in DOMAIN requests : requests[i].txn = wait.txn
  \/ \E i \in DOMAIN replies : replies[i].txn = wait.txn

TimesOut ==
  /\ wait # NoCall
  /\ IF Underway THEN timeouts < MaxTimeouts /\ timeouts' = timeouts + 1 ELSE UNCHANGED timeouts
  /\ wait' = NoCall
  /\ UNCHANGED <<txn, requests, replies, lost>>

\* The modem handles requests in order and answers with the same ids.
ModemAnswers(body) ==
  /\ requests # <<>>
  /\ requests' = Tail(requests)
  /\ \/ /\ replies' = Append(replies, [txn |-> Head(requests).txn, msg |-> Head(requests).msg, body |-> body])
        /\ UNCHANGED lost
     \/ lost < MaxLost /\ lost' = lost + 1 /\ UNCHANGED replies
  /\ UNCHANGED <<txn, wait, timeouts>>
=============================================================================
