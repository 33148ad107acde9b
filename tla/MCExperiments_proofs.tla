------------------------ MODULE MCExperiments_proofs -------------------------
(***************************************************************************)
(* Proofs about the experiments on the phone, for any number of signals,   *)
(* failing commands and runs: the invariants and the action property that  *)
(* MCExperiments' run checks.  That every run ends stays with TLC.         *)
(***************************************************************************)
EXTENDS MCExperiments, SequenceTheorems, TLAPS

\* Whatever the system does while a program runs is a step of that program.
LEMMA OwnSteps ==
  ASSUME [Next]_vars
  PROVE  /\ running' = running
         /\ running = "experiment" => [Exp!Next]_(Exp!vars)
         /\ running = "swap" => [Swap!Next]_(Swap!vars)
BY DEF Next, vars, experimentVars, swapVars, Exp!vars, Swap!vars

-----------------------------------------------------------------------------
(* Experiment: the code of the scripts.                                    *)

Commands == {"hangup", "kill_cpid", "kill_lpid", "pkill", "plugin_good", "pref_1", "restart",
             "item_old", "offline", "online"}

\* What the six scripts have in common: restore() ends the capture before it
\* puts anything back, puts back whatever the body changes, and restarts the
\* plugin only after installing it; a body sets its trap before it changes
\* anything, hangs up what it dialled and goes online again with its very next
\* command, and learns logcat's pid with it.
Kept(B, R) ==
  /\ Len(B) \in Nat /\ Len(R) \in Nat /\ Len(B) >= 2
  /\ \A j \in 1 .. Len(R) : R[j] \in Commands
  /\ \E j \in 1 .. Len(R) : R[j] = "pkill"
  /\ \A j \in 1 .. Len(R) : R[j] \in {"plugin_good", "pref_1", "item_old", "online"} =>
       \E i \in 1 .. Len(R) : i < j /\ R[i] = "pkill"
  /\ \A j \in 1 .. Len(B) : B[j] \in {"plugin_test", "pref_3"} =>
       \E i \in 1 .. Len(R) : R[i] = "plugin_good"
  /\ \A j \in 1 .. Len(R) : R[j] = "plugin_good" =>
       /\ \E i \in 1 .. Len(R) : j < i /\ R[i] = "restart"
       /\ \E i \in 1 .. Len(R) : R[i] = "pref_1"
  /\ \A j \in 1 .. Len(R) : R[j] = "restart" => \E i \in 1 .. Len(R) : i < j /\ R[i] = "plugin_good"
  /\ \A j \in 1 .. Len(B) : B[j] \in {"item_new", "item_old"} => \E i \in 1 .. Len(R) : R[i] = "item_old"
  /\ \A j \in 1 .. Len(B) : B[j] = "log" => \E i \in 1 .. Len(R) : R[i] = "kill_lpid"
  /\ \A j \in 1 .. Len(B) : B[j] = "log" => j < Len(B) /\ B[j + 1] = "lpid"
  /\ \A j \in 1 .. Len(B) : B[j] = "dial" => j < Len(B) /\ B[j + 1] = "hangup"
  /\ \A j \in 1 .. Len(B) : B[j] = "offline" => j < Len(B) /\ B[j + 1] = "online"
  /\ \A j \in 1 .. Len(R) : R[j] = "offline" => j < Len(R) /\ R[j + 1] = "online"
  /\ B[1] \in {"trap", "read_old", "make_old"} /\ (B[1] # "trap" => B[2] = "trap")
  /\ \A j \in 1 .. Len(B) : B[j] \in {"read_old", "make_old"} => j = 1
  /\ \A j \in 1 .. Len(B) : B[j] = "trap" => j \in {1, 2}

LEMMA CodeIsKept == ASSUME script \in Exp!Scripts PROVE Kept(Exp!Body, Exp!Restore)
<1>1. ASSUME NEW B, NEW R, B = Exp!CfgdialBody, R = Exp!CfgdialRestore PROVE Kept(B, R)
  <2>1. /\ Len(B) = 14 /\ B[1] = "trap" /\ B[2] = "plugin_test" /\ B[3] = "pref_3"
         /\ B[4] = "restart" /\ B[5] = "log" /\ B[6] = "lpid" /\ B[7] = "capture" /\ B[8] = "cpid"
         /\ B[9] = "dial" /\ B[10] = "hangup" /\ B[11] = "dial" /\ B[12] = "hangup"
         /\ B[13] = "wait" /\ B[14] = "forget_cpid"
    BY <1>1 DEF Exp!CfgdialBody, Exp!TestPlugin, Exp!Capturing, Exp!Calls, Exp!Finishing
  <2>2. /\ Len(R) = 7 /\ R[1] = "hangup" /\ R[2] = "kill_cpid" /\ R[3] = "kill_lpid"
         /\ R[4] = "pkill" /\ R[5] = "plugin_good" /\ R[6] = "pref_1" /\ R[7] = "restart"
    BY <1>1 DEF Exp!CfgdialRestore, Exp!Killing, Exp!GoodPlugin
  <2> QED BY <2>1, <2>2 DEF Kept, Commands
<1>2. ASSUME NEW B, NEW R, B = Exp!SipextBody, R = Exp!SipextRestore PROVE Kept(B, R)
  <2>1. /\ Len(B) = 16 /\ B[1] = "read_old" /\ B[2] = "trap" /\ B[3] = "item_new"
         /\ B[4] = "plugin_test" /\ B[5] = "pref_3" /\ B[6] = "restart" /\ B[7] = "log"
         /\ B[8] = "lpid" /\ B[9] = "capture" /\ B[10] = "cpid" /\ B[11] = "dial"
         /\ B[12] = "hangup" /\ B[13] = "dial" /\ B[14] = "hangup" /\ B[15] = "wait"
         /\ B[16] = "forget_cpid"
    BY <1>2 DEF Exp!SipextBody, Exp!TestPlugin, Exp!Capturing, Exp!Calls, Exp!Finishing
  <2>2. /\ Len(R) = 8 /\ R[1] = "hangup" /\ R[2] = "kill_cpid" /\ R[3] = "kill_lpid"
         /\ R[4] = "pkill" /\ R[5] = "item_old" /\ R[6] = "plugin_good" /\ R[7] = "pref_1"
         /\ R[8] = "restart"
    BY <1>2 DEF Exp!SipextRestore, Exp!Killing, Exp!GoodPlugin
  <2> QED BY <2>1, <2>2 DEF Kept, Commands
<1>3. ASSUME NEW B, NEW R, B = Exp!CodeclistBody, R = Exp!CodeclistRestore PROVE Kept(B, R)
  <2>1. /\ Len(B) = 9 /\ B[1] = "make_old" /\ B[2] = "trap" /\ B[3] = "item_new"
         /\ B[4] = "capture" /\ B[5] = "cpid" /\ B[6] = "offline" /\ B[7] = "online"
         /\ B[8] = "wait" /\ B[9] = "forget_cpid"
    BY <1>3 DEF Exp!CodeclistBody, Exp!Reregistering, Exp!Finishing
  <2>2. /\ Len(R) = 5 /\ R[1] = "kill_cpid" /\ R[2] = "pkill" /\ R[3] = "item_old"
         /\ R[4] = "offline" /\ R[5] = "online"
    BY <1>3 DEF Exp!CodeclistRestore, Exp!Reregistering
  <2> QED BY <2>1, <2>2 DEF Kept, Commands
<1>4. ASSUME NEW B, NEW R, B = Exp!IncodecBody, R = Exp!IncodecRestore PROVE Kept(B, R)
  <2>1. /\ Len(B) = 11 /\ B[1] = "make_old" /\ B[2] = "trap" /\ B[3] = "item_new"
         /\ B[4] = "offline" /\ B[5] = "online" /\ B[6] = "log" /\ B[7] = "lpid" /\ B[8] = "capture"
         /\ B[9] = "cpid" /\ B[10] = "wait" /\ B[11] = "forget_cpid"
    BY <1>4 DEF Exp!IncodecBody, Exp!Reregistering, Exp!Capturing, Exp!Finishing
  <2>2. /\ Len(R) = 4 /\ R[1] = "kill_cpid" /\ R[2] = "kill_lpid" /\ R[3] = "pkill"
         /\ R[4] = "item_old"
    BY <1>4 DEF Exp!IncodecRestore, Exp!Killing
  <2> QED BY <2>1, <2>2 DEF Kept, Commands
<1>5. ASSUME NEW B, NEW R, B = Exp!F3regBody, R = Exp!F3regRestore PROVE Kept(B, R)
  <2>1. /\ Len(B) = 9 /\ B[1] = "trap" /\ B[2] = "log" /\ B[3] = "lpid" /\ B[4] = "capture"
         /\ B[5] = "cpid" /\ B[6] = "offline" /\ B[7] = "online" /\ B[8] = "wait"
         /\ B[9] = "forget_cpid"
    BY <1>5 DEF Exp!F3regBody, Exp!Capturing, Exp!Reregistering, Exp!Finishing
  <2>2. /\ Len(R) = 4 /\ R[1] = "kill_cpid" /\ R[2] = "kill_lpid" /\ R[3] = "pkill"
         /\ R[4] = "online"
    BY <1>5 DEF Exp!F3regRestore, Exp!Killing
  <2> QED BY <2>1, <2>2 DEF Kept, Commands
<1>6. ASSUME NEW B, NEW R, B = Exp!F3inBody, R = Exp!F3inRestore PROVE Kept(B, R)
  <2>1. /\ Len(B) = 7 /\ B[1] = "trap" /\ B[2] = "log" /\ B[3] = "lpid" /\ B[4] = "capture"
         /\ B[5] = "cpid" /\ B[6] = "wait" /\ B[7] = "forget_cpid"
    BY <1>6 DEF Exp!F3inBody, Exp!Capturing, Exp!Finishing
  <2>2. /\ Len(R) = 3 /\ R[1] = "kill_cpid" /\ R[2] = "kill_lpid" /\ R[3] = "pkill"
    BY <1>6 DEF Exp!F3inRestore, Exp!Killing
  <2> QED BY <2>1, <2>2 DEF Kept, Commands
<1> QED BY <1>1, <1>2, <1>3, <1>4, <1>5, <1>6 DEF Exp!Scripts, Exp!Body, Exp!Restore, Exp!Code

-----------------------------------------------------------------------------
(* Experiment: the stack and the commands.                                 *)

Frame == [code : {"body", "restore"}, at : Nat \ {0}]

\* The innermost code is the body's while no restore() runs.
LEMMA TopOfStack ==
  ASSUME Exp!TypeOK
  PROVE  /\ Len(stack) \in Nat \ {0} /\ stack \in Seq(Frame)
         /\ Exp!Top = stack[Len(stack)]
         /\ Len(stack) = 1 => Exp!Top.code = "body"
         /\ Len(stack) > 1 => Exp!Top.code = "restore"
         /\ Exp!Top.at \in Nat \ {0}
<1>1. Len(stack) \in Nat \ {0} /\ stack \in Seq(Frame) BY DEF Exp!TypeOK, Frame
<1>2. Exp!Top = stack[Len(stack)] BY DEF Exp!Top, Exp!Last
<1>3. Exp!Top \in Frame BY <1>1, <1>2
<1> QED BY <1>1, <1>2, <1>3 DEF Exp!TypeOK, Frame

LEMMA OpOfTop ==
  ASSUME Exp!TypeOK, ~Exp!AtEnd
  PROVE  /\ Len(stack) = 1 => /\ Exp!Top.at \in 1 .. Len(Exp!Body) /\ Exp!Op = Exp!Body[Exp!Top.at]
                              /\ stack[1].at = Exp!Top.at
         /\ Len(stack) > 1 => Exp!Top.at \in 1 .. Len(Exp!Restore) /\ Exp!Op = Exp!Restore[Exp!Top.at]
<1>1. script \in Exp!Scripts BY DEF Exp!TypeOK
<1>2. Len(Exp!Body) \in Nat /\ Len(Exp!Restore) \in Nat BY <1>1, CodeIsKept DEF Kept
<1> QED BY <1>2, TopOfStack DEF Exp!AtEnd, Exp!Op, Exp!Body, Exp!Restore

\* What the stack is after a command, a signal, and the end of a restore().
LEMMA BelowIsNext ==
  ASSUME Exp!TypeOK, ~Exp!AtEnd
  PROVE  /\ Exp!Below \in Seq(Frame) /\ Len(Exp!Below) = Len(stack)
         /\ \A k \in 1 .. Len(stack) : Exp!Below[k].code = stack[k].code
         /\ \A k \in 1 .. Len(stack) - 1 : Exp!Below[k] = stack[k]
         /\ Exp!Below[Len(stack)].at = Exp!Top.at + 1
<1> DEFINE n == Len(stack)
           next == [stack[n] EXCEPT !.at = @ + 1]
<1>1. n \in Nat \ {0} /\ stack \in Seq(Frame) /\ Exp!Top = stack[n] BY TopOfStack
<1>2. stack[n] \in Frame BY <1>1
<1>3. next \in Frame /\ next.code = stack[n].code /\ next.at = stack[n].at + 1 BY <1>2 DEF Frame
<1>4. Exp!Below = [stack EXCEPT ![n] = next] BY DEF Exp!Below
<1> HIDE DEF next
<1> QED BY <1>1, <1>3, <1>4

LEMMA HandlerIsFrame == Exp!Handler \in Frame /\ Exp!Handler.code = "restore" /\ Exp!Handler.at = 1
BY DEF Exp!Handler, Frame

LEMMA FrontIsBelow ==
  ASSUME Exp!TypeOK, Len(stack) > 1
  PROVE  /\ Exp!Front(stack) \in Seq(Frame) /\ Len(Exp!Front(stack)) = Len(stack) - 1
         /\ \A k \in 1 .. Len(stack) - 1 : Exp!Front(stack)[k] = stack[k]
<1>1. Len(stack) \in Nat \ {0} /\ stack \in Seq(Frame) BY TopOfStack
<1>2. Exp!Front(stack) = SubSeq(stack, 1, Len(stack) - 1) BY DEF Exp!Front
<1> QED BY <1>1, <1>2, SubSeqProperties

\* The ways the stack changes.
Advances == ~Exp!AtEnd /\ stack' = Exp!Below
Strikes == ~Exp!AtEnd /\ stack' = Append(Exp!Below, Exp!Handler)
Pushes == stack' = Append(stack, Exp!Handler)
Pops == Exp!AtEnd /\ Len(stack) > 1 /\ stack' = Exp!Front(stack)
Stays == stack' = stack

LEMMA StackSteps ==
  ASSUME Exp!TypeOK
  PROVE  /\ Advances => /\ Len(stack') = Len(stack)
                        /\ \A k \in 1 .. Len(stack) - 1 : stack'[k] = stack[k]
                        /\ stack'[Len(stack)].at = Exp!Top.at + 1
         /\ Strikes => /\ Len(stack') = Len(stack) + 1
                       /\ \A k \in 1 .. Len(stack) - 1 : stack'[k] = stack[k]
                       /\ stack'[Len(stack)].at = Exp!Top.at + 1
                       /\ stack'[Len(stack) + 1] = Exp!Handler
         /\ Pushes => /\ Len(stack') = Len(stack) + 1
                      /\ \A k \in 1 .. Len(stack) : stack'[k] = stack[k]
                      /\ stack'[Len(stack) + 1] = Exp!Handler
         /\ Pops => /\ Len(stack') = Len(stack) - 1
                    /\ \A k \in 1 .. Len(stack) - 1 : stack'[k] = stack[k]
<1>1. Len(stack) \in Nat \ {0} /\ stack \in Seq(Frame) BY TopOfStack
<1>2. Advances =>  /\ Len(stack') = Len(stack)
                   /\ \A k \in 1 .. Len(stack) - 1 : stack'[k] = stack[k]
                   /\ stack'[Len(stack)].at = Exp!Top.at + 1
  BY BelowIsNext DEF Advances
<1>3. Strikes =>  /\ Len(stack') = Len(stack) + 1
                  /\ \A k \in 1 .. Len(stack) - 1 : stack'[k] = stack[k]
                  /\ stack'[Len(stack)].at = Exp!Top.at + 1
                  /\ stack'[Len(stack) + 1] = Exp!Handler
  BY <1>1, BelowIsNext, HandlerIsFrame DEF Strikes
<1>4. Pushes => /\ Len(stack') = Len(stack) + 1
                /\ \A k \in 1 .. Len(stack) : stack'[k] = stack[k]
                /\ stack'[Len(stack) + 1] = Exp!Handler
  BY <1>1, HandlerIsFrame DEF Pushes
<1>5. Pops => /\ Len(stack') = Len(stack) - 1
              /\ \A k \in 1 .. Len(stack) - 1 : stack'[k] = stack[k]
  BY <1>1, FrontIsBelow DEF Pops
<1> QED BY <1>2, <1>3, <1>4, <1>5

\* The stack keeps its form.
Framed(st) ==
  /\ st \in Seq(Frame) /\ Len(st) \in Nat \ {0}
  /\ st[1].code = "body" /\ st[1].at <= Len(Exp!Body) + 1
  /\ \A k \in 2 .. Len(st) : st[k].code = "restore" /\ st[k].at <= Len(Exp!Restore) + 1

LEMMA CodeLengths ==
  ASSUME Exp!TypeOK
  PROVE  Len(Exp!Body) \in Nat /\ Len(Exp!Restore) \in Nat /\ Kept(Exp!Body, Exp!Restore)
BY CodeIsKept DEF Exp!TypeOK, Kept

LEMMA StackIsFramed == ASSUME Exp!TypeOK PROVE Framed(stack)
<1>1. Len(stack) \in Nat \ {0} /\ stack \in Seq(Frame) BY TopOfStack
<1>2. stack[1].at <= Len(Exp!Body) + 1
  BY <1>1 DEF Exp!TypeOK, Exp!Body
<1>3. \A k \in 2 .. Len(stack) : stack[k].at <= Len(Exp!Restore) + 1
  BY <1>1 DEF Exp!TypeOK, Exp!Restore
<1> QED BY <1>1, <1>2, <1>3 DEF Exp!TypeOK, Framed

LEMMA StaysFramed ==
  ASSUME Exp!TypeOK, script' = script, Advances \/ Strikes \/ Pushes \/ Pops \/ Stays
  PROVE  /\ stack' \in Seq([code : {"body", "restore"}, at : Nat \ {0}])
         /\ stack' # <<>> /\ stack'[1].code = "body"
         /\ \A k \in 2 .. Len(stack') : stack'[k].code = "restore"
         /\ \A k \in 1 .. Len(stack') : stack'[k].at <= Len(Exp!Code(script, stack'[k].code)) + 1
<1> DEFINE n == Len(stack)
<1>1. n \in Nat \ {0} /\ Framed(stack) BY TopOfStack, StackIsFramed
<1>2. Len(Exp!Body) \in Nat /\ Len(Exp!Restore) \in Nat BY CodeLengths
<1>3. ~Exp!AtEnd => Framed(Exp!Below)
  <2> SUFFICES ASSUME ~Exp!AtEnd PROVE Framed(Exp!Below)
    OBVIOUS
  <2> DEFINE below == Exp!Below
  <2>1. /\ below \in Seq(Frame) /\ Len(below) = n
        /\ \A k \in 1 .. n : below[k].code = stack[k].code
        /\ \A k \in 1 .. n - 1 : below[k] = stack[k]
        /\ below[n].at = Exp!Top.at + 1
    BY BelowIsNext
  <2>2. n = 1 => Exp!Top.at <= Len(Exp!Body) BY OpOfTop
  <2>3. n > 1 => Exp!Top.at <= Len(Exp!Restore) BY OpOfTop
  <2>4. Exp!Top.at \in Nat BY TopOfStack
  <2> HIDE DEF below
  <2>5. below[1].code = "body" /\ \A k \in 2 .. n : below[k].code = "restore"
    BY <1>1, <2>1 DEF Framed
  <2>6. below[1].at <= Len(Exp!Body) + 1
    <3>1. CASE n = 1 BY <1>2, <2>1, <2>2, <2>4, <3>1
    <3>2. CASE n # 1 BY <1>1, <2>1, <3>2 DEF Framed
    <3> QED BY <3>1, <3>2
  <2>7. ASSUME NEW k \in 2 .. n PROVE below[k].at <= Len(Exp!Restore) + 1
    <3>1. CASE k = n BY <1>2, <2>1, <2>3, <2>4, <2>7, <3>1
    <3>2. CASE k # n BY <1>1, <2>1, <2>7, <3>2 DEF Framed
    <3> QED BY <3>1, <3>2
  <2>8. Framed(below) BY <1>1, <2>1, <2>5, <2>6, <2>7 DEF Framed
  <2> QED BY <2>8 DEF below
<1>4. ASSUME NEW st, Framed(st) PROVE Framed(Append(st, Exp!Handler))
  <2>1. Append(st, Exp!Handler) \in Seq(Frame) /\ Len(Append(st, Exp!Handler)) = Len(st) + 1
        /\ (\A k \in 1 .. Len(st) : Append(st, Exp!Handler)[k] = st[k])
        /\ Append(st, Exp!Handler)[Len(st) + 1] = Exp!Handler
    BY <1>4, HandlerIsFrame DEF Framed
  <2> QED BY <1>2, <1>4, <2>1, HandlerIsFrame DEF Framed
<1>5. Pops => Framed(stack')
  BY <1>1, FrontIsBelow DEF Pops, Framed
<1>6. Framed(stack')
  BY <1>1, <1>3, <1>4, <1>5 DEF Advances, Strikes, Pushes, Stays
<1>7. stack' # <<>> BY <1>6 DEF Framed
<1>8. \A k \in 1 .. Len(stack') : stack'[k].at <= Len(Exp!Code(script, stack'[k].code)) + 1
  <2> SUFFICES ASSUME NEW k \in 1 .. Len(stack')
               PROVE  stack'[k].at <= Len(Exp!Code(script, stack'[k].code)) + 1
    OBVIOUS
  <2>1. CASE k = 1 BY <1>6, <2>1 DEF Framed, Exp!Body
  <2>2. CASE k # 1
    <3>1. k \in 2 .. Len(stack') BY <1>6, <2>2 DEF Framed
    <3> QED BY <1>6, <3>1 DEF Framed, Exp!Restore
  <2> QED BY <2>1, <2>2
<1> QED BY <1>6, <1>7, <1>8 DEF Framed, Frame

\* What is ahead stays ahead, but for the command that has just run; every new
\* restore() has everything ahead of it.
LEMMA AheadSteps ==
  ASSUME Exp!TypeOK, script' = script, NEW op
  PROVE  /\ Exp!Restore' = Exp!Restore /\ Exp!InRestore(op)' = Exp!InRestore(op)
         /\ Exp!Ahead(op) => Exp!InRestore(op)
         /\ Advances /\ Exp!Ahead(op) /\ op # Exp!Op => Exp!Ahead(op)'
         /\ Strikes /\ Exp!InRestore(op) => Exp!Ahead(op)'
         /\ Pushes /\ Exp!InRestore(op) => Exp!Ahead(op)'
         /\ Pops /\ Exp!Ahead(op) => Exp!Ahead(op)'
<1> DEFINE n == Len(stack)
<1>1. n \in Nat \ {0} BY TopOfStack
<1>2. Exp!Restore' = Exp!Restore /\ Exp!InRestore(op)' = Exp!InRestore(op) BY DEF Exp!Restore, Exp!Code, Exp!InRestore
<1>3. Exp!Ahead(op) => Exp!InRestore(op) BY DEF Exp!Ahead, Exp!InRestore
<1>4. ASSUME Advances, Exp!Ahead(op), op # Exp!Op PROVE Exp!Ahead(op)'
  <2>1. PICK k \in 2 .. n, j \in 1 .. Len(Exp!Restore) : stack[k].at <= j /\ Exp!Restore[j] = op
    BY <1>4 DEF Exp!Ahead
  <2>2. Len(stack') = n BY <1>4, StackSteps
  <2>3. stack'[k].at <= j
    <3>1. CASE k = n
      <4>1. Exp!Top = stack[n] /\ Exp!Top.at \in Nat /\ Len(stack) > 1 BY <1>1, <2>1, <3>1, TopOfStack
      <4>2. Exp!Op = Exp!Restore[Exp!Top.at] BY <1>4, <4>1, OpOfTop DEF Advances
      <4>3. j # Exp!Top.at BY <1>4, <2>1, <4>2
      <4>4. stack'[k].at = Exp!Top.at + 1 BY <1>4, <3>1, StackSteps
      <4>5. Exp!Top.at <= j BY <2>1, <3>1, <4>1
      <4> QED BY <4>1, <4>3, <4>4, <4>5
    <3>2. CASE k # n BY <1>1, <1>4, <2>1, <3>2, StackSteps
    <3> QED BY <3>1, <3>2
  <2> QED BY <1>2, <2>1, <2>2, <2>3 DEF Exp!Ahead
<1>5. ASSUME Strikes \/ Pushes, Exp!InRestore(op) PROVE Exp!Ahead(op)'
  <2>1. Len(stack') = n + 1 /\ stack'[n + 1].at = 1 BY <1>5, StackSteps, HandlerIsFrame
  <2>2. PICK j \in 1 .. Len(Exp!Restore) : Exp!Restore[j] = op BY <1>5 DEF Exp!InRestore
  <2>3. n + 1 \in 2 .. Len(stack') /\ stack'[n + 1].at <= j BY <1>1, <2>1
  <2> QED BY <1>2, <2>2, <2>3 DEF Exp!Ahead
<1>6. ASSUME Pops, Exp!Ahead(op) PROVE Exp!Ahead(op)'
  <2>1. PICK k \in 2 .. n, j \in 1 .. Len(Exp!Restore) : stack[k].at <= j /\ Exp!Restore[j] = op
    BY <1>6 DEF Exp!Ahead
  <2>2. n > 1 /\ Exp!Top.at > Len(Exp!Restore)
    BY <1>6, TopOfStack DEF Pops, Exp!AtEnd, Exp!Restore
  <2>3. k # n
    <3>1. Len(Exp!Restore) \in Nat BY CodeIsKept DEF Exp!TypeOK, Kept
    <3> QED BY <2>1, <2>2, <3>1, TopOfStack
  <2>4. k \in 2 .. Len(stack') /\ stack'[k] = stack[k] BY <1>1, <1>6, <2>1, <2>3, StackSteps
  <2> QED BY <1>2, <2>1, <2>4 DEF Exp!Ahead
<1> QED BY <1>2, <1>3, <1>4, <1>5, <1>6

\* What a restore() is past was passed before, or is the command that has just
\* run in it.
LEMMA PassedSteps ==
  ASSUME Exp!TypeOK, script' = script, NEW op, Advances \/ Strikes \/ Pushes \/ Pops \/ Stays,
         NEW k \in 2 .. Len(stack'), Exp!Passed(k, op)'
  PROVE  \/ k \in 2 .. Len(stack) /\ Exp!Passed(k, op)
         \/ /\ (Advances \/ Strikes) /\ ~(Pushes \/ Pops \/ Stays)
            /\ k = Len(stack) /\ Len(stack) > 1 /\ op = Exp!Op
<1> DEFINE n == Len(stack)
<1>1. n \in Nat \ {0} BY TopOfStack
<1>2. Exp!Restore' = Exp!Restore BY DEF Exp!Restore, Exp!Code
<1>3. PICK j \in 1 .. Len(Exp!Restore) : j < stack'[k].at /\ Exp!Restore[j] = op BY <1>2 DEF Exp!Passed
<1>4. k # n + 1
  BY <1>1, <1>3, StackSteps, HandlerIsFrame DEF Stays
<1>5. k \in 2 .. n BY <1>1, <1>4, StackSteps DEF Stays
<1>6. CASE stack'[k] = stack[k] BY <1>3, <1>5, <1>6 DEF Exp!Passed
<1>7. CASE stack'[k] # stack[k]
  <2>0. ~Pushes /\ ~Pops /\ ~Stays BY <1>1, <1>5, <1>7, StackSteps DEF Stays
  <2>1. (Advances \/ Strikes) /\ k = n /\ stack'[k].at = Exp!Top.at + 1
    BY <1>1, <1>5, <1>7, <2>0, StackSteps
  <2>2. Exp!Top = stack[k] /\ Exp!Top.at \in Nat /\ n > 1 BY <1>5, <2>1, TopOfStack
  <2>3. Exp!Op = Exp!Restore[Exp!Top.at] BY <2>1, <2>2, OpOfTop DEF Advances, Strikes
  <2>4. j < Exp!Top.at \/ j = Exp!Top.at BY <1>3, <2>1, <2>2
  <2> QED BY <1>3, <1>5, <2>0, <2>1, <2>2, <2>3, <2>4 DEF Exp!Passed
<1> QED BY <1>6, <1>7

LEMMA MoreThanOne == \A n \in Nat \ {0} : n # 1 => n >= 2 /\ n > 1 /\ n \in 2 .. n /\ 1 \in 1 .. n - 1
OBVIOUS

\* The body is where it was, unless it is the innermost code; what is next in
\* it, or in a restore(), stays next until it runs.
NextInSome(op) ==
  Exp!NextInBody(op) \/ \E k \in 2 .. Len(stack) : stack[k].at <= Len(Exp!Restore) /\ Exp!Restore[stack[k].at] = op

LEMMA NextSteps ==
  ASSUME Exp!TypeOK, script' = script, NEW op, Advances \/ Strikes \/ Pushes \/ Pops \/ Stays
  PROVE  /\ Exp!Body' = Exp!Body
         /\ Len(stack) = 1 /\ ~Exp!AtEnd /\ Exp!NextInBody(op) => Exp!Op = op
         /\ (Advances \/ Strikes) /\ Len(stack) = 1 => stack'[1].at = stack[1].at + 1
         /\ ~((Advances \/ Strikes) /\ Len(stack) = 1) => /\ stack'[1].at = stack[1].at
                                                       /\ Exp!NextInBody(op)' = Exp!NextInBody(op)
         /\ Pushes \/ Pops \/ Stays => Exp!NextInBody(op)' = Exp!NextInBody(op)
         /\ Pushes \/ Pops \/ Stays \/ Exp!Op # op => (NextInSome(op) => NextInSome(op)')
<1> DEFINE n == Len(stack)
<1>1. n \in Nat \ {0} BY TopOfStack
<1>2. Exp!Body' = Exp!Body /\ Exp!Restore' = Exp!Restore BY DEF Exp!Body, Exp!Restore, Exp!Code
<1>3. n = 1 /\ ~Exp!AtEnd /\ Exp!NextInBody(op) => Exp!Op = op BY OpOfTop DEF Exp!NextInBody
<1>4. (Advances \/ Strikes) /\ n = 1 => stack'[1].at = stack[1].at + 1
  BY StackSteps, TopOfStack
<1>5. ~((Advances \/ Strikes) /\ n = 1) => stack'[1] = stack[1]
  <2>0. n # 1 => 1 \in 1 .. n - 1 BY <1>1, MoreThanOne
  <2>1. CASE Advances \/ Strikes BY <2>0, <2>1, StackSteps
  <2>2. CASE Pushes BY <1>1, <2>2, StackSteps
  <2>3. CASE Pops
    <3>1. n > 1 BY <2>3 DEF Pops
    <3> QED BY <1>1, <2>3, <3>1, StackSteps
  <2>4. CASE Stays BY <2>4 DEF Stays
  <2> QED BY <2>1, <2>2, <2>3, <2>4
<1>6. /\ ~((Advances \/ Strikes) /\ n = 1) => Exp!NextInBody(op)' = Exp!NextInBody(op)
      /\ Pushes \/ Pops \/ Stays => Exp!NextInBody(op)' = Exp!NextInBody(op)
  <2>1. Pushes => stack'[1] = stack[1] BY <1>1, StackSteps
  <2>2. Pops => stack'[1] = stack[1]
    <3>1. Pops => 1 \in 1 .. n - 1 BY <1>1, MoreThanOne DEF Pops
    <3> QED BY <3>1, StackSteps
  <2>3. Stays => stack'[1] = stack[1] BY DEF Stays
  <2> QED BY <1>2, <1>5, <2>1, <2>2, <2>3 DEF Exp!NextInBody
<1>7. ASSUME NextInSome(op), Pushes \/ Pops \/ Stays \/ Exp!Op # op PROVE NextInSome(op)'
  <2>1. CASE Exp!NextInBody(op)
    BY <1>3, <1>6, <1>7, <2>1 DEF NextInSome, Advances, Strikes
  <2>2. CASE ~Exp!NextInBody(op)
    <3>1. PICK k \in 2 .. n : stack[k].at <= Len(Exp!Restore) /\ Exp!Restore[stack[k].at] = op
      BY <1>7, <2>2 DEF NextInSome
    <3>2. Pushes \/ Stays => k \in 2 .. Len(stack') /\ stack'[k] = stack[k]
      BY <1>1, <3>1, StackSteps DEF Stays
    <3>3. Pops => k \in 2 .. Len(stack') /\ stack'[k] = stack[k]
      <4>1. Pops => k # n
        <5>1. Len(Exp!Restore) \in Nat BY CodeLengths
        <5> QED BY <1>1, <3>1, <5>1, TopOfStack DEF Pops, Exp!AtEnd, Exp!Restore
      <4> QED BY <1>1, <3>1, <4>1, StackSteps
    <3>4. (Advances \/ Strikes) /\ Exp!Op # op => k \in 2 .. Len(stack') /\ stack'[k] = stack[k]
      <4>1. (Advances \/ Strikes) /\ Exp!Op # op => k # n
        BY <1>1, <3>1, OpOfTop, TopOfStack DEF Advances, Strikes
      <4> QED BY <1>1, <3>1, <4>1, StackSteps
    <3>5. k \in 2 .. Len(stack') /\ stack'[k] = stack[k] BY <1>7, <3>2, <3>3, <3>4
    <3> QED BY <1>2, <3>1, <3>5 DEF NextInSome
  <2> QED BY <2>1, <2>2
<1> QED BY <1>2, <1>3, <1>4, <1>5, <1>6, <1>7

\* A command that is followed by another one in its code leaves that one next.
LEMMA NextAfter ==
  ASSUME Exp!TypeOK, script' = script, Advances \/ Strikes, NEW op,
         Len(stack) = 1 => stack[1].at < Len(Exp!Body) /\ Exp!Body[stack[1].at + 1] = op,
         Len(stack) > 1 => Exp!Top.at < Len(Exp!Restore) /\ Exp!Restore[Exp!Top.at + 1] = op
  PROVE  (Len(stack) = 1 => Exp!NextInBody(op)') /\ NextInSome(op)'
<1> DEFINE n == Len(stack)
<1>1. n \in Nat \ {0} /\ Exp!Top.at \in Nat BY TopOfStack
<1>2. Exp!Body' = Exp!Body /\ Exp!Restore' = Exp!Restore BY DEF Exp!Body, Exp!Restore, Exp!Code
<1>3. Len(Exp!Body) \in Nat /\ Len(Exp!Restore) \in Nat BY CodeLengths
<1>4. CASE n = 1
  <2>1. stack'[1].at = stack[1].at + 1 /\ stack[1].at \in Nat BY <1>1, <1>4, NextSteps, TopOfStack
  <2> QED BY <1>2, <1>3, <1>4, <2>1 DEF Exp!NextInBody, NextInSome
<1>5. CASE n # 1
  <2>1. Len(stack') \in {n, n + 1} /\ stack'[n].at = Exp!Top.at + 1 BY StackSteps
  <2>2. n \in 2 .. Len(stack')
    <3> DEFINE m == Len(stack')
    <3>1. n \in Nat /\ n >= 2 BY <1>1, <1>5, MoreThanOne
    <3>2. m \in {n, n + 1} BY <2>1
    <3> HIDE DEF n, m
    <3>3. n \in 2 .. m BY <3>1, <3>2
    <3> QED BY <3>3 DEF n, m
  <2> QED BY <1>1, <1>2, <1>3, <1>5, <2>1, <2>2 DEF NextInSome
<1> QED BY <1>4, <1>5

\* What a command makes of each part of the phone.
Phones == [plugin : {"good", "test"}, loaded : {"good", "test"}, pref : {1, 3},
           item : {"old", "new", "mixed"}, online : BOOLEAN, call : BOOLEAN,
           capture : BOOLEAN, radio : BOOLEAN]

LEMMA EffectOf ==
  ASSUME Exp!TypeOK, NEW op
  PROVE  /\ Exp!Effect(op) \in Phones
         /\ Exp!Effect(op).plugin = (IF op = "plugin_test" THEN "test"
                                 ELSE IF op = "plugin_good" THEN "good" ELSE phone.plugin)
         /\ Exp!Effect(op).loaded = (IF op = "restart" THEN phone.plugin ELSE phone.loaded)
         /\ Exp!Effect(op).pref = (IF op = "pref_3" THEN 3 ELSE IF op = "pref_1" THEN 1 ELSE phone.pref)
         /\ Exp!Effect(op).item = (IF op = "item_new" /\ saved = "whole" THEN "new"
                               ELSE IF op = "item_old" /\ saved = "whole" THEN "old" ELSE phone.item)
         /\ Exp!Effect(op).online <=> op = "online" \/ (op # "offline" /\ phone.online)
         /\ Exp!Effect(op).call <=> op = "dial" \/ (op # "hangup" /\ phone.call)
         /\ Exp!Effect(op).capture <=>
              op = "capture" \/ (op # "pkill" /\ ~(op = "kill_cpid" /\ cpid) /\ phone.capture)
         /\ Exp!Effect(op).radio <=> op = "log" \/ (~(op = "kill_lpid" /\ lpid) /\ phone.radio)
<1> USE DEF Exp!TypeOK, Phones
<1>1. Exp!Effect(op) \in Phones
  <2>1. phone \in Phones OBVIOUS
  <2> DEFINE p == phone
  <2>2. /\ [p EXCEPT !.plugin = "test"] \in Phones /\ [p EXCEPT !.plugin = "good"] \in Phones
        /\ [p EXCEPT !.loaded = p.plugin] \in Phones /\ [p EXCEPT !.pref = 3] \in Phones
        /\ [p EXCEPT !.pref = 1] \in Phones /\ [p EXCEPT !.item = "new"] \in Phones
        /\ [p EXCEPT !.item = "old"] \in Phones
    BY <2>1
  <2>3. /\ [p EXCEPT !.online = FALSE] \in Phones /\ [p EXCEPT !.online = TRUE] \in Phones
        /\ [p EXCEPT !.call = FALSE] \in Phones /\ [p EXCEPT !.call = TRUE] \in Phones
        /\ [p EXCEPT !.capture = FALSE] \in Phones /\ [p EXCEPT !.capture = TRUE] \in Phones
        /\ [p EXCEPT !.radio = FALSE] \in Phones /\ [p EXCEPT !.radio = TRUE] \in Phones
    BY <2>1
  <2> HIDE DEF Phones
  <2> QED BY <2>1, <2>2, <2>3 DEF Exp!Effect
<1>2. Exp!Effect(op).plugin = (IF op = "plugin_test" THEN "test"
                           ELSE IF op = "plugin_good" THEN "good" ELSE phone.plugin)
  BY DEF Exp!Effect
<1>3. Exp!Effect(op).loaded = (IF op = "restart" THEN phone.plugin ELSE phone.loaded) BY DEF Exp!Effect
<1>4. Exp!Effect(op).pref = (IF op = "pref_3" THEN 3 ELSE IF op = "pref_1" THEN 1 ELSE phone.pref)
  BY DEF Exp!Effect
<1>5. Exp!Effect(op).item = (IF op = "item_new" /\ saved = "whole" THEN "new"
                         ELSE IF op = "item_old" /\ saved = "whole" THEN "old" ELSE phone.item)
  BY DEF Exp!Effect, Exp!FitsTheItem
<1>6. Exp!Effect(op).online <=> op = "online" \/ (op # "offline" /\ phone.online) BY DEF Exp!Effect
<1>7. Exp!Effect(op).call <=> op = "dial" \/ (op # "hangup" /\ phone.call) BY DEF Exp!Effect
<1>8. Exp!Effect(op).capture <=>
          op = "capture" \/ (op # "pkill" /\ ~(op = "kill_cpid" /\ cpid) /\ phone.capture)
  <2>1. CASE op = "capture"
    <3>1. Exp!Effect(op) = [phone EXCEPT !.capture = TRUE] BY <2>1 DEF Exp!Effect
    <3>2. Exp!Effect(op).capture BY <3>1
    <3> QED BY <2>1, <3>2
  <2>2. CASE op = "pkill" BY <2>2 DEF Exp!Effect
  <2>3. CASE op = "kill_cpid" /\ cpid BY <2>3 DEF Exp!Effect
  <2>4. CASE op \notin {"capture", "pkill"} /\ ~(op = "kill_cpid" /\ cpid) BY <2>4 DEF Exp!Effect
  <2> QED BY <2>1, <2>2, <2>3, <2>4
<1>9. Exp!Effect(op).radio <=> op = "log" \/ (~(op = "kill_lpid" /\ lpid) /\ phone.radio) BY DEF Exp!Effect
<1> QED BY <1>1, <1>2, <1>3, <1>4, <1>5, <1>6, <1>7, <1>8, <1>9

\* A command that fails has its effect or none, or leaves the item half written.
LEMMA FailedEffectOf ==
  ASSUME Exp!TypeOK, NEW op, NEW p \in Exp!FailedEffects(op)
  PROVE  \/ p = phone
         \/ op \in Exp!Fallible /\ p = Exp!Effect(op)
         \/ /\ op \in {"item_new", "item_old"} /\ saved = "whole"
            /\ p = [phone EXCEPT !.item = "mixed"]
BY DEF Exp!FailedEffects, Exp!FitsTheItem

\* The kinds of steps.
Struck ==
  /\ trapped /\ over = "no" /\ Exp!Op \in Exp!Fallible \union {"wait"}
  /\ Advances \/ Strikes
  /\ phone' \in Exp!FailedEffects(Exp!Op)
  /\ missed' = missed \union ({Exp!Op} \intersect Exp!Restoring)
  /\ UNCHANGED <<script, trapped, exiting, over, saved, cpid, lpid>>

Interrupted ==
  /\ trapped /\ over = "no" /\ Pushes
  /\ UNCHANGED <<script, trapped, exiting, over, saved, phone, cpid, lpid, missed>>

\* Until the trap is set the body does nothing but read the item and set it.
LEMMA FirstCommands ==
  ASSUME Exp!TypeOK, Exp!NothingBeforeTrap, ~trapped
  PROVE  /\ Len(stack) = 1 /\ stack[1].at \in {1, 2} /\ ~Exp!AtEnd
         /\ Exp!Op \in {"trap", "read_old", "make_old"}
         /\ Exp!Op # "trap" => stack[1].at = 1 /\ Exp!Body[2] = "trap"
<1>1. Len(stack) = 1 /\ (stack[1].at = 1 \/ Exp!NextInBody("trap")) BY DEF Exp!NothingBeforeTrap
<1>2. Kept(Exp!Body, Exp!Restore) /\ Len(Exp!Body) \in Nat BY CodeLengths
<1>3. stack[1].at \in Nat \ {0} /\ Exp!Top = stack[1] /\ Exp!Top.code = "body" BY <1>1, TopOfStack
<1>4. ~Exp!AtEnd BY <1>1, <1>2, <1>3 DEF Exp!AtEnd, Exp!Body, Exp!NextInBody, Kept
<1>5. Exp!Op = Exp!Body[stack[1].at] BY <1>1, <1>4, OpOfTop
<1>6. stack[1].at \in {1, 2}
  BY <1>1, <1>2, <1>3 DEF Exp!NextInBody, Kept
<1> QED BY <1>1, <1>2, <1>3, <1>4, <1>5, <1>6 DEF Kept, Exp!NextInBody

LEMMA Kinds ==
  ASSUME Exp!IInv, [Exp!Next]_(Exp!vars)
  PROVE  /\ script' = script
         /\ \/ Exp!Works \/ Struck \/ Exp!ReadsPrefix \/ Interrupted \/ Exp!SignalKills
            \/ Exp!Returns \/ Exp!Exits \/ Exp!CaptureEnds \/ UNCHANGED Exp!vars
<1>0. Exp!Works \/ Exp!Fails \/ Exp!ReadsPrefix \/ Exp!Signal \/ Exp!SignalKills \/ Exp!Returns \/ Exp!Exits \/ Exp!CaptureEnds
      \/ UNCHANGED Exp!vars
  BY DEF Exp!Next
<1>1. script' = script
  <2>1. Exp!Works => script' = script BY DEF Exp!Works
  <2>2. Exp!Fails => script' = script BY DEF Exp!Fails
  <2>3. Exp!ReadsPrefix => script' = script BY DEF Exp!ReadsPrefix
  <2>4. Exp!Signal => script' = script BY DEF Exp!Signal
  <2>5. Exp!SignalKills \/ Exp!Returns \/ Exp!Exits \/ Exp!CaptureEnds \/ UNCHANGED Exp!vars => script' = script
    BY DEF Exp!SignalKills, Exp!Returns, Exp!Exits, Exp!CaptureEnds, Exp!vars
  <2> QED BY <1>0, <2>1, <2>2, <2>3, <2>4, <2>5
<1>2. CASE Exp!Fails
  <2>1. trapped
    <3> SUFFICES ASSUME ~trapped PROVE FALSE
      OBVIOUS
    <3> QED BY <1>2, FirstCommands DEF Exp!IInv, Exp!Fails, Exp!Fallible, Exp!Restoring
  <2> QED BY <1>1, <1>2, <2>1 DEF Exp!Fails, Struck, Advances
<1>3. CASE Exp!Signal BY <1>1, <1>3 DEF Exp!Signal, Struck, Strikes, Interrupted, Pushes
<1> QED BY <1>0, <1>1, <1>2, <1>3

LEMMA StackKinds ==
  ASSUME Exp!TypeOK
  PROVE  /\ Exp!Works => Advances
         /\ Struck => Advances \/ Strikes
         /\ Exp!ReadsPrefix => Advances \/ Stays
         /\ Interrupted => Pushes
         /\ Exp!SignalKills => Stays
         /\ Exp!Returns => Pops
         /\ Exp!Exits => Pushes \/ Stays
         /\ Exp!CaptureEnds => Stays
         /\ UNCHANGED Exp!vars => Stays
BY DEF Exp!Works, Struck, Exp!ReadsPrefix, Interrupted, Exp!SignalKills, Exp!Returns, Exp!Exits, Exp!CaptureEnds, Exp!vars,
       Advances, Strikes, Pushes, Pops, Stays

LEMMA AStackKind ==
  ASSUME Exp!IInv, [Exp!Next]_(Exp!vars)
  PROVE  script' = script /\ (Advances \/ Strikes \/ Pushes \/ Pops \/ Stays)
BY Kinds, StackKinds DEF Exp!IInv

-----------------------------------------------------------------------------
(* Experiment: the invariant is kept.                                      *)

LEMMA TypeSteps == ASSUME Exp!IInv, [Exp!Next]_(Exp!vars) PROVE Exp!TypeOK'
<1>1. Exp!TypeOK /\ phone \in Phones BY DEF Exp!IInv, Exp!TypeOK, Phones
<1>2. phone' \in Phones
  <2>1. Exp!Works => phone' \in Phones BY <1>1, EffectOf DEF Exp!Works
  <2>2. Struck => phone' \in Phones
    <3>1. [phone EXCEPT !.item = "mixed"] \in Phones BY <1>1 DEF Phones
    <3> QED BY <1>1, <3>1, EffectOf, FailedEffectOf DEF Struck
  <2>3. Exp!CaptureEnds => phone' \in Phones BY <1>1 DEF Exp!CaptureEnds, Phones
  <2>4. Exp!ReadsPrefix \/ Interrupted \/ Exp!SignalKills \/ Exp!Returns \/ Exp!Exits \/ UNCHANGED Exp!vars => phone' = phone
    BY DEF Exp!ReadsPrefix, Interrupted, Exp!SignalKills, Exp!Returns, Exp!Exits, Exp!vars
  <2> QED BY <1>1, <2>1, <2>2, <2>3, <2>4, Kinds
<1>3. over' \in {"no", "exited", "killed"}
  BY <1>1, Kinds
  DEF Exp!TypeOK, Exp!Works, Struck, Exp!ReadsPrefix, Interrupted, Exp!SignalKills, Exp!Returns, Exp!Exits, Exp!CaptureEnds, Exp!vars
<1>4. script' = script BY Kinds
<1>5. \A part : Exp!Code(script', part) = Exp!Code(script, part) BY <1>4
<1> QED BY <1>1, <1>2, <1>3, <1>4, <1>5, AStackKind, StaysFramed DEF Exp!TypeOK, Phones

LEMMA NothingBeforeTrapSteps == ASSUME Exp!IInv, [Exp!Next]_(Exp!vars) PROVE Exp!NothingBeforeTrap'
<1>1. Exp!TypeOK /\ Exp!NothingBeforeTrap BY DEF Exp!IInv
<1>2. script' = script /\ (Advances \/ Strikes \/ Pushes \/ Pops \/ Stays) BY AStackKind
<1>3. Len(stack) \in Nat \ {0} /\ stack[1].at \in Nat \ {0}
  <2>1. stack \in Seq(Frame) /\ Len(stack) \in Nat \ {0} BY <1>1, TopOfStack
  <2>2. stack[1] \in Frame BY <2>1
  <2> QED BY <2>1, <2>2 DEF Frame
<1>4. stack'[1].at >= stack[1].at BY <1>1, <1>2, <1>3, NextSteps
<1>5. CASE trapped
  <2>1. trapped' /\ stack[1].at > 1
    BY <1>1, <1>5, Kinds
    DEF Exp!NothingBeforeTrap, Exp!Works, Struck, Exp!ReadsPrefix, Interrupted, Exp!SignalKills, Exp!Returns, Exp!Exits,
        Exp!CaptureEnds, Exp!vars
  <2>2. stack'[1].at \in Nat BY <1>2, <1>3, <1>1, NextSteps
  <2> QED BY <1>3, <1>4, <2>1, <2>2 DEF Exp!NothingBeforeTrap
<1>6. CASE ~trapped
  <2>1. /\ Len(stack) = 1 /\ stack[1].at \in {1, 2} /\ ~Exp!AtEnd /\ Exp!Op \in {"trap", "read_old", "make_old"}
        /\ Exp!Op # "trap" => stack[1].at = 1 /\ Exp!Body[2] = "trap"
        /\ phone = Exp!AtStart /\ ~exiting
    BY <1>1, <1>6, FirstCommands DEF Exp!NothingBeforeTrap
  <2>2. CASE Exp!Works
    <3>1. Advances BY <1>1, <2>2, StackKinds
    <3>2. /\ Len(stack') = 1 /\ stack'[1].at = stack[1].at + 1 /\ Exp!Body' = Exp!Body
      BY <1>1, <1>2, <2>1, <3>1, StackSteps, NextSteps
    <3>3. phone' = phone /\ exiting' = exiting /\ (trapped' <=> Exp!Op = "trap")
      BY <1>6, <2>1, <2>2 DEF Exp!Works, Exp!Effect
    <3>4. CASE Exp!Op = "trap" BY <2>1, <3>2, <3>3, <3>4 DEF Exp!NothingBeforeTrap
    <3>5. CASE Exp!Op # "trap"
      <4>1. Len(Exp!Body) \in Nat /\ Len(Exp!Body) >= 2 BY <1>1, CodeLengths DEF Kept
      <4>2. stack'[1].at = 2 /\ Exp!Body[2] = "trap" BY <2>1, <3>2, <3>5
      <4> QED BY <2>1, <3>2, <3>3, <3>5, <4>1, <4>2 DEF Exp!NothingBeforeTrap, Exp!NextInBody, Exp!AtStart
    <3> QED BY <3>4, <3>5
  <2>3. CASE Exp!ReadsPrefix
    <3>1. Exp!Op = "read_old" /\ phone' = phone /\ exiting' = exiting /\ trapped' = trapped
      BY <2>3 DEF Exp!ReadsPrefix
    <3>2. CASE Advances
      <4>1. Len(Exp!Body) \in Nat /\ Len(Exp!Body) >= 2 BY <1>1, CodeLengths DEF Kept
      <4>2. /\ Len(stack') = 1 /\ stack'[1].at = 2 /\ Exp!Body' = Exp!Body /\ Exp!Body[2] = "trap"
        BY <1>1, <1>2, <2>1, <3>1, <3>2, StackSteps, NextSteps
      <4> QED BY <1>6, <2>1, <3>1, <4>1, <4>2 DEF Exp!NothingBeforeTrap, Exp!NextInBody, Exp!AtStart
    <3>3. CASE Stays
      BY <1>1, <1>2, <1>6, <2>1, <3>1, <3>3, NextSteps DEF Exp!NothingBeforeTrap, Stays, Exp!NextInBody, Exp!AtStart
    <3> QED BY <1>1, <2>3, <3>2, <3>3, StackKinds
  <2>4. CASE Exp!SignalKills \/ UNCHANGED Exp!vars
    <3>1. UNCHANGED <<stack, script, phone, trapped, exiting>> BY <2>4 DEF Exp!SignalKills, Exp!vars
    <3> QED BY <1>1, <3>1 DEF Exp!NothingBeforeTrap, Exp!NextInBody, Exp!Body, Exp!Code, Exp!AtStart
  <2>5. ~(Struck \/ Interrupted \/ Exp!Returns \/ Exp!Exits \/ Exp!CaptureEnds)
    BY <1>6, <2>1 DEF Struck, Interrupted, Exp!Returns, Exp!Exits, Exp!CaptureEnds, Exp!AtStart
  <2> QED BY <2>2, <2>3, <2>4, <2>5, Kinds
<1> QED BY <1>5, <1>6

\* A command of a restore() is one of Commands; the body's is followed by what
\* undoes it.
LEMMA WhatRuns ==
  ASSUME Exp!TypeOK, ~Exp!AtEnd
  PROVE  /\ Len(stack) > 1 => Exp!Op \in Commands /\ Exp!InRestore(Exp!Op)
         /\ Exp!Op \in {"plugin_test", "pref_3"} => Exp!InRestore("plugin_good")
         /\ Exp!Op \in {"item_new", "item_old"} => Exp!InRestore("item_old")
         /\ Exp!Op = "log" => Exp!InRestore("kill_lpid")
         /\ Exp!Op \in {"read_old", "make_old"} => Len(stack) = 1 /\ stack[1].at = 1
<1>1. Kept(Exp!Body, Exp!Restore) BY CodeLengths
<1>2. Len(stack) \in Nat \ {0} BY TopOfStack
<1>3. CASE Len(stack) > 1
  <2>1. Exp!Top.at \in 1 .. Len(Exp!Restore) /\ Exp!Op = Exp!Restore[Exp!Top.at] BY <1>3, OpOfTop
  <2> QED BY <1>1, <1>3, <2>1 DEF Kept, Exp!InRestore, Commands
<1>4. CASE Len(stack) = 1
  <2>1. Exp!Top.at \in 1 .. Len(Exp!Body) /\ Exp!Op = Exp!Body[Exp!Top.at] /\ stack[1].at = Exp!Top.at BY <1>4, OpOfTop
  <2>2. Exp!Op \in {"plugin_test", "pref_3"} => Exp!InRestore("plugin_good")
    BY <1>1, <2>1 DEF Kept, Exp!InRestore
  <2>3. Exp!Op \in {"item_new", "item_old"} => Exp!InRestore("item_old")
    BY <1>1, <2>1 DEF Kept, Exp!InRestore
  <2>4. Exp!Op = "log" => Exp!InRestore("kill_lpid")
    BY <1>1, <2>1 DEF Kept, Exp!InRestore
  <2>5. Exp!Op \in {"read_old", "make_old"} => stack[1].at = 1
    BY <1>1, <2>1 DEF Kept
  <2> QED BY <1>4, <2>2, <2>3, <2>4, <2>5
<1> QED BY <1>2, <1>3, <1>4

LEMMA OnlyWhatIsRestoredSteps == ASSUME Exp!IInv, [Exp!Next]_(Exp!vars) PROVE Exp!OnlyWhatIsRestored'
<1>1. Exp!TypeOK /\ Exp!NothingBeforeTrap /\ Exp!OnlyWhatIsRestored BY DEF Exp!IInv
<1>2. script' = script BY AStackKind
<1>3. \A op : Exp!InRestore(op)' = Exp!InRestore(op) BY <1>2 DEF Exp!InRestore, Exp!Restore, Exp!Code
<1>4. CASE Exp!Works
  <2>1. ~Exp!AtEnd /\ phone' = Exp!Effect(Exp!Op) BY <1>4 DEF Exp!Works
  <2>2. saved' # "whole" => saved # "whole" BY <1>4 DEF Exp!Works
  <2>3. ~Exp!InRestore("plugin_good") =>
          phone'.plugin = "good" /\ phone'.loaded = "good" /\ phone'.pref = 1
    BY <1>1, <2>1, EffectOf, WhatRuns DEF Exp!OnlyWhatIsRestored
  <2>4. ~Exp!InRestore("item_old") \/ saved' # "whole" => phone'.item = "old"
    BY <1>1, <2>1, <2>2, EffectOf, WhatRuns DEF Exp!OnlyWhatIsRestored
  <2>5. ~Exp!InRestore("kill_lpid") => ~phone'.radio
    BY <1>1, <2>1, EffectOf, WhatRuns DEF Exp!OnlyWhatIsRestored
  <2> QED BY <1>3, <2>3, <2>4, <2>5 DEF Exp!OnlyWhatIsRestored
<1>5. CASE Struck
  <2>1. ~Exp!AtEnd /\ phone' \in Exp!FailedEffects(Exp!Op) /\ saved' = saved /\ Exp!Op # "log"
    BY <1>5 DEF Struck, Advances, Strikes, Exp!Fallible, Exp!Restoring
  <2>2. CASE phone' = phone
    BY <1>1, <1>3, <2>1, <2>2 DEF Exp!OnlyWhatIsRestored
  <2>3. CASE phone' = Exp!Effect(Exp!Op)
    <3>1. ~Exp!InRestore("plugin_good") =>
            phone'.plugin = "good" /\ phone'.loaded = "good" /\ phone'.pref = 1
      BY <1>1, <2>1, <2>3, EffectOf, WhatRuns DEF Exp!OnlyWhatIsRestored
    <3>2. ~Exp!InRestore("item_old") \/ saved' # "whole" => phone'.item = "old"
      BY <1>1, <2>1, <2>3, EffectOf, WhatRuns DEF Exp!OnlyWhatIsRestored
    <3>3. ~Exp!InRestore("kill_lpid") => ~phone'.radio
      BY <1>1, <2>1, <2>3, EffectOf, WhatRuns DEF Exp!OnlyWhatIsRestored
    <3> QED BY <1>3, <3>1, <3>2, <3>3 DEF Exp!OnlyWhatIsRestored
  <2>4. CASE Exp!Op \in {"item_new", "item_old"} /\ saved = "whole" /\ phone' = [phone EXCEPT !.item = "mixed"]
    <3>1. /\ phone'.plugin = phone.plugin /\ phone'.loaded = phone.loaded /\ phone'.pref = phone.pref
          /\ phone'.radio = phone.radio
      BY <1>1, <2>4 DEF Exp!TypeOK
    <3>2. Exp!InRestore("item_old") BY <1>1, <2>1, <2>4, WhatRuns
    <3> QED BY <1>1, <1>3, <2>1, <2>4, <3>1, <3>2 DEF Exp!OnlyWhatIsRestored
  <2> QED BY <1>1, <2>1, <2>2, <2>3, <2>4, FailedEffectOf
<1>6. CASE Exp!ReadsPrefix
  <2>1. phone' = phone /\ Exp!Op = "read_old" /\ ~Exp!AtEnd BY <1>6 DEF Exp!ReadsPrefix
  <2>2. stack[1].at = 1 BY <1>1, <2>1, WhatRuns
  <2>3. ~trapped BY <1>1, <2>2 DEF Exp!NothingBeforeTrap
  <2>4. phone.item = "old" BY <1>1, <2>3 DEF Exp!NothingBeforeTrap, Exp!AtStart
  <2> QED BY <1>1, <1>3, <2>1, <2>4 DEF Exp!OnlyWhatIsRestored
<1>7. CASE Exp!CaptureEnds
  <2>1. /\ phone'.plugin = phone.plugin /\ phone'.loaded = phone.loaded /\ phone'.pref = phone.pref
        /\ phone'.item = phone.item /\ phone'.radio = phone.radio /\ saved' = saved
    BY <1>1, <1>7 DEF Exp!CaptureEnds, Exp!TypeOK
  <2> QED BY <1>1, <1>3, <2>1 DEF Exp!OnlyWhatIsRestored
<1>8. CASE Interrupted \/ Exp!SignalKills \/ Exp!Returns \/ Exp!Exits \/ UNCHANGED Exp!vars
  <2>1. phone' = phone /\ saved' = saved
    BY <1>8 DEF Interrupted, Exp!SignalKills, Exp!Returns, Exp!Exits, Exp!vars
  <2> QED BY <1>1, <1>3, <2>1 DEF Exp!OnlyWhatIsRestored
<1> QED BY <1>4, <1>5, <1>6, <1>7, <1>8, Kinds

LEMMA NextUndoesSteps == ASSUME Exp!IInv, [Exp!Next]_(Exp!vars) PROVE Exp!NextUndoes'
<1> DEFINE Moves == Advances \/ Strikes \/ Pushes \/ Pops \/ Stays
<1>1. Exp!TypeOK /\ Exp!NextUndoes BY DEF Exp!IInv
<1>2. script' = script /\ Moves BY AStackKind
<1>3. Kept(Exp!Body, Exp!Restore) /\ Len(Exp!Body) \in Nat /\ Len(Exp!Restore) \in Nat BY <1>1, CodeLengths
<1>4. Len(stack) \in Nat \ {0} BY <1>1, TopOfStack
<1>5. /\ ~phone.online => "online" \in missed \/ NextInSome("online")
      /\ phone.call => Exp!NextInBody("hangup") \/ "hangup" \in missed
      /\ phone.radio => Exp!NextInBody("lpid") \/ lpid
  BY <1>1 DEF Exp!NextUndoes, NextInSome
<1> DEFINE Goal == /\ ~phone'.online => "online" \in missed' \/ NextInSome("online")'
                   /\ phone'.call => Exp!NextInBody("hangup")' \/ "hangup" \in missed'
                   /\ phone'.radio => Exp!NextInBody("lpid")' \/ lpid'
<1>6. Goal => Exp!NextUndoes' BY DEF Exp!NextUndoes, NextInSome
<1>7. ASSUME Advances \/ Strikes
      PROVE  /\ Exp!Op = "offline" => NextInSome("online")'
             /\ Exp!Op = "dial" => Exp!NextInBody("hangup")'
             /\ Exp!Op = "log" => Exp!NextInBody("lpid")'
             /\ NextInSome("online") /\ Exp!Op # "online" => NextInSome("online")'
             /\ Exp!NextInBody("hangup") /\ Exp!Op # "hangup" => Exp!NextInBody("hangup")'
             /\ Exp!NextInBody("lpid") /\ Exp!Op # "lpid" => Exp!NextInBody("lpid")'
  <2>1. ~Exp!AtEnd BY <1>7 DEF Advances, Strikes
  <2>2. /\ Len(stack) = 1 => Exp!Top.at \in 1 .. Len(Exp!Body) /\ Exp!Op = Exp!Body[Exp!Top.at] /\ stack[1].at = Exp!Top.at
        /\ Len(stack) > 1 => Exp!Top.at \in 1 .. Len(Exp!Restore) /\ Exp!Op = Exp!Restore[Exp!Top.at] /\ Exp!Op \in Commands
    BY <1>1, <2>1, OpOfTop, WhatRuns
  <2>3. Exp!Op = "offline" => NextInSome("online")'
    <3> SUFFICES ASSUME Exp!Op = "offline" PROVE NextInSome("online")'
      OBVIOUS
    <3>1. Len(stack) = 1 => stack[1].at < Len(Exp!Body) /\ Exp!Body[stack[1].at + 1] = "online"
      BY <1>3, <2>2 DEF Kept
    <3>2. Len(stack) > 1 => Exp!Top.at < Len(Exp!Restore) /\ Exp!Restore[Exp!Top.at + 1] = "online"
      BY <1>3, <2>2 DEF Kept
    <3> QED BY <1>1, <1>2, <1>7, <3>1, <3>2, NextAfter
  <2>4. Exp!Op = "dial" => Exp!NextInBody("hangup")'
    <3> SUFFICES ASSUME Exp!Op = "dial" PROVE Exp!NextInBody("hangup")'
      OBVIOUS
    <3>0. ~(Len(stack) > 1) BY <2>2 DEF Commands
    <3>1. Len(stack) = 1 BY <1>4, <3>0, MoreThanOne
    <3>2. stack[1].at < Len(Exp!Body) /\ Exp!Body[stack[1].at + 1] = "hangup" BY <1>3, <2>2, <3>1 DEF Kept
    <3> QED BY <1>1, <1>2, <1>7, <3>1, <3>2, NextAfter
  <2>5. Exp!Op = "log" => Exp!NextInBody("lpid")'
    <3> SUFFICES ASSUME Exp!Op = "log" PROVE Exp!NextInBody("lpid")'
      OBVIOUS
    <3>0. ~(Len(stack) > 1) BY <2>2 DEF Commands
    <3>1. Len(stack) = 1 BY <1>4, <3>0, MoreThanOne
    <3>2. stack[1].at < Len(Exp!Body) /\ Exp!Body[stack[1].at + 1] = "lpid" BY <1>3, <2>2, <3>1 DEF Kept
    <3> QED BY <1>1, <1>2, <1>7, <3>1, <3>2, NextAfter
  <2>6. NextInSome("online") /\ Exp!Op # "online" => NextInSome("online")'
    BY <1>1, <1>2, NextSteps
  <2>7. \A op : Exp!NextInBody(op) /\ Exp!Op # op => Exp!NextInBody(op)'
    <3> SUFFICES ASSUME NEW op, Exp!NextInBody(op), Exp!Op # op PROVE Exp!NextInBody(op)'
      OBVIOUS
    <3> QED BY <1>1, <1>2, <2>1, NextSteps
  <2> QED BY <2>3, <2>4, <2>5, <2>6, <2>7
<1>8. CASE Exp!Works
  <2>1. Advances /\ phone' = Exp!Effect(Exp!Op) /\ missed' = missed \ {Exp!Op} /\ lpid' = (lpid \/ Exp!Op = "lpid")
    BY <1>8 DEF Exp!Works, Advances, Exp!Pids
  <2>2. ~phone'.online => "online" \in missed' \/ NextInSome("online")'
    BY <1>1, <1>5, <1>7, <2>1, EffectOf
  <2>3. phone'.call => Exp!NextInBody("hangup")' \/ "hangup" \in missed'
    BY <1>1, <1>5, <1>7, <2>1, EffectOf
  <2>4. phone'.radio => Exp!NextInBody("lpid")' \/ lpid'
    <3>1. phone'.radio => Exp!Op = "log" \/ phone.radio BY <1>1, <2>1, EffectOf
    <3>2. Exp!Op = "lpid" \/ lpid => lpid' BY <2>1
    <3> QED BY <1>5, <1>7, <2>1, <3>1, <3>2
  <2> QED BY <1>6, <2>2, <2>3, <2>4
<1>9. CASE Struck
  <2>1. /\ (Advances \/ Strikes) /\ phone' \in Exp!FailedEffects(Exp!Op)
        /\ missed' = missed \union ({Exp!Op} \intersect Exp!Restoring) /\ lpid' = lpid
        /\ Exp!Op \notin {"lpid", "log", "kill_lpid"}
    BY <1>9 DEF Struck, Exp!Fallible, Exp!Restoring
  <2>2. \/ /\ phone'.online = phone.online /\ phone'.call = phone.call
           /\ phone'.radio = phone.radio
        \/ phone' = Exp!Effect(Exp!Op)
    <3>1. CASE phone' = [phone EXCEPT !.item = "mixed"] BY <1>1, <3>1 DEF Exp!TypeOK
    <3> QED BY <1>1, <2>1, <3>1, FailedEffectOf
  <2>3. {"online", "hangup"} \subseteq Exp!Restoring BY DEF Exp!Restoring
  <2>4. ~phone'.online => Exp!Op = "offline" \/ ~phone.online BY <1>1, <2>2, EffectOf
  <2>5. phone'.call => Exp!Op = "dial" \/ phone.call BY <1>1, <2>2, EffectOf
  <2>6. phone'.radio => phone.radio BY <1>1, <2>1, <2>2, EffectOf
  <2>7. ~phone'.online => "online" \in missed' \/ NextInSome("online")'
    BY <1>5, <1>7, <2>1, <2>3, <2>4
  <2>8. phone'.call => Exp!NextInBody("hangup")' \/ "hangup" \in missed'
    BY <1>5, <1>7, <2>1, <2>3, <2>5
  <2>9. phone'.radio => Exp!NextInBody("lpid")' \/ lpid'
    BY <1>5, <1>7, <2>1, <2>6
  <2> QED BY <1>6, <2>7, <2>8, <2>9
<1>10. ASSUME Pushes \/ Pops \/ Stays, missed' = missed, lpid' = lpid, phone'.online = phone.online,
              phone'.call = phone.call, phone'.radio = phone.radio
       PROVE  Goal
  <2>1. \A op : Exp!NextInBody(op) => Exp!NextInBody(op)'
    <3> SUFFICES ASSUME NEW op, Exp!NextInBody(op) PROVE Exp!NextInBody(op)'
      OBVIOUS
    <3> QED BY <1>1, <1>2, <1>10, NextSteps
  <2>2. NextInSome("online") => NextInSome("online")' BY <1>1, <1>2, <1>10, NextSteps
  <2> QED BY <1>5, <1>10, <2>1, <2>2
<1>11. CASE Interrupted \/ Exp!SignalKills \/ Exp!Returns \/ Exp!Exits \/ Exp!CaptureEnds \/ UNCHANGED Exp!vars
  <2>1. Pushes \/ Pops \/ Stays BY <1>1, <1>11, StackKinds
  <2>2. missed' = missed /\ lpid' = lpid
    BY <1>11 DEF Interrupted, Exp!SignalKills, Exp!Returns, Exp!Exits, Exp!CaptureEnds, Exp!vars
  <2>3. phone'.online = phone.online /\ phone'.call = phone.call /\ phone'.radio = phone.radio
    <3>1. CASE Exp!CaptureEnds BY <1>1, <3>1 DEF Exp!CaptureEnds, Exp!TypeOK
    <3> QED BY <1>11, <3>1 DEF Interrupted, Exp!SignalKills, Exp!Returns, Exp!Exits, Exp!vars
  <2> QED BY <1>6, <1>10, <2>1, <2>2, <2>3
<1>12. CASE Exp!ReadsPrefix
  <2>1. phone' = phone /\ missed' = missed /\ lpid' = lpid /\ Exp!Op = "read_old"
    BY <1>12 DEF Exp!ReadsPrefix
  <2>2. CASE Advances BY <1>5, <1>6, <1>7, <2>1, <2>2
  <2>3. CASE Stays BY <1>6, <1>10, <2>1, <2>3
  <2> QED BY <1>1, <1>12, <2>2, <2>3, StackKinds
<1> QED BY <1>8, <1>9, <1>11, <1>12, Kinds

LEMMA PassedKillsSteps == ASSUME Exp!IInv, [Exp!Next]_(Exp!vars) PROVE Exp!PassedKills'
<1>1. Exp!TypeOK /\ Exp!PassedKills BY DEF Exp!IInv
<1>2. script' = script /\ (Advances \/ Strikes \/ Pushes \/ Pops \/ Stays) BY AStackKind
<1> SUFFICES ASSUME NEW k \in 2 .. Len(stack'), Exp!Passed(k, "pkill")' PROVE ~phone'.capture
  BY DEF Exp!PassedKills
<1>3. CASE k \in 2 .. Len(stack) /\ Exp!Passed(k, "pkill")
  <2>1. ~phone.capture BY <1>1, <1>3 DEF Exp!PassedKills
  <2>2. Len(stack) > 1 BY <1>1, <1>3, TopOfStack
  <2>3. ~Exp!AtEnd => Exp!Op # "capture" BY <1>1, <2>2, WhatRuns DEF Commands
  <2>4. CASE Exp!Works BY <1>1, <2>1, <2>3, <2>4, EffectOf DEF Exp!Works
  <2>5. CASE Struck
    <3>1. ~Exp!AtEnd /\ phone' \in Exp!FailedEffects(Exp!Op) BY <2>5 DEF Struck, Advances, Strikes
    <3>2. CASE phone' = [phone EXCEPT !.item = "mixed"] BY <1>1, <2>1, <3>2 DEF Exp!TypeOK
    <3> QED BY <1>1, <2>1, <2>3, <3>1, <3>2, EffectOf, FailedEffectOf
  <2>6. CASE Exp!CaptureEnds BY <2>1, <2>6 DEF Exp!CaptureEnds
  <2>7. CASE Exp!ReadsPrefix \/ Interrupted \/ Exp!SignalKills \/ Exp!Returns \/ Exp!Exits \/ UNCHANGED Exp!vars
    BY <2>1, <2>7 DEF Exp!ReadsPrefix, Interrupted, Exp!SignalKills, Exp!Returns, Exp!Exits, Exp!vars
  <2> QED BY <2>4, <2>5, <2>6, <2>7, Kinds
<1>4. CASE /\ (Advances \/ Strikes) /\ ~(Pushes \/ Pops \/ Stays) /\ Exp!Op = "pkill"
  <2>1. CASE Exp!Works BY <1>1, <1>4, <2>1, EffectOf DEF Exp!Works
  <2>2. ~Struck BY <1>4 DEF Struck, Exp!Fallible, Exp!Restoring
  <2>3. ~(Exp!ReadsPrefix \/ Interrupted \/ Exp!SignalKills \/ Exp!Returns \/ Exp!Exits \/ Exp!CaptureEnds \/ UNCHANGED Exp!vars)
    BY <1>1, <1>4, StackKinds DEF Exp!ReadsPrefix
  <2> QED BY <2>1, <2>2, <2>3, Kinds
<1> QED BY <1>1, <1>2, <1>3, <1>4, PassedSteps

\* While the EXIT trap is being served only restore() runs.
LEMMA ServedByRestore ==
  ASSUME Exp!IInv, exiting, ~Exp!AtEnd
  PROVE  Len(stack) > 1 /\ Exp!Op \in Commands
<1>1. Exp!TypeOK /\ stack[1].at = Len(Exp!Body) + 1 BY DEF Exp!IInv, Exp!ExitRestores
<1>2. Len(stack) \in Nat \ {0} /\ Len(Exp!Body) \in Nat BY <1>1, TopOfStack, CodeLengths
<1>3. Len(stack) # 1
  <2>1. Len(stack) = 1 => stack[1].at \in 1 .. Len(Exp!Body) BY <1>1, OpOfTop
  <2> QED BY <1>1, <1>2, <2>1
<1>4. Len(stack) > 1 BY <1>2, <1>3, MoreThanOne
<1> QED BY <1>1, <1>4, WhatRuns

\* What has been put back.
PluginBack == phone.plugin = "good" \/ "plugin_good" \in missed
LoadedBack == phone.loaded = "good" \/ "plugin_good" \in missed \/ "restart" \in missed
PrefBack == phone.pref = 1 \/ "pref_1" \in missed
ItemBack == phone.item = "old" \/ "item_old" \in missed

\* ExitRestores once more, with these.
AllBack ==
  /\ stack[1].at = Len(Exp!Body) + 1
  /\ PluginBack \/ Exp!Ahead("plugin_good")
  /\ \A k \in 2 .. Len(stack) : Exp!Passed(k, "plugin_good") => PluginBack
  /\ LoadedBack \/ Exp!Ahead("restart")
  /\ PrefBack \/ Exp!Ahead("pref_1")
  /\ ItemBack \/ Exp!Ahead("item_old")
  /\ ~phone.capture \/ Exp!Ahead("pkill")
  /\ ~phone.radio \/ Exp!Ahead("kill_lpid")

LEMMA AllIsBack == Exp!ExitRestores <=> (exiting => AllBack)
BY DEF Exp!ExitRestores, AllBack, PluginBack, LoadedBack, PrefBack, ItemBack

LEMMA AllIsBackNext == (exiting' => AllBack') => Exp!ExitRestores'
BY DEF Exp!ExitRestores, AllBack, PluginBack, LoadedBack, PrefBack, ItemBack

LEMMA WorksBack == ASSUME Exp!IInv, Exp!Works, exiting PROVE AllBack'
<1>1. /\ Exp!TypeOK /\ AllBack /\ Exp!OnlyWhatIsRestored /\ Exp!NextUndoes
  BY AllIsBack DEF Exp!IInv
<1>2. /\ script' = script /\ Advances /\ phone' = Exp!Effect(Exp!Op) /\ missed' = missed \ {Exp!Op} /\ ~Exp!AtEnd
  BY DEF Exp!Works, Advances
<1>3. Len(stack) > 1 /\ Exp!Op \in Commands BY <1>2, ServedByRestore
<1>4. \A op : Exp!Ahead(op) /\ op # Exp!Op => Exp!Ahead(op)'
  <2> SUFFICES ASSUME NEW op, Exp!Ahead(op), op # Exp!Op PROVE Exp!Ahead(op)'
    OBVIOUS
  <2> QED BY <1>1, <1>2, AheadSteps
<1>5. Kept(Exp!Body, Exp!Restore) /\ Len(Exp!Restore) \in Nat BY <1>1, CodeLengths
<1>6. Exp!Top.at \in 1 .. Len(Exp!Restore) /\ Exp!Op = Exp!Restore[Exp!Top.at] /\ Exp!Top = stack[Len(stack)]
  BY <1>1, <1>2, <1>3, OpOfTop, TopOfStack
<1>7. PluginBack => PluginBack'
  BY <1>1, <1>2, <1>3, EffectOf DEF PluginBack, Commands
<1>8. Exp!Op = "plugin_good" => PluginBack' BY <1>1, <1>2, EffectOf DEF PluginBack
<1>9. stack'[1].at = Len(Exp!Body)' + 1
  <2>1. Len(stack) # 1 BY <1>1, <1>3, TopOfStack
  <2> QED BY <1>1, <1>2, <2>1, NextSteps DEF AllBack
<1>10. \A k \in 2 .. Len(stack') : Exp!Passed(k, "plugin_good")' => PluginBack'
  <2> SUFFICES ASSUME NEW k \in 2 .. Len(stack'), Exp!Passed(k, "plugin_good")' PROVE PluginBack'
    OBVIOUS
  <2>1. (k \in 2 .. Len(stack) /\ Exp!Passed(k, "plugin_good")) \/ Exp!Op = "plugin_good"
    BY <1>1, <1>2, PassedSteps
  <2> QED BY <1>1, <1>7, <1>8, <2>1 DEF AllBack
<1>11. PluginBack' \/ Exp!Ahead("plugin_good")' BY <1>1, <1>4, <1>7, <1>8 DEF AllBack
<1>12. LoadedBack' \/ Exp!Ahead("restart")'
  <2>1. CASE Exp!Op = "restart"
    <3>1. PICK i \in 1 .. Len(Exp!Restore) : i < Exp!Top.at /\ Exp!Restore[i] = "plugin_good"
      BY <1>5, <1>6, <2>1 DEF Kept
    <3>2. Exp!Passed(Len(stack), "plugin_good") BY <1>6, <3>1 DEF Exp!Passed
    <3>3. PluginBack BY <1>1, <1>3, <3>2, TopOfStack DEF AllBack
    <3>4. phone'.loaded = phone.plugin BY <1>1, <1>2, <2>1, EffectOf
    <3> QED BY <1>2, <2>1, <3>3, <3>4 DEF PluginBack, LoadedBack
  <2>2. CASE Exp!Op = "plugin_good"
    <3>1. PICK j \in 1 .. Len(Exp!Restore) : Exp!Top.at < j /\ Exp!Restore[j] = "restart"
      BY <1>5, <1>6, <2>2 DEF Kept
    <3>2. stack'[Len(stack)].at = Exp!Top.at + 1 /\ Len(stack') = Len(stack)
      BY <1>1, <1>2, StackSteps
    <3>3. Exp!Restore' = Exp!Restore BY <1>2 DEF Exp!Restore, Exp!Code
    <3>4. Len(stack) \in 2 .. Len(stack') BY <1>1, <1>3, <3>2, TopOfStack
    <3>5. stack'[Len(stack)].at <= j BY <1>6, <3>1, <3>2
    <3>6. Exp!Ahead("restart")' BY <3>1, <3>3, <3>4, <3>5 DEF Exp!Ahead
    <3> QED BY <3>6
  <2>3. CASE Exp!Op \notin {"restart", "plugin_good"}
    <3>1. phone'.loaded = phone.loaded BY <1>1, <1>2, <2>3, EffectOf
    <3>2. LoadedBack => LoadedBack' BY <1>2, <2>3, <3>1 DEF LoadedBack
    <3> QED BY <1>1, <1>4, <2>3, <3>2 DEF AllBack
  <2> QED BY <2>1, <2>2, <2>3
<1>13. PrefBack' \/ Exp!Ahead("pref_1")'
  <2>1. PrefBack \/ Exp!Op = "pref_1" => PrefBack'
    BY <1>1, <1>2, <1>3, EffectOf DEF PrefBack, Commands
  <2> QED BY <1>1, <1>4, <2>1 DEF AllBack
<1>14. ItemBack' \/ Exp!Ahead("item_old")'
  <2>1. ItemBack \/ Exp!Op = "item_old" => ItemBack'
    BY <1>1, <1>2, <1>3, EffectOf DEF ItemBack, Commands, Exp!OnlyWhatIsRestored
  <2> QED BY <1>1, <1>4, <2>1 DEF AllBack
<1>15. ~phone'.capture \/ Exp!Ahead("pkill")'
  <2>1. ~phone.capture \/ Exp!Op = "pkill" => ~phone'.capture
    BY <1>1, <1>2, <1>3, EffectOf DEF Commands
  <2> QED BY <1>1, <1>4, <2>1 DEF AllBack
<1>16. ~phone'.radio \/ Exp!Ahead("kill_lpid")'
  <2>1. lpid \/ ~phone.radio
    <3>1. ~Exp!NextInBody("lpid")
      <4>1. Len(Exp!Body) \in Nat BY <1>1, CodeLengths
      <4> QED BY <1>1, <4>1 DEF Exp!NextInBody, AllBack
    <3> QED BY <1>1, <3>1 DEF Exp!NextUndoes
  <2>2. ~phone.radio \/ Exp!Op = "kill_lpid" => ~phone'.radio
    BY <1>1, <1>2, <1>3, <2>1, EffectOf DEF Commands
  <2> QED BY <1>1, <1>4, <2>2 DEF AllBack
<1> QED BY <1>9, <1>10, <1>11, <1>12, <1>13, <1>14, <1>15, <1>16 DEF AllBack

LEMMA StruckBack == ASSUME Exp!IInv, Struck, exiting PROVE AllBack'
<1>1. Exp!TypeOK /\ AllBack /\ Exp!OnlyWhatIsRestored BY AllIsBack DEF Exp!IInv
<1>2. /\ script' = script /\ (Advances \/ Strikes) /\ phone' \in Exp!FailedEffects(Exp!Op) /\ ~Exp!AtEnd
      /\ missed' = missed \union ({Exp!Op} \intersect Exp!Restoring)
      /\ Exp!Op \in Exp!Fallible \union {"wait"}
  BY DEF Struck, Advances, Strikes
<1>3. Len(stack) > 1 /\ Exp!Op \in Commands BY <1>2, ServedByRestore
<1>4. \A op : Exp!Ahead(op) => Exp!Ahead(op)' \/ op = Exp!Op
  <2> SUFFICES ASSUME NEW op, Exp!Ahead(op), op # Exp!Op PROVE Exp!Ahead(op)'
    OBVIOUS
  <2> QED BY <1>1, <1>2, AheadSteps
<1>5. \A op \in Exp!Restoring : op = Exp!Op => op \in missed' BY <1>2
<1>6. missed \subseteq missed' BY <1>2
<1>7. Exp!Restoring = {"hangup", "plugin_good", "pref_1", "restart", "item_old", "online"} BY DEF Exp!Restoring
<1>8. /\ phone'.plugin = phone.plugin \/ phone'.plugin = "good"
      /\ phone'.loaded = phone.loaded \/ Exp!Op = "restart"
      /\ phone'.pref = phone.pref \/ phone'.pref = 1
      /\ phone'.item = phone.item \/ Exp!Op = "item_old"
      /\ phone'.capture = phone.capture /\ phone'.radio = phone.radio
  <2>1. CASE phone' = phone BY <2>1
  <2>2. CASE Exp!Op \in Exp!Fallible /\ phone' = Exp!Effect(Exp!Op)
    <3>1. Exp!Op \notin {"plugin_test", "pref_3", "item_new", "log", "capture", "pkill", "kill_cpid", "kill_lpid"}
      BY <1>3, <2>2 DEF Commands, Exp!Fallible, Exp!Restoring
    <3>2. /\ phone'.plugin = phone.plugin \/ phone'.plugin = "good"
          /\ phone'.loaded = phone.loaded \/ Exp!Op = "restart"
          /\ phone'.pref = phone.pref \/ phone'.pref = 1
          /\ phone'.item = phone.item \/ Exp!Op = "item_old"
      BY <1>1, <2>2, <3>1, EffectOf
    <3>3. (phone'.capture <=> phone.capture) /\ (phone'.radio <=> phone.radio)
      BY <1>1, <2>2, <3>1, EffectOf
    <3>4. {phone.capture, phone.radio, phone'.capture, phone'.radio} \subseteq BOOLEAN
      <4>1. phone \in Phones /\ phone' \in Phones BY <1>1, <2>2, EffectOf DEF Exp!TypeOK, Phones
      <4> QED BY <4>1 DEF Phones
    <3>5. phone'.capture = phone.capture /\ phone'.radio = phone.radio BY <3>3, <3>4
    <3> QED BY <3>2, <3>5
  <2>3. CASE Exp!Op \in {"item_new", "item_old"} /\ phone' = [phone EXCEPT !.item = "mixed"]
    BY <1>1, <1>3, <2>3 DEF Exp!TypeOK, Commands
  <2> QED BY <1>1, <1>2, <2>1, <2>2, <2>3, FailedEffectOf
<1>9. PluginBack => PluginBack' BY <1>6, <1>8 DEF PluginBack
<1>10. Exp!Op = "plugin_good" => PluginBack' BY <1>5, <1>7 DEF PluginBack
<1>11. stack'[1].at = Len(Exp!Body)' + 1
  <2>1. Len(stack) # 1 BY <1>1, <1>3, TopOfStack
  <2> QED BY <1>1, <1>2, <2>1, NextSteps DEF AllBack
<1>12. \A k \in 2 .. Len(stack') : Exp!Passed(k, "plugin_good")' => PluginBack'
  <2> SUFFICES ASSUME NEW k \in 2 .. Len(stack'), Exp!Passed(k, "plugin_good")' PROVE PluginBack'
    OBVIOUS
  <2>1. (k \in 2 .. Len(stack) /\ Exp!Passed(k, "plugin_good")) \/ Exp!Op = "plugin_good"
    BY <1>1, <1>2, PassedSteps
  <2> QED BY <1>1, <1>9, <1>10, <2>1 DEF AllBack
<1>13. PluginBack' \/ Exp!Ahead("plugin_good")' BY <1>1, <1>4, <1>9, <1>10 DEF AllBack
<1>14. LoadedBack' \/ Exp!Ahead("restart")'
  <2>1. Exp!Op = "restart" => LoadedBack' BY <1>5, <1>7 DEF LoadedBack
  <2>2. LoadedBack /\ Exp!Op # "restart" => LoadedBack' BY <1>6, <1>8 DEF LoadedBack
  <2> QED BY <1>1, <1>4, <2>1, <2>2 DEF AllBack
<1>15. PrefBack' \/ Exp!Ahead("pref_1")'
  <2>1. Exp!Op = "pref_1" => PrefBack' BY <1>5, <1>7 DEF PrefBack
  <2>2. PrefBack => PrefBack' BY <1>6, <1>8 DEF PrefBack
  <2> QED BY <1>1, <1>4, <2>1, <2>2 DEF AllBack
<1>16. ItemBack' \/ Exp!Ahead("item_old")'
  <2>1. Exp!Op = "item_old" => ItemBack' BY <1>5, <1>7 DEF ItemBack
  <2>2. ItemBack /\ Exp!Op # "item_old" => ItemBack' BY <1>6, <1>8 DEF ItemBack
  <2> QED BY <1>1, <1>4, <2>1, <2>2 DEF AllBack
<1>17. (~phone'.capture \/ Exp!Ahead("pkill")') /\ (~phone'.radio \/ Exp!Ahead("kill_lpid")')
  <2>1. Exp!Op # "pkill" /\ Exp!Op # "kill_lpid" BY <1>2 DEF Exp!Fallible, Exp!Restoring
  <2> QED BY <1>1, <1>4, <1>8, <2>1 DEF AllBack
<1> QED BY <1>11, <1>12, <1>13, <1>14, <1>15, <1>16, <1>17 DEF AllBack

LEMMA ExitRestoresSteps == ASSUME Exp!IInv, [Exp!Next]_(Exp!vars) PROVE Exp!ExitRestores'
<1>1. Exp!TypeOK /\ Exp!NothingBeforeTrap /\ Exp!OnlyWhatIsRestored /\ (exiting => AllBack) BY AllIsBack DEF Exp!IInv
<1>2. script' = script /\ (Advances \/ Strikes \/ Pushes \/ Pops \/ Stays) BY AStackKind
<1>3. Len(stack) \in Nat \ {0} /\ Len(Exp!Body) \in Nat /\ Len(Exp!Restore) \in Nat /\ Kept(Exp!Body, Exp!Restore)
  BY <1>1, TopOfStack, CodeLengths
<1> SUFFICES ASSUME exiting' PROVE AllBack'
  BY AllIsBackNext
<1>4. CASE Exp!Works BY <1>4, WorksBack DEF Exp!Works
<1>5. CASE Struck BY <1>5, StruckBack DEF Struck
<1>6. ASSUME Pushes \/ Pops \/ Stays, exiting, phone' = phone, missed' = missed PROVE AllBack'
  <2>1. AllBack BY <1>1, <1>6
  <2>2. \A op : Exp!Ahead(op) => Exp!Ahead(op)'
    <3> SUFFICES ASSUME NEW op, Exp!Ahead(op) PROVE Exp!Ahead(op)'
      OBVIOUS
    <3>1. CASE Stays BY <1>2, <3>1 DEF Stays, Exp!Ahead, Exp!Restore, Exp!Code
    <3> QED BY <1>1, <1>2, <1>6, <3>1, AheadSteps
  <2>3. stack'[1].at = Len(Exp!Body)' + 1
    <3>1. Len(stack) = 1 => ~(Advances \/ Strikes)
      <4>1. Len(stack) = 1 /\ ~Exp!AtEnd => stack[1].at \in 1 .. Len(Exp!Body) BY <1>1, OpOfTop
      <4> QED BY <1>3, <2>1, <4>1 DEF AllBack, Advances, Strikes
    <3> QED BY <1>1, <1>2, <2>1, <3>1, NextSteps DEF AllBack
  <2>4. /\ PluginBack' = PluginBack /\ LoadedBack' = LoadedBack /\ PrefBack' = PrefBack
        /\ ItemBack' = ItemBack
    BY <1>6 DEF PluginBack, LoadedBack, PrefBack, ItemBack
  <2>5. \A k \in 2 .. Len(stack') : Exp!Passed(k, "plugin_good")' => PluginBack'
    <3> SUFFICES ASSUME NEW k \in 2 .. Len(stack'), Exp!Passed(k, "plugin_good")' PROVE PluginBack'
      OBVIOUS
    <3>1. k \in 2 .. Len(stack) /\ Exp!Passed(k, "plugin_good") BY <1>1, <1>2, <1>6, PassedSteps
    <3> QED BY <2>1, <2>4, <3>1 DEF AllBack
  <2> QED BY <1>6, <2>1, <2>2, <2>3, <2>4, <2>5 DEF AllBack
<1>7. CASE Interrupted \/ Exp!SignalKills \/ Exp!Returns \/ UNCHANGED Exp!vars
  <2>1. Pushes \/ Pops \/ Stays BY <1>1, <1>7, StackKinds
  <2> QED BY <1>6, <1>7, <2>1 DEF Interrupted, Exp!SignalKills, Exp!Returns, Exp!vars
<1>8. CASE Exp!Exits
  <2>1. CASE exiting
    <3>1. Stays /\ phone' = phone /\ missed' = missed BY <1>8, <2>1 DEF Exp!Exits, Stays
    <3> QED BY <1>6, <2>1, <3>1
  <2>2. CASE ~exiting
    <3>1. Pushes /\ phone' = phone /\ Exp!AtEnd /\ Len(stack) = 1 BY <1>8, <2>2 DEF Exp!Exits, Pushes
    <3>2. stack[1].at = Len(Exp!Body) + 1
      <4>1. stack[1].at > Len(Exp!Body) BY <1>1, <3>1, TopOfStack DEF Exp!AtEnd, Exp!Body
      <4>2. stack[1].at <= Len(Exp!Body) + 1 BY <1>1, StackIsFramed DEF Framed
      <4>3. stack[1].at \in Nat BY <1>1, <3>1, TopOfStack
      <4> QED BY <1>3, <4>1, <4>2, <4>3
    <3>3. stack'[1].at = Len(Exp!Body)' + 1
      <4>1. stack'[1] = stack[1] BY <1>1, <1>3, <3>1, StackSteps
      <4> QED BY <1>2, <3>2, <4>1 DEF Exp!Body, Exp!Code
    <3>4. \A op : Exp!InRestore(op) => Exp!Ahead(op)'
      <4> SUFFICES ASSUME NEW op, Exp!InRestore(op) PROVE Exp!Ahead(op)'
        OBVIOUS
      <4> QED BY <1>1, <1>2, <3>1, AheadSteps
    <3>5. Exp!InRestore("pkill") /\ (Exp!InRestore("plugin_good") => Exp!InRestore("restart") /\ Exp!InRestore("pref_1"))
      BY <1>3 DEF Kept, Exp!InRestore
    <3>6. \A k \in 2 .. Len(stack') : ~Exp!Passed(k, "plugin_good")'
      <4> SUFFICES ASSUME NEW k \in 2 .. Len(stack'), Exp!Passed(k, "plugin_good")' PROVE FALSE
        OBVIOUS
      <4>1. k \in 2 .. Len(stack) BY <1>1, <1>2, <3>1, PassedSteps
      <4> QED BY <3>1, <4>1
    <3>7. (Exp!InRestore("plugin_good") \/ PluginBack') /\ (Exp!InRestore("plugin_good") \/ LoadedBack')
          /\ (Exp!InRestore("plugin_good") \/ PrefBack') /\ (Exp!InRestore("item_old") \/ ItemBack')
      BY <1>1, <3>1 DEF Exp!OnlyWhatIsRestored, PluginBack, LoadedBack, PrefBack, ItemBack
    <3>8. ~phone'.radio \/ Exp!Ahead("kill_lpid")' BY <1>1, <3>1, <3>4 DEF Exp!OnlyWhatIsRestored
    <3> QED BY <3>3, <3>4, <3>5, <3>6, <3>7, <3>8 DEF AllBack
  <2> QED BY <2>1, <2>2
<1>9. CASE Exp!CaptureEnds
  <2>1. Stays /\ exiting /\ missed' = missed BY <1>9 DEF Exp!CaptureEnds, Stays
  <2>2. /\ phone'.plugin = phone.plugin /\ phone'.loaded = phone.loaded /\ phone'.pref = phone.pref
        /\ phone'.item = phone.item /\ phone'.radio = phone.radio /\ ~phone'.capture
    BY <1>1, <1>9 DEF Exp!CaptureEnds, Exp!TypeOK
  <2>3. stack' = stack /\ script' = script BY <1>2, <2>1 DEF Stays
  <2>4. /\ \A op : Exp!Ahead(op)' = Exp!Ahead(op)
        /\ \A k, op : Exp!Passed(k, op)' = Exp!Passed(k, op)
    BY <2>3 DEF Exp!Ahead, Exp!Passed, Exp!Restore, Exp!Code
  <2>5. PluginBack' = PluginBack /\ LoadedBack' = LoadedBack /\ PrefBack' = PrefBack /\ ItemBack' = ItemBack
    BY <2>1, <2>2 DEF PluginBack, LoadedBack, PrefBack, ItemBack
  <2>6. Exp!Body' = Exp!Body BY <2>3 DEF Exp!Body, Exp!Code
  <2>7. AllBack BY <1>1, <2>1
  <2> QED BY <2>2, <2>3, <2>4, <2>5, <2>6, <2>7 DEF AllBack
<1>10. ~Exp!ReadsPrefix
  <2> SUFFICES ASSUME Exp!ReadsPrefix PROVE FALSE
    OBVIOUS
  <2>1. exiting /\ Exp!Op = "read_old" /\ ~Exp!AtEnd BY DEF Exp!ReadsPrefix
  <2> QED BY <2>1, ServedByRestore DEF Commands
<1> QED BY <1>4, <1>5, <1>7, <1>8, <1>9, <1>10, Kinds

LEMMA RestoredAtEndSteps == ASSUME Exp!IInv, [Exp!Next]_(Exp!vars) PROVE Exp!RestoredAtEnd'
<1>1. Exp!TypeOK /\ Exp!NothingBeforeTrap /\ (exiting => AllBack) /\ Exp!RestoredAtEnd /\ Exp!NextUndoes
  BY AllIsBack DEF Exp!IInv
<1> SUFFICES ASSUME over' # "no" PROVE Exp!RestoredAtEnd'
  BY DEF Exp!RestoredAtEnd
<1>2. CASE over = "no"
  <2>1. CASE ~trapped
    <3>1. phone = Exp!AtStart BY <1>1, <2>1 DEF Exp!NothingBeforeTrap
    <3>2. phone' = phone
      BY <1>2, <2>1, <3>1, Kinds
      DEF Exp!Works, Struck, Exp!ReadsPrefix, Interrupted, Exp!SignalKills, Exp!Returns, Exp!Exits, Exp!CaptureEnds, Exp!vars
    <3> QED BY <3>1, <3>2 DEF Exp!RestoredAtEnd, Exp!AtStart
  <2>2. CASE trapped
    <3>1. Exp!Exits /\ exiting
      <4>1. ~Exp!SignalKills BY <2>2 DEF Exp!SignalKills
      <4>2. ~Exp!ReadsPrefix
        <5> SUFFICES ASSUME Exp!ReadsPrefix PROVE FALSE
          OBVIOUS
        <5>1. stack[1].at = 1 BY <1>1, WhatRuns DEF Exp!ReadsPrefix
        <5> QED BY <1>1, <2>2, <5>1 DEF Exp!NothingBeforeTrap
      <4>3. ~(Exp!Works \/ Struck \/ Interrupted \/ Exp!Returns \/ Exp!CaptureEnds \/ UNCHANGED Exp!vars)
        BY <1>2 DEF Exp!Works, Struck, Interrupted, Exp!Returns, Exp!CaptureEnds, Exp!vars
      <4>4. Exp!Exits BY <4>1, <4>2, <4>3, Kinds
      <4> QED BY <1>2, <4>4 DEF Exp!Exits
    <3>2. phone' = phone /\ missed' = missed /\ Len(stack) = 1 BY <3>1 DEF Exp!Exits
    <3>3. \A op : ~Exp!Ahead(op) BY <3>2 DEF Exp!Ahead
    <3>4. AllBack BY <1>1, <3>1
    <3>5. ~Exp!NextInBody("online") /\ ~Exp!NextInBody("hangup")
      <4>1. Len(Exp!Body) \in Nat BY <1>1, CodeLengths
      <4> QED BY <3>4, <4>1 DEF Exp!NextInBody, AllBack
    <3>6. phone.online \/ "online" \in missed BY <1>1, <3>2, <3>5 DEF Exp!NextUndoes
    <3>7. ~phone.call \/ "hangup" \in missed BY <1>1, <3>5 DEF Exp!NextUndoes
    <3> QED
      BY <3>2, <3>3, <3>4, <3>6, <3>7
      DEF Exp!RestoredAtEnd, AllBack, PluginBack, LoadedBack, PrefBack, ItemBack
  <2> QED BY <2>1, <2>2
<1>3. CASE over # "no"
  <2>1. ~Exp!CaptureEnds BY <1>1, <1>3 DEF Exp!CaptureEnds, Exp!RestoredAtEnd
  <2>2. UNCHANGED Exp!vars
    BY <1>3, <2>1, Kinds DEF Exp!Works, Struck, Exp!ReadsPrefix, Interrupted, Exp!SignalKills, Exp!Returns, Exp!Exits
  <2> QED BY <1>1, <1>3, <2>2 DEF Exp!RestoredAtEnd, Exp!vars
<1> QED BY <1>2, <1>3

LEMMA ExperimentStarts == Exp!Init => Exp!IInv
<1> SUFFICES ASSUME Exp!Init PROVE Exp!IInv
  OBVIOUS
<1> DEFINE first == [code |-> "body", at |-> 1]
<1>1. /\ script \in Exp!Scripts /\ stack = <<first>> /\ ~trapped /\ ~exiting /\ over = "no"
      /\ saved = "none" /\ phone = Exp!AtStart /\ missed = {}
  BY DEF Exp!Init
<1>2. Len(Exp!Body) \in Nat /\ Len(Exp!Body) >= 2 BY <1>1, CodeIsKept DEF Kept
<1>3. first \in Frame BY DEF Frame
<1>4. Len(stack) = 1 /\ stack[1] = first /\ stack \in Seq(Frame) BY <1>1, <1>3
<1>5. Exp!TypeOK
  <2>1. phone \in Phones BY <1>1 DEF Exp!AtStart, Phones
  <2>2. \A k \in 1 .. Len(stack) : stack[k].at <= Len(Exp!Code(script, stack[k].code)) + 1
    BY <1>2, <1>4 DEF Exp!Body
  <2> QED BY <1>1, <1>4, <2>1, <2>2 DEF Exp!TypeOK, Frame, Phones
<1>6. Exp!NothingBeforeTrap /\ Exp!OnlyWhatIsRestored /\ Exp!NextUndoes
  BY <1>1, <1>4 DEF Exp!NothingBeforeTrap, Exp!OnlyWhatIsRestored, Exp!NextUndoes, Exp!AtStart
<1>7. Exp!PassedKills /\ Exp!ExitRestores /\ Exp!RestoredAtEnd
  BY <1>1, <1>4 DEF Exp!PassedKills, Exp!ExitRestores, Exp!RestoredAtEnd
<1> QED BY <1>5, <1>6, <1>7 DEF Exp!IInv

LEMMA ExperimentSteps == ASSUME Exp!IInv, [Exp!Next]_(Exp!vars) PROVE Exp!IInv'
BY TypeSteps, NothingBeforeTrapSteps, OnlyWhatIsRestoredSteps, NextUndoesSteps, PassedKillsSteps,
   ExitRestoresSteps, RestoredAtEndSteps DEF Exp!IInv

-----------------------------------------------------------------------------
(* Swap!: ConfigSwap.                                                      *)

LEMMA SwapStarts == Swap!Init => Swap!IInv
BY DEF Swap!Init, Swap!IInv, Swap!TypeOK, Swap!ReadFirst, Swap!Values

\* What efswrite.py may do to the item: a prefix is written only over a read that
\* was cut too.
LEMMA WritesAreValues ==
  ASSUME Swap!TypeOK, NEW value \in Swap!Values, Swap!Write(value)
  PROVE  /\ item' \in Swap!Values /\ cut' \in BOOLEAN
         /\ backup = "prefix" => cut' \/ (item' = item /\ cut' = cut)
<1>1. CASE /\ item' = (IF backup = "prefix" THEN item ELSE value) /\ cut' = cut
  BY <1>1 DEF Swap!TypeOK
<1>2. CASE /\ item' \in {item, value, "mixed"} /\ cut' = (cut \/ backup = "prefix")
  BY <1>2 DEF Swap!TypeOK, Swap!Values
<1> QED BY <1>1, <1>2 DEF Swap!Write

LEMMA WritesBackValues ==
  ASSUME Swap!TypeOK, backup \notin {"none", "empty"}, Swap!WriteBack
  PROVE  /\ item' \in Swap!Values /\ cut' \in BOOLEAN
         /\ backup = "prefix" => cut' \/ (item' = item /\ cut' = cut)
<1>1. CASE backup = "prefix"
  <2>1. PICK value \in Swap!Values : Swap!Write(value) BY <1>1 DEF Swap!WriteBack
  <2> QED BY <2>1, WritesAreValues
<1>2. CASE backup # "prefix"
  <2>1. backup \in Swap!Values /\ Swap!Write(backup)
    BY <1>2 DEF Swap!WriteBack, Swap!TypeOK
  <2> QED BY <2>1, WritesAreValues
<1> QED BY <1>1, <1>2

LEMMA SwapSteps == ASSUME Swap!IInv, [Swap!Next]_(Swap!vars) PROVE Swap!IInv'
<1> USE DEF Swap!IInv, Swap!TypeOK, Swap!ReadFirst, Swap!Values, Swap!Fault
<1>1. CASE Swap!Begin BY <1>1 DEF Swap!Begin
<1>2. CASE Swap!Read BY <1>2 DEF Swap!Read
<1>3. CASE Swap!Check BY <1>3 DEF Swap!Check
<1>4. CASE Swap!WriteNew
  <2>1. PICK new \in {"consensus", "zeros"} : Swap!Write(new) BY <1>4 DEF Swap!WriteNew
  <2>2. /\ item' \in Swap!Values /\ cut' \in BOOLEAN
        /\ backup = "prefix" => cut' \/ (item' = item /\ cut' = cut)
    BY <2>1, WritesAreValues
  <2> QED BY <1>4, <2>2 DEF Swap!WriteNew
<1>5. CASE Swap!Verdict BY <1>5 DEF Swap!Verdict
<1>6. CASE Swap!Restore
  <2>1. /\ item' \in Swap!Values /\ cut' \in BOOLEAN
        /\ backup = "prefix" => cut' \/ (item' = item /\ cut' = cut)
    BY <1>6, WritesBackValues DEF Swap!Restore
  <2> QED BY <1>6, <2>1 DEF Swap!Restore
<1>7. CASE Swap!Kill BY <1>7 DEF Swap!Kill
<1>8. CASE Swap!SipextRestores
  <2>1. CASE backup \in {"none", "empty"}
    BY <1>8, <2>1 DEF Swap!SipextRestores
  <2>2. CASE backup \notin {"none", "empty"}
    <3>1. /\ item' \in Swap!Values /\ cut' \in BOOLEAN
          /\ backup = "prefix" => cut' \/ (item' = item /\ cut' = cut)
      BY <1>8, <2>2, WritesBackValues DEF Swap!SipextRestores
    <3> QED BY <1>8, <2>2, <3>1 DEF Swap!SipextRestores
  <2> QED BY <2>1, <2>2
<1>9. CASE UNCHANGED Swap!vars BY <1>9 DEF Swap!vars
<1> QED BY <1>1, <1>2, <1>3, <1>4, <1>5, <1>6, <1>7, <1>8, <1>9 DEF Swap!Next

-----------------------------------------------------------------------------
(* The programs together.                                                  *)

IInv ==
  /\ running = "experiment" => Exp!IInv
  /\ running = "swap" => Swap!IInv

\* Every state that the scripts, signals, failing commands and kills can reach
\* satisfies the invariant of the program that runs.
THEOREM Invariance == Spec => []IInv
<1>1. Init => IInv BY ExperimentStarts, SwapStarts DEF Init, IInv
<1>2. IInv /\ [Next]_vars => IInv' BY OwnSteps, ExperimentSteps, SwapSteps DEF IInv
<1> QED BY <1>1, <1>2, PTL DEF Spec

\* However often and wherever an experiment was interrupted, when its shell is
\* gone the phone is as it was, but for what the last command that restores it
\* failed to do (restore() of the six scripts).
THEOREM PhoneIsRestored == Spec => []RestoredAtEnd
<1>1. IInv => RestoredAtEnd BY DEF IInv, RestoredAtEnd, Exp!IInv
<1> QED BY <1>1, Invariance, PTL

\* The trap stops the script's own capture before it puts anything back, also
\* where a signal interrupts restore() itself.
THEOREM RestoresOnItsOwn == Spec => []RestoresAlone
<1>1. ASSUME Exp!IInv PROVE Exp!RestoresAlone
  <2> SUFFICES ASSUME Exp!Top.code = "restore", ~Exp!AtEnd,
                      Exp!Op \in {"plugin_good", "pref_1", "item_old", "online"}
               PROVE  ~phone.capture
    BY DEF Exp!RestoresAlone
  <2>1. Exp!TypeOK /\ Exp!PassedKills BY <1>1 DEF Exp!IInv
  <2>2. Len(stack) \in Nat \ {0} /\ Exp!Top = stack[Len(stack)] /\ (Len(stack) = 1 => Exp!Top.code = "body")
    BY <2>1, TopOfStack
  <2>3. Len(stack) > 1 /\ Len(stack) \in 2 .. Len(stack)
    <3>1. Len(stack) # 1 BY <2>2
    <3> QED BY <2>2, <3>1, MoreThanOne
  <2>4. Exp!Top.at \in 1 .. Len(Exp!Restore) /\ Exp!Op = Exp!Restore[Exp!Top.at] BY <2>1, <2>3, OpOfTop
  <2>5. PICK i \in 1 .. Len(Exp!Restore) : i < Exp!Top.at /\ Exp!Restore[i] = "pkill"
    BY <2>1, <2>4, CodeLengths DEF Kept
  <2>6. Exp!Passed(Len(stack), "pkill") BY <2>2, <2>5 DEF Exp!Passed
  <2> QED BY <2>1, <2>3, <2>6 DEF Exp!PassedKills
<1>2. IInv => RestoresAlone BY <1>1 DEF IInv, RestoresAlone
<1> QED BY <1>2, Invariance, PTL

\* An unattended run never dials while its previous call still stands, unless
\* hanging that one up failed (cfgdial.sh, sipext.sh).
THEOREM LineIsIdle == Spec => DialsOnIdleLine
<1>1. IInv => (running = "experiment" /\ ~Exp!AtEnd /\ Exp!Op = "dial" /\ stack' = Exp!Below =>
                 (phone.call => "hangup" \in missed))
  <2> SUFFICES ASSUME Exp!IInv, ~Exp!AtEnd, Exp!Op = "dial", phone.call PROVE "hangup" \in missed
    BY DEF IInv
  <2>1. Exp!TypeOK /\ Exp!NextUndoes BY DEF Exp!IInv
  <2>2. Len(stack) \in Nat \ {0} /\ ~(Len(stack) > 1) BY <2>1, WhatRuns, TopOfStack DEF Commands
  <2>3. Len(stack) = 1 BY <2>2, MoreThanOne
  <2>4. Exp!Op = Exp!Body[stack[1].at] BY <2>1, <2>3, OpOfTop
  <2>5. ~Exp!NextInBody("hangup") BY <2>4 DEF Exp!NextInBody
  <2> QED BY <2>1, <2>5 DEF Exp!NextUndoes
<1> QED BY <1>1, Invariance, PTL DEF DialsOnIdleLine

\* A run of cfgswap.sh that could read the item can be undone from the file at
\* any point, and one that could only read part of it never changes the item
\* (cfgswap.sh:27, 47).
THEOREM SwapCanBeUndone == Spec => []SwapIsRecoverable
<1>1. IInv => SwapIsRecoverable
  BY DEF IInv, SwapIsRecoverable, Swap!IInv, Swap!ReadFirst, Swap!SwapIsRecoverable
<1> QED BY <1>1, Invariance, PTL
=============================================================================
