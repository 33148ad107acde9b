--------------------------- MODULE MCObserve_proofs --------------------------
(***************************************************************************)
(* Proofs about the programs that watch.                                   *)
(***************************************************************************)
EXTENDS MCObserve, SequenceTheorems, FiniteSetTheorems, TLAPS

-----------------------------------------------------------------------------
(* Sequences.                                                              *)

LEMMA AppendFacts ==
  ASSUME NEW S, NEW s \in Seq(S), NEW e \in S
  PROVE  /\ Append(s, e) \in Seq(S) /\ Append(s, e) # <<>> /\ Len(Append(s, e)) = Len(s) + 1
         /\ DOMAIN s = 1 .. Len(s) /\ DOMAIN Append(s, e) = 1 .. Len(s) + 1 /\ Len(s) \in Nat
         /\ \A i \in 1 .. Len(s) : Append(s, e)[i] = s[i]
         /\ Append(s, e)[Len(s) + 1] = e
OBVIOUS

LEMMA TailFacts ==
  ASSUME NEW S, NEW s \in Seq(S), s # <<>>
  PROVE  /\ Tail(s) \in Seq(S) /\ Head(s) = s[1] /\ s[1] \in S /\ Len(s) \in Nat \ {0}
         /\ Len(Tail(s)) = Len(s) - 1
         /\ DOMAIN s = 1 .. Len(s) /\ DOMAIN Tail(s) = 1 .. Len(s) - 1
         /\ \A i \in 1 .. Len(s) - 1 : Tail(s)[i] = s[i + 1]
         /\ \A i \in 2 .. Len(s) : s[i] = Tail(s)[i - 1]
OBVIOUS

LEMMA ConcatFacts ==
  ASSUME NEW S, NEW s \in Seq(S), NEW t \in Seq(S)
  PROVE  /\ s \o t \in Seq(S) /\ Len(s) \in Nat /\ Len(t) \in Nat
         /\ Len(s \o t) = Len(s) + Len(t)
         /\ DOMAIN s = 1 .. Len(s) /\ DOMAIN t = 1 .. Len(t) /\ DOMAIN (s \o t) = 1 .. Len(s) + Len(t)
         /\ \A i \in 1 .. Len(s) : (s \o t)[i] = s[i]
         /\ \A i \in 1 .. Len(t) : (s \o t)[Len(s) + i] = t[i]
         /\ \A i \in Len(s) + 1 .. Len(s) + Len(t) : (s \o t)[i] = t[i - Len(s)]
OBVIOUS

-----------------------------------------------------------------------------
(* Screen!: TouchInjector.                                                 *)

(* What the script emits at each place of a tap.                           *)
LEMMA ScriptAt ==
  ASSUME NEW s \in 0 .. 12 * Taps - 1, Taps \in Nat
  PROVE  /\ Len(Screen!Script) = 12 * Taps
         /\ Screen!Script[s + 1] = Screen!Tap(s \div 12)[(s % 12) + 1]
<1>1. 12 * Taps \in Nat OBVIOUS
<1>2. Len(Screen!Script) = 12 * Taps BY <1>1 DEF Screen!Script
<1>3. s + 1 \in 1 .. 12 * Taps /\ s + 1 - 1 = s OBVIOUS
<1> QED BY <1>2, <1>3 DEF Screen!Script

LEMMA ScreenStarts ==
  ASSUME Screen!Init, Taps \in Nat PROVE Screen!IInv
<1>1. step = 0 /\ step % 12 = 0 /\ frames = <<>> BY DEF Screen!Init
<1>2. Screen!AxesFollow BY <1>1 DEF Screen!Init, Screen!AxesFollow, Screen!Place, Screen!Codes
<1>3. axes \in [Screen!Codes -> Int] /\ changed \subseteq Screen!Codes BY DEF Screen!Init
<1>4. Screen!TapsArrive BY <1>1 DEF Screen!TapsArrive
<1> QED BY <1>1, <1>2, <1>3, <1>4 DEF Screen!IInv

(* An event of the core.                                                   *)
LEMMA EmitKeeps ==
  ASSUME Screen!IInv, Screen!emit, Taps \in Nat, X \in Int, Y \in Int PROVE Screen!IInv'
<1> DEFINE code == Screen!Script[step + 1][1]
           value == Screen!Script[step + 1][2]
           p == step % 12
           t == step \div 12
<1>1. /\ step \in 0 .. 12 * Taps /\ axes \in [Screen!Codes -> Int] /\ changed \subseteq Screen!Codes
      /\ Screen!AxesFollow
  BY DEF Screen!IInv
<1>2. Len(Screen!Script) = 12 * Taps
  BY DEF Screen!Script
<1>3. step \in 0 .. 12 * Taps - 1 BY <1>1, <1>2 DEF Screen!emit
<1>4. Screen!Script[step + 1] = Screen!Tap(t)[p + 1] BY <1>3, ScriptAt
<1>5. p \in 0 .. 11 /\ t \in Nat /\ step = 12 * t + p BY <1>3
<1>6. /\ step' = step + 1 /\ axes' = [axes EXCEPT ![code] = value] /\ frames' = frames
      /\ changed' = IF axes[code] = value THEN changed ELSE changed \union {code}
      /\ code # "SYN"
  BY DEF Screen!emit
<1>7. p \notin {7, 11}
  <2>1. code = Screen!Tap(t)[p + 1][1] BY <1>4
  <2>2. Screen!Tap(t)[8][1] = "SYN" /\ Screen!Tap(t)[12][1] = "SYN" BY DEF Screen!Tap
  <2> HIDE DEF code, p, t
  <2> QED BY <1>6, <2>1, <2>2
<1>8. step' \div 12 = t /\ step' % 12 = p + 1
  BY <1>5, <1>6, <1>7
<1>9. /\ code = Screen!Tap(t)[p + 1][1] /\ value = Screen!Tap(t)[p + 1][2] BY <1>4
<1> HIDE DEF code, value, p, t
<1>10. /\ p = 0 => code = "ABS_MT_SLOT" /\ value = 0
       /\ p = 1 => code = "ABS_MT_TRACKING_ID" /\ value = 100 + t
       /\ p = 2 => code = "ABS_MT_POSITION_X" /\ value = X
       /\ p = 3 => code = "ABS_MT_POSITION_Y" /\ value = Y
       /\ p = 4 => code = "BTN_TOUCH" /\ value = 1
       /\ p = 5 => code = "ABS_X" /\ value = X
       /\ p = 6 => code = "ABS_Y" /\ value = Y
       /\ p = 8 => code = "ABS_MT_SLOT" /\ value = 0
       /\ p = 9 => code = "ABS_MT_TRACKING_ID" /\ value = -1
       /\ p = 10 => code = "BTN_TOUCH" /\ value = 0
  BY <1>9 DEF Screen!Tap
<1>11. p \in {0, 1, 2, 3, 4, 5, 6, 8, 9, 10} BY <1>5, <1>7
<1>12. code \in Screen!Codes /\ value \in Int BY <1>5, <1>10, <1>11 DEF Screen!Codes
<1>13. axes' \in [Screen!Codes -> Int] /\ changed' \subseteq Screen!Codes BY <1>1, <1>6, <1>12
<1>14. \A c \in Screen!Codes : axes'[c] = IF c = code THEN value ELSE axes[c] BY <1>1, <1>6, <1>12
<1>15. {"ABS_MT_TRACKING_ID", "BTN_TOUCH", "ABS_MT_POSITION_X", "ABS_MT_POSITION_Y"} \subseteq Screen!Codes
  BY DEF Screen!Codes
<1>16. Screen!AxesFollow'
  <2> USE DEF Screen!AxesFollow, Screen!Place
  <2>1. axes'["ABS_MT_TRACKING_ID"] = IF p + 1 \in 2 .. 9 THEN 100 + t ELSE -1
    BY <1>1, <1>5, <1>10, <1>11, <1>14, <1>15 DEF p, t
  <2>2. axes'["BTN_TOUCH"] = IF p + 1 \in 5 .. 10 THEN 1 ELSE 0
    BY <1>1, <1>5, <1>10, <1>11, <1>14, <1>15 DEF p
  <2>3. step + 1 > 2 => axes'["ABS_MT_POSITION_X"] = X
    BY <1>1, <1>5, <1>10, <1>11, <1>14, <1>15
  <2>4. step + 1 > 3 => axes'["ABS_MT_POSITION_Y"] = Y
    BY <1>1, <1>5, <1>10, <1>11, <1>14, <1>15
  <2>5. p + 1 \in (2 .. 7) \union {10, 11} => "ABS_MT_TRACKING_ID" \in changed'
    BY <1>1, <1>5, <1>6, <1>10, <1>11 DEF p
  <2>6. p + 1 \in (5 .. 7) \union {11} => "BTN_TOUCH" \in changed'
    BY <1>1, <1>5, <1>6, <1>10, <1>11 DEF p
  <2> QED BY <1>6, <1>8, <2>1, <2>2, <2>3, <2>4, <2>5, <2>6
<1>17. Screen!InContact' <=> Screen!InContact
  BY <1>5, <1>8, <1>11 DEF Screen!InContact, Screen!Place, p
<1>18. Screen!TapsArrive'
  <2>1. step' = Len(Screen!Script) => ~Screen!InContact'
    BY <1>2, <1>3, <1>6 DEF Screen!InContact, Screen!Place
  <2> QED BY <1>6, <1>17, <2>1 DEF Screen!IInv, Screen!TapsArrive
<1> QED BY <1>3, <1>6, <1>13, <1>16, <1>17, <1>18 DEF Screen!IInv, Screen!emit

LEMMA LastOfAppend ==
  ASSUME NEW S, NEW s \in Seq(S), NEW e \in S
  PROVE  /\ Append(s, e) \in Seq(S) /\ Append(s, e) # <<>> /\ Screen!Last(Append(s, e)) = e
         /\ DOMAIN s = 1 .. Len(s) /\ DOMAIN Append(s, e) = 1 .. Len(s) + 1 /\ Len(s) \in Nat
         /\ \A i \in 1 .. Len(s) : Append(s, e)[i] = s[i]
         /\ Append(s, e)[Len(s) + 1] = e
         /\ s # <<>> => Screen!Last(s) = s[Len(s)] /\ Len(s) > 0
BY DEF Screen!Last

(* A report: a reader gets a contact or its lift.                          *)
LEMMA SynKeeps ==
  ASSUME Screen!IInv, Screen!syn, Taps \in Nat, X \in Int, Y \in Int PROVE Screen!IInv'
<1> DEFINE p == step % 12
           t == step \div 12
           f == [codes |-> changed, axes |-> axes]
           down == axes["ABS_MT_TRACKING_ID"] # -1
<1>1. /\ step \in 0 .. 12 * Taps /\ axes \in [Screen!Codes -> Int] /\ changed \subseteq Screen!Codes
      /\ Screen!AxesFollow /\ frames \in Seq([codes : SUBSET Screen!Codes, axes : [Screen!Codes -> Int]])
  BY DEF Screen!IInv
<1>2. Len(Screen!Script) = 12 * Taps
  BY DEF Screen!Script
<1>3. step \in 0 .. 12 * Taps - 1 BY <1>1, <1>2 DEF Screen!syn
<1>4. Screen!Script[step + 1] = Screen!Tap(t)[p + 1] BY <1>3, ScriptAt
<1>5. p \in 0 .. 11 /\ t \in Nat /\ step = 12 * t + p BY <1>3
<1>6. /\ step' = step + 1 /\ axes' = axes /\ changed' = {}
      /\ frames' = IF opened /\ changed # {} THEN Append(frames, f) ELSE frames
      /\ Screen!Script[step + 1][1] = "SYN"
  BY DEF Screen!syn
<1>7. p \in {7, 11}
  <2>1. Screen!Tap(t)[p + 1][1] = "SYN" BY <1>4, <1>6
  <2>2. p \in {0, 1, 2, 3, 4, 5, 6, 7, 8, 9, 10, 11} BY <1>5
  <2> HIDE DEF p, t
  <2>3. \A i \in {1, 2, 3, 4, 5, 6, 7, 9, 10, 11} : Screen!Tap(t)[i][1] # "SYN" BY DEF Screen!Tap
  <2>4. p \notin {7, 11} => p + 1 \in {1, 2, 3, 4, 5, 6, 7, 9, 10, 11} BY <2>2
  <2> QED BY <2>1, <2>3, <2>4
<1>8. step' % 12 = IF p = 7 THEN 8 ELSE 0 BY <1>5, <1>6, <1>7
<1>9. p = 7 => step' \div 12 = t BY <1>5, <1>6
<1>10. /\ down <=> p = 7
       /\ axes["BTN_TOUCH"] = IF p = 7 THEN 1 ELSE 0
       /\ axes["ABS_MT_POSITION_X"] = X /\ axes["ABS_MT_POSITION_Y"] = Y
       /\ {"ABS_MT_TRACKING_ID", "BTN_TOUCH"} \subseteq changed
       /\ axes["ABS_MT_TRACKING_ID"] = IF p = 7 THEN 100 + t ELSE -1
  BY <1>1, <1>5, <1>7 DEF Screen!AxesFollow, Screen!Place
<1>11. Screen!AxesFollow'
  <2>1. step' > 3 /\ step' % 12 \notin (2 .. 7) \union {10, 11} /\ step' % 12 \notin (5 .. 7) \union {11}
    <3>1. step' % 12 \in {0, 8} BY <1>8
    <3> HIDE DEF p, t
    <3>2. step' > 3 BY <1>5, <1>6, <1>7
    <3> QED BY <3>1, <3>2
  <2>2. axes'["ABS_MT_TRACKING_ID"] = IF step' % 12 \in 2 .. 9 THEN 100 + step' \div 12 ELSE -1
    BY <1>6, <1>7, <1>8, <1>9, <1>10
  <2>3. axes'["BTN_TOUCH"] = IF step' % 12 \in 5 .. 10 THEN 1 ELSE 0
    BY <1>6, <1>7, <1>8, <1>10
  <2> HIDE DEF p, t
  <2> QED BY <1>6, <1>10, <2>1, <2>2, <2>3 DEF Screen!AxesFollow, Screen!Place
<1>12. Screen!InContact' <=> down
  BY <1>7, <1>8, <1>10 DEF Screen!InContact, Screen!Place
<1>13. ~down <=> Screen!InContact
  BY <1>7, <1>10 DEF Screen!InContact, Screen!Place
<1>14. step' = Len(Screen!Script) => ~Screen!InContact'
  BY <1>2, <1>3, <1>6 DEF Screen!InContact, Screen!Place
<1>15. CASE ~(opened /\ changed # {})
  <2>1. changed # {} /\ frames = <<>> /\ frames' = frames BY <1>6, <1>10, <1>15 DEF Screen!IInv
  <2>2. Screen!TapsArrive' BY <2>1 DEF Screen!TapsArrive
  <2> QED BY <1>1, <1>3, <1>6, <1>11, <2>1, <2>2 DEF Screen!IInv
<1>16. CASE opened /\ changed # {}
  <2> DEFINE S == [codes : SUBSET Screen!Codes, axes : [Screen!Codes -> Int]]
             n == Len(frames)
  <2>1. f \in S /\ frames \in Seq(S) BY <1>1
  <2>2. frames' = Append(frames, f) /\ f.axes = axes /\ f.codes = changed BY <1>6, <1>16
  <2>3. Screen!IsWhole(f) /\ (Screen!IsDown(f) <=> down)
    BY <1>7, <1>10, <2>2 DEF Screen!IsWhole, Screen!IsDown
  <2> HIDE DEF f, S, p, t, down
  <2>4. /\ frames' \in Seq(S) /\ n \in Nat
        /\ DOMAIN frames' = 1 .. n + 1 /\ DOMAIN frames = 1 .. n
        /\ \A i \in 1 .. n : frames'[i] = frames[i]
        /\ frames'[n + 1] = f /\ Screen!Last(frames') = f /\ frames' # <<>>
        /\ frames # <<>> => Screen!Last(frames) = frames[n] /\ n > 0
        /\ n > 0 => frames # <<>>
    BY ONLY <2>1, <2>2, LastOfAppend
  <2>5. frames # <<>> => (Screen!IsDown(frames[n]) <=> Screen!InContact)
    BY <2>4 DEF Screen!IInv
  <2>6. \A i \in DOMAIN frames' :
          /\ Screen!IsWhole(frames'[i])
          /\ i > 1 => (Screen!IsDown(frames'[i]) <=> ~Screen!IsDown(frames'[i - 1]))
    <3> SUFFICES ASSUME NEW i \in 1 .. n + 1
                 PROVE  /\ Screen!IsWhole(frames'[i])
                        /\ i > 1 => (Screen!IsDown(frames'[i]) <=> ~Screen!IsDown(frames'[i - 1]))
      BY <2>4
    <3>1. CASE i \in 1 .. n
      <4>1. frames'[i] = frames[i] /\ (i > 1 => frames'[i - 1] = frames[i - 1]) BY <2>4, <3>1
      <4> QED BY <2>4, <3>1, <4>1 DEF Screen!IInv, Screen!TapsArrive
    <3>2. CASE i = n + 1
      <4>1. frames'[i] = f /\ (i > 1 => frames # <<>> /\ frames'[i - 1] = frames[n]) BY <2>4, <3>2
      <4> QED BY <1>13, <2>3, <2>5, <4>1
    <3> QED BY <2>4, <3>1, <3>2
  <2>7. Screen!IsDown(Screen!Last(frames')) <=> Screen!InContact' BY <1>12, <2>3, <2>4
  <2>8. Screen!TapsArrive' BY <1>14, <2>6, <2>7 DEF Screen!TapsArrive
  <2>9. frames' \in Seq([codes : SUBSET Screen!Codes, axes : [Screen!Codes -> Int]]) BY <2>4 DEF S
  <2> QED BY <1>1, <1>3, <1>6, <1>11, <1>16, <2>7, <2>8, <2>9 DEF Screen!IInv, Screen!syn
<1> QED BY <1>15, <1>16

LEMMA ScreenSteps ==
  ASSUME Screen!IInv, [Screen!Next]_(Screen!vars), Taps \in Nat, X \in Int, Y \in Int PROVE Screen!IInv'
<1>1. CASE Screen!emit BY <1>1, EmitKeeps
<1>2. CASE Screen!syn BY <1>2, SynKeeps
<1>3. CASE Screen!Create \/ Screen!Destroy \/ Screen!Open \/ Screen!Kill \/ UNCHANGED Screen!vars
  <2>1. UNCHANGED <<step, axes, changed, frames>> /\ (opened' = opened \/ opened' = TRUE)
    BY <1>3 DEF Screen!Create, Screen!Destroy, Screen!Open, Screen!Kill, Screen!vars
  <2> QED BY <2>1 DEF Screen!IInv, Screen!AxesFollow, Screen!Place, Screen!InContact, Screen!TapsArrive
<1> QED BY <1>1, <1>2, <1>3 DEF Screen!Next

-----------------------------------------------------------------------------
(* Probe!: WaylandProbe.                                                   *)

StepOps == Probe!Ops \ {"ack", "pong"}

(* What the three programs do, and in what they end; only the shell of     *)
(* wl_shell has a buffer before the loop.                                  *)
LEMMA CommonSteps ==
  ASSUME NEW shell \in {"bind_xdg_wm_base", "bind_wl_shell"}
  PROVE  Probe!Common(shell) \in Seq(StepOps \ {"attach"})
<1> DEFINE S == StepOps \ {"attach"}
<1>1. /\ "get_registry" \in S /\ "checkpoint" \in S /\ "bind_wl_compositor" \in S /\ "bind_wl_shm" \in S
      /\ "bind_wl_seat" \in S /\ shell \in S /\ "get_touch" \in S /\ "create_surface" \in S
      /\ "create_pool" \in S /\ "create_buffer" \in S
  BY DEF StepOps, Probe!Ops
<1> HIDE DEF S
<1>2. \A b \in S : Probe!Bound(b) \in Seq(S) BY <1>1 DEF Probe!Bound
<1>3. <<"get_registry", "checkpoint">> \in Seq(S) BY <1>1
<1>4. <<"get_touch", "checkpoint", "create_surface", "checkpoint", "create_pool",
        "checkpoint", "create_buffer", "checkpoint">> \in Seq(S)
  BY <1>1
<1>5. /\ Probe!Bound("bind_wl_compositor") \in Seq(S) /\ Probe!Bound("bind_wl_shm") \in Seq(S)
      /\ Probe!Bound("bind_wl_seat") \in Seq(S) /\ Probe!Bound(shell) \in Seq(S)
  BY <1>1, <1>2
<1>6. \A p, q \in Seq(S) : p \o q \in Seq(S) OBVIOUS
<1> DEFINE a == <<"get_registry", "checkpoint">>
           b == Probe!Bound("bind_wl_compositor")
           c == Probe!Bound("bind_wl_shm")
           d == Probe!Bound("bind_wl_seat")
           e == Probe!Bound(shell)
           f == <<"get_touch", "checkpoint", "create_surface", "checkpoint", "create_pool",
                  "checkpoint", "create_buffer", "checkpoint">>
<1>7. Probe!Common(shell) = a \o b \o c \o d \o e \o f BY DEF Probe!Common
<1>8. a \in Seq(S) /\ b \in Seq(S) /\ c \in Seq(S) /\ d \in Seq(S) /\ e \in Seq(S) /\ f \in Seq(S)
  BY <1>3, <1>4, <1>5
<1> HIDE DEF a, b, c, d, e, f
<1>9. Probe!Common(shell) \in Seq(S) BY <1>6, <1>7, <1>8
<1> QED BY <1>9 DEF S

LEMMA StepsEnd ==
  ASSUME mode \in {"xdg", "wl", "info"}
  PROVE  /\ Probe!Steps \in Seq(StepOps) /\ Len(Probe!Steps) \in Nat \ {0}
         /\ mode = "xdg" => Probe!Steps \in Seq(StepOps \ {"attach"})
         /\ Probe!Steps[Len(Probe!Steps)] = "loop"
<1> DEFINE S == StepOps \ {"attach"}
<1>1. S \subseteq StepOps OBVIOUS
<1>2. /\ "get_xdg_surface" \in S /\ "checkpoint" \in S /\ "get_toplevel" \in S /\ "commit" \in S
      /\ "loop" \in S /\ "get_shell_surface" \in S /\ "attach" \in StepOps
      /\ "get_registry" \in S /\ "bind_wl_seat" \in S
  BY DEF StepOps, Probe!Ops
<1> HIDE DEF S
<1>3. \A q \in Seq(S) : q \in Seq(StepOps) BY <1>1
<1>4. CASE mode = "xdg"
  <2> DEFINE s == Probe!Common("bind_xdg_wm_base")
             t == <<"get_xdg_surface", "checkpoint", "get_toplevel", "commit", "checkpoint", "loop">>
  <2>1. s \in Seq(S) BY CommonSteps DEF S
  <2>2. t \in Seq(S) /\ Len(t) = 6 /\ t[6] = "loop" BY <1>2
  <2>3. Probe!Steps = s \o t BY <1>4 DEF Probe!Steps, Probe!XdgSteps
  <2> HIDE DEF s, t
  <2>4. /\ s \o t \in Seq(S) /\ Len(s \o t) \in Nat \ {0} /\ (s \o t)[Len(s \o t)] = "loop"
    <3>1. 6 \in 1 .. Len(t) BY <2>2
    <3>2. (s \o t)[Len(s) + 6] = t[6] BY ONLY <2>1, <2>2, <3>1, ConcatFacts
    <3>3. s \o t \in Seq(S) /\ Len(s) \in Nat /\ Len(s \o t) = Len(s) + Len(t) BY ONLY <2>1, <2>2, ConcatFacts
    <3> QED BY <2>2, <3>2, <3>3
  <2> QED BY <1>3, <2>3, <2>4 DEF S
<1>5. CASE mode = "wl"
  <2> DEFINE s == Probe!Common("bind_wl_shell")
             t == <<"get_shell_surface", "checkpoint", "attach", "commit", "checkpoint", "loop">>
  <2>1. s \in Seq(S) BY CommonSteps DEF S
  <2>2. "get_shell_surface" \in StepOps /\ "checkpoint" \in StepOps /\ "commit" \in StepOps /\ "loop" \in StepOps
    BY <1>1, <1>2
  <2>3. t \in Seq(StepOps) /\ Len(t) = 6 /\ t[6] = "loop" BY <1>2, <2>2
  <2>4. Probe!Steps = s \o t BY <1>5 DEF Probe!Steps, Probe!WlSteps
  <2>5. s \in Seq(StepOps) BY <1>3, <2>1
  <2> HIDE DEF s, t
  <2>6. /\ s \o t \in Seq(StepOps) /\ Len(s \o t) \in Nat \ {0} /\ (s \o t)[Len(s \o t)] = "loop"
    <3>1. 6 \in 1 .. Len(t) BY <2>3
    <3>2. (s \o t)[Len(s) + 6] = t[6] BY ONLY <2>3, <2>5, <3>1, ConcatFacts
    <3>3. s \o t \in Seq(StepOps) /\ Len(s) \in Nat /\ Len(s \o t) = Len(s) + Len(t) BY ONLY <2>3, <2>5, ConcatFacts
    <3> QED BY <2>3, <3>2, <3>3
  <2> QED BY <1>5, <2>4, <2>6
<1>6. CASE mode = "info"
  <2>1. Probe!Steps = <<"get_registry", "checkpoint", "bind_wl_seat", "checkpoint", "loop">>
    BY <1>6 DEF Probe!Steps, Probe!InfoSteps
  <2>2. "get_registry" \in StepOps /\ "checkpoint" \in StepOps /\ "bind_wl_seat" \in StepOps /\ "loop" \in StepOps
    BY <1>1, <1>2
  <2> QED BY <1>6, <2>1, <2>2
<1> QED BY <1>4, <1>5, <1>6

LEMMA ProbeStarts == ASSUME Probe!Init, Modes \subseteq {"xdg", "wl", "info"} PROVE Probe!IInv
<1> USE DEF Probe!Init
<1>1. Probe!StreamsOK
  <2>1. Probe!Steps \in Seq(StepOps) /\ Len(Probe!Steps) \in Nat \ {0} BY StepsEnd
  <2>2. 1 \in DOMAIN Probe!Steps BY <2>1
  <2>3. <<"wl_display">> \in Seq(Probe!Ops \union {"wl_display"}) OBVIOUS
  <2>4. /\ queue \in Seq(Probe!Events) /\ inn \in Seq(Probe!Events)
        /\ out \in Seq(Probe!Requests)
        /\ handled \in Seq(Nat) /\ sent \in Seq({"configure", "ping", "touch"})
    OBVIOUS
  <2> QED BY <2>2, <2>3, <2>4 DEF Probe!StreamsOK
<1>2. Probe!OneSync BY DEF Probe!OneSync
<1>3. Probe!NothingIsLost BY DEF Probe!NothingIsLost, Probe!Taken
<1>4. Probe!IdsFollow BY DEF Probe!IdsFollow
<1>5. Probe!AcksGoFirst BY DEF Probe!AcksGoFirst
<1>6. Probe!NoProtocolError BY DEF Probe!NoProtocolError, Probe!Failed
<1> QED BY <1>1, <1>2, <1>3, <1>4, <1>5, <1>6 DEF Probe!IInv

(* The next request of the program: its id is the next one, and a sync is  *)
(* the only one.                                                           *)
LEMMA RequestKeeps ==
  ASSUME Probe!IInv, Probe!Request, Modes \subseteq {"xdg", "wl", "info"} PROVE Probe!IInv'
<1> DEFINE op == Probe!Op
           new == Probe!NewId(op)
           r == [op |-> op, new |-> new, serial |-> 0]
           n == Len(out)
<1>1. Probe!StreamsOK /\ Probe!OneSync /\ Probe!NothingIsLost BY DEF Probe!IInv
<1>2. mode \in {"xdg", "wl", "info"} BY <1>1 DEF Probe!StreamsOK
<1>3. step \in 1 .. Len(Probe!Steps) /\ Len(Probe!Steps) \in Nat BY <1>1, <1>2, StepsEnd DEF Probe!StreamsOK
<1>4. /\ op \in StepOps \ {"loop"} /\ (mode = "xdg" => op # "attach")
      /\ step # Len(Probe!Steps)
  BY <1>2, <1>3, StepsEnd DEF Probe!Request, Probe!Op
<1>5. new \in Nat /\ (op = "checkpoint" => new # 0) /\ nextid' \in Nat
  <2>1. CASE mode = "info"
    <3>1. Probe!Steps = Probe!InfoSteps BY <2>1 DEF Probe!Steps
    <3>2. step \in 1 .. 5 BY <3>1, <1>3 DEF Probe!InfoSteps
    <3>3. new = Probe!InfoIds[step] BY <2>1 DEF Probe!NewId
    <3>4. step \in {1, 2, 3, 4, 5} BY <3>2
    <3>5. new \in Nat /\ (new # 0 \/ step = 5) BY <3>3, <3>4 DEF Probe!InfoIds
    <3>6. step = 5 => op = "loop" BY <3>1 DEF Probe!InfoSteps, Probe!Op
    <3>7. nextid' \in Nat BY <1>1 DEF Probe!Request, Probe!StreamsOK
    <3> QED BY <1>4, <3>5, <3>6, <3>7
  <2>2. CASE mode # "info"
    BY <1>1, <2>2 DEF Probe!NewId, Probe!Makes, Probe!StreamsOK, Probe!Request
  <2> QED BY <2>1, <2>2
<1>6. /\ await = 0 /\ out' = Append(out, r) /\ step' = step + 1
      /\ nextid' = IF Probe!Makes(op) THEN nextid + 1 ELSE nextid
      /\ await' = IF op = "checkpoint" THEN new ELSE 0
      /\ UNCHANGED <<mode, queue, configured, handled, over, inn, objects, sent, acked, mapped>>
  BY DEF Probe!Request, Probe!Running
<1>7. mode # "info" => new = IF Probe!Makes(op) THEN nextid + 1 ELSE 0 BY DEF Probe!NewId
<1>8. r \in Probe!Requests /\ out \in Seq(Probe!Requests) /\ r.op = op /\ r.new = new
  <2>1. op \in Probe!Ops BY <1>4 DEF StepOps
  <2>2. out \in Seq(Probe!Requests) BY <1>1 DEF Probe!StreamsOK, Probe!Requests
  <2> HIDE DEF op, new
  <2> QED BY <1>5, <2>1, <2>2 DEF Probe!Requests
<1>9. Probe!Steps' = Probe!Steps BY <1>6 DEF Probe!Steps
<1>10. op \notin {"ack", "pong", "loop"} BY <1>4 DEF StepOps, Probe!Ops
<1> HIDE DEF op, new, r
<1>11. /\ out' \in Seq(Probe!Requests) /\ DOMAIN out = 1 .. n /\ DOMAIN out' = 1 .. n + 1 /\ n \in Nat
       /\ \A i \in 1 .. n : out'[i] = out[i]
       /\ out'[n + 1] = r
  BY ONLY <1>6, <1>8, AppendFacts
<1>12. Probe!StreamsOK'
  BY <1>1, <1>3, <1>4, <1>5, <1>6, <1>9, <1>11 DEF Probe!StreamsOK, Probe!Requests
<1>13. Probe!OneSync'
  <2>1. \A i \in 1 .. n : out[i].op # "checkpoint" BY <1>1, <1>6, <1>11 DEF Probe!OneSync
  <2>2. \A i \in DOMAIN inn : inn[i].kind # "done" BY <1>1, <1>6 DEF Probe!OneSync
  <2>3. \A i \in DOMAIN out' : out'[i].op = "checkpoint" => i = n + 1 /\ await' # 0 /\ out'[i].new = await'
    BY <1>5, <1>6, <1>8, <1>11, <2>1
  <2> QED BY <1>6, <2>2, <2>3 DEF Probe!OneSync
<1>14. Probe!NothingIsLost' BY <1>1, <1>6 DEF Probe!NothingIsLost, Probe!Taken, Probe!IsOwn
<1>15. ASSUME mode # "info" PROVE Probe!IdsFollow' /\ Probe!AcksGoFirst' /\ Probe!NoProtocolError'
  <2>1. Probe!IdsFollow /\ Probe!AcksGoFirst /\ Probe!NoProtocolError BY <1>15 DEF Probe!IInv
  <2>2. Probe!NoProtocolError' BY <1>6, <2>1 DEF Probe!NoProtocolError, Probe!Failed
  <2>3. Probe!AcksGoFirst'
    <3>1. \A i \in DOMAIN out' : out'[i].op \in {"ack", "attach"} =>
             \/ i \in DOMAIN out /\ out'[i] = out[i]
             \/ i = n + 1 /\ mode # "xdg" /\ out'[i].op = "attach"
      BY <1>4, <1>8, <1>10, <1>11
    <3>2. \A i \in DOMAIN out : \A j \in 1 .. i - 1 : out'[j] = out[j] BY <1>11
    <3> QED BY <1>6, <1>11, <2>1, <3>1, <3>2 DEF Probe!AcksGoFirst
  <2>4. Probe!IdsFollow'
    <3>1. Len(objects) \in Nat /\ nextid \in Nat BY <1>1 DEF Probe!StreamsOK
    <3>2. CASE Probe!Makes(op)
      <4>1. new = nextid + 1 /\ nextid' = nextid + 1 BY <1>6, <1>7, <1>15, <3>2
      <4>2. \A k \in Len(objects) + 1 .. nextid + 1 : \E i \in DOMAIN out' : Probe!Makes(out'[i].op) /\ out'[i].new = k
        <5> TAKE k \in Len(objects) + 1 .. nextid + 1
        <5>1. CASE k = nextid + 1 BY <1>8, <1>11, <3>2, <4>1, <5>1
        <5>2. CASE k # nextid + 1
          <6>1. PICK i \in DOMAIN out : Probe!Makes(out[i].op) /\ out[i].new = k
            BY <2>1, <3>1, <5>2 DEF Probe!IdsFollow
          <6> QED BY <6>1, <1>11
        <5> QED BY <5>1, <5>2
      <4>3. \A i \in DOMAIN out' : Probe!Makes(out'[i].op) =>
              IF i = n + 1 THEN out'[i].new = nextid + 1
              ELSE i \in DOMAIN out /\ out'[i] = out[i] /\ out'[i].new \in Len(objects) + 1 .. nextid
        BY <1>8, <1>11, <2>1, <4>1 DEF Probe!IdsFollow
      <4>4. \A i, j \in DOMAIN out' :
              i < j /\ Probe!Makes(out'[i].op) /\ Probe!Makes(out'[j].op) => out'[i].new < out'[j].new
        <5> SUFFICES ASSUME NEW i \in DOMAIN out', NEW j \in DOMAIN out', i < j,
                            Probe!Makes(out'[i].op), Probe!Makes(out'[j].op)
                     PROVE  out'[i].new < out'[j].new
          OBVIOUS
        <5>1. i # n + 1 BY <1>11
        <5>2. out'[i] = out[i] /\ i \in DOMAIN out /\ out'[i].new \in Len(objects) + 1 .. nextid BY <4>3, <5>1
        <5>3. CASE j = n + 1 BY <3>1, <4>3, <5>2, <5>3
        <5>4. CASE j # n + 1 BY <2>1, <4>3, <5>2, <5>4 DEF Probe!IdsFollow
        <5> QED BY <5>3, <5>4
      <4>5. /\ nextid' >= Len(objects)
            /\ \A i \in DOMAIN out' : Probe!Makes(out'[i].op) => out'[i].new \in Len(objects) + 1 .. nextid + 1
        BY <2>1, <3>1, <4>1, <4>3 DEF Probe!IdsFollow
      <4> QED BY <1>6, <4>1, <4>2, <4>4, <4>5 DEF Probe!IdsFollow, Probe!Makes
    <3>3. CASE ~Probe!Makes(op)
      <4>1. nextid' = nextid BY <1>6, <3>3
      <4>2. \A i \in DOMAIN out' : Probe!Makes(out'[i].op) => i \in DOMAIN out /\ out'[i] = out[i]
        BY <1>8, <1>11, <3>3
      <4>3. \A k \in Len(objects) + 1 .. nextid : \E i \in DOMAIN out' : Probe!Makes(out'[i].op) /\ out'[i].new = k
        <5> TAKE k \in Len(objects) + 1 .. nextid
        <5>1. PICK i \in DOMAIN out : Probe!Makes(out[i].op) /\ out[i].new = k BY <2>1 DEF Probe!IdsFollow
        <5> QED BY <5>1, <1>11
      <4>4. \A i, j \in DOMAIN out' :
              i < j /\ Probe!Makes(out'[i].op) /\ Probe!Makes(out'[j].op) => out'[i].new < out'[j].new
        BY <2>1, <4>2 DEF Probe!IdsFollow
      <4>5. \A i \in DOMAIN out' : Probe!Makes(out'[i].op) => out'[i].new \in Len(objects) + 1 .. nextid
        BY <2>1, <4>2 DEF Probe!IdsFollow
      <4> QED BY <1>6, <2>1, <4>1, <4>3, <4>4, <4>5 DEF Probe!IdsFollow, Probe!Makes
    <3> QED BY <3>2, <3>3
  <2> QED BY <2>2, <2>3, <2>4
<1> QED BY <1>6, <1>12, <1>13, <1>14, <1>15 DEF Probe!IInv

(* The first event in the socket: if it is one of the compositor's own, it *)
(* is the next one.                                                        *)
LEMMA FirstIsNext ==
  ASSUME Probe!StreamsOK, Probe!NothingIsLost, inn # <<>>,
         NEW b, b = IF Probe!IsOwn(inn[1]) THEN Probe!Taken + 1 ELSE Probe!Taken
  PROVE  /\ Probe!IsOwn(inn[1]) => inn[1].n = Probe!Taken + 1 /\ inn[1].kind = sent[inn[1].n]
         /\ b \in Nat /\ b <= Len(sent)
         /\ \A n \in b + 1 .. Len(sent) : \E i \in DOMAIN Tail(inn) : Probe!IsOwn(Tail(inn)[i]) /\ Tail(inn)[i].n = n
         /\ \A i, j \in DOMAIN Tail(inn) :
              i < j /\ Probe!IsOwn(Tail(inn)[i]) /\ Probe!IsOwn(Tail(inn)[j]) => Tail(inn)[i].n < Tail(inn)[j].n
         /\ \A i \in DOMAIN Tail(inn) : Probe!IsOwn(Tail(inn)[i]) =>
              Tail(inn)[i].n \in b + 1 .. Len(sent) /\ Tail(inn)[i].kind = sent[Tail(inn)[i].n]
         /\ \A i \in DOMAIN Tail(inn) : i + 1 \in DOMAIN inn /\ Tail(inn)[i] = inn[i + 1]
<1> DEFINE s == Tail(inn)
           m == Len(inn)
           base == Probe!Taken
           own(e) == Probe!IsOwn(e)
<1>1. /\ m \in Nat \ {0} /\ DOMAIN inn = 1 .. m /\ DOMAIN s = 1 .. m - 1
      /\ \A i \in 1 .. m - 1 : s[i] = inn[i + 1]
      /\ \A i \in 2 .. m : inn[i] = s[i - 1]
      /\ inn \in Seq(Probe!Events)
  BY TailFacts DEF Probe!StreamsOK
<1>2. /\ base \in Nat /\ Len(sent) \in Nat /\ base <= Len(sent)
  BY DEF Probe!StreamsOK, Probe!NothingIsLost, Probe!Taken
<1>3. /\ \A n \in base + 1 .. Len(sent) : \E i \in 1 .. m : own(inn[i]) /\ inn[i].n = n
      /\ \A i, j \in 1 .. m : i < j /\ own(inn[i]) /\ own(inn[j]) => inn[i].n < inn[j].n
      /\ \A i \in 1 .. m : own(inn[i]) => inn[i].n \in base + 1 .. Len(sent) /\ inn[i].kind = sent[inn[i].n]
  BY <1>1 DEF Probe!NothingIsLost
<1> HIDE DEF s, m, base, own
<1>4. ASSUME own(inn[1]) PROVE inn[1].n = base + 1 /\ base + 1 <= Len(sent)
  <2>1. inn[1].n \in base + 1 .. Len(sent) BY <1>1, <1>3, <1>4
  <2>2. PICK i \in 1 .. m : own(inn[i]) /\ inn[i].n = base + 1 BY <1>2, <1>3, <2>1
  <2>3. CASE i = 1 BY <2>1, <2>2, <2>3, <1>2
  <2>4. CASE i # 1
    <3>1. inn[1].n < base + 1 BY <1>1, <1>3, <1>4, <2>2, <2>4
    <3> QED BY <1>2, <2>1, <3>1
  <2> QED BY <2>3, <2>4
<1>5. b \in {base, base + 1} /\ (own(inn[1]) => b = base + 1) /\ (~own(inn[1]) => b = base) BY DEF own, base
<1>6. \A n \in b + 1 .. Len(sent) : \E i \in 1 .. m - 1 : own(s[i]) /\ s[i].n = n
  <2> TAKE n \in b + 1 .. Len(sent)
  <2>1. PICK i \in 1 .. m : own(inn[i]) /\ inn[i].n = n BY <1>2, <1>3, <1>5
  <2>2. i # 1 BY <1>2, <1>4, <1>5, <2>1
  <2>3. i - 1 \in 1 .. m - 1 /\ s[i - 1] = inn[i] BY <1>1, <2>1, <2>2
  <2> QED BY <2>1, <2>3
<1>7. \A i, j \in 1 .. m - 1 : i < j /\ own(s[i]) /\ own(s[j]) => s[i].n < s[j].n
  <2> SUFFICES ASSUME NEW i \in 1 .. m - 1, NEW j \in 1 .. m - 1, i < j, own(s[i]), own(s[j]) PROVE s[i].n < s[j].n
    OBVIOUS
  <2>1. s[i] = inn[i + 1] /\ s[j] = inn[j + 1] /\ i + 1 \in 1 .. m /\ j + 1 \in 1 .. m /\ i + 1 < j + 1 BY <1>1
  <2> QED BY <1>3, <2>1
<1>8. \A i \in 1 .. m - 1 : own(s[i]) => s[i].n \in b + 1 .. Len(sent) /\ s[i].kind = sent[s[i].n]
  <2> SUFFICES ASSUME NEW i \in 1 .. m - 1, own(s[i]) PROVE s[i].n \in b + 1 .. Len(sent) /\ s[i].kind = sent[s[i].n]
    OBVIOUS
  <2>1. s[i] = inn[i + 1] /\ i + 1 \in 1 .. m /\ 1 \in 1 .. m /\ 1 < i + 1 BY <1>1
  <2>2. inn[i + 1].n \in base + 1 .. Len(sent) /\ inn[i + 1].kind = sent[inn[i + 1].n] BY <1>3, <2>1
  <2>3. own(inn[1]) => inn[i + 1].n > base + 1
    <3>1. own(inn[1]) => inn[1].n < inn[i + 1].n BY <1>3, <2>1
    <3> QED BY <1>4, <3>1
  <2> QED BY <1>2, <1>5, <2>1, <2>2, <2>3
<1>9. \A i \in DOMAIN s : i + 1 \in DOMAIN inn /\ s[i] = inn[i + 1]
  <2>1. \A i \in 1 .. m - 1 : i + 1 \in 1 .. m BY <1>1
  <2> QED BY <1>1, <2>1
<1>10. own(inn[1]) => inn[1].n = base + 1 /\ inn[1].kind = sent[inn[1].n] BY <1>1, <1>3, <1>4
<1>11. b \in Nat /\ b <= Len(sent) BY <1>2, <1>4, <1>5
<1>12. DOMAIN s = 1 .. m - 1 BY <1>1
<1> QED BY <1>6, <1>7, <1>8, <1>9, <1>10, <1>11, <1>12 DEF own, base, s

(* What a checkpoint waits for comes, or the end, or one more for later.   *)
LEMMA CheckpointKeeps ==
  ASSUME Probe!IInv, Probe!Checkpoint PROVE Probe!IInv'
<1> DEFINE e == inn[1]
           b == IF Probe!IsOwn(e) THEN Probe!Taken + 1 ELSE Probe!Taken
<1>1. Probe!StreamsOK /\ Probe!OneSync /\ Probe!NothingIsLost BY DEF Probe!IInv
<1>2. /\ inn # <<>> /\ Head(inn) = e /\ inn' = Tail(inn) /\ over = "no" /\ await # 0
      /\ UNCHANGED <<mode, step, nextid, configured, handled, out, objects, sent, acked, mapped>>
      /\ \/ e.kind = "done" /\ e.n = await /\ await' = 0 /\ queue' = queue /\ over' = over
         \/ e.kind = "error" /\ over' # "no" /\ await' = await /\ queue' = queue
         \/ /\ e.kind # "error" /\ ~(e.kind = "done" /\ e.n = await) /\ queue' = Append(queue, e)
            /\ await' = await /\ over' = over
  BY <1>1, TailFacts DEF Probe!Checkpoint, Probe!Keep, Probe!StreamsOK, Probe!AfterError
<1>3. /\ inn' \in Seq(Probe!Events) /\ e \in Probe!Events /\ 1 \in DOMAIN inn
      /\ DOMAIN inn = 1 .. Len(inn) /\ DOMAIN inn' = 1 .. Len(inn) - 1 /\ Len(inn) \in Nat \ {0}
  BY <1>1, <1>2, TailFacts DEF Probe!StreamsOK
<1>4. /\ Probe!IsOwn(e) => e.n = Probe!Taken + 1 /\ e.kind = sent[e.n]
      /\ b \in Nat /\ b <= Len(sent)
      /\ \A n \in b + 1 .. Len(sent) : \E i \in DOMAIN inn' : Probe!IsOwn(inn'[i]) /\ inn'[i].n = n
      /\ \A i, j \in DOMAIN inn' : i < j /\ Probe!IsOwn(inn'[i]) /\ Probe!IsOwn(inn'[j]) => inn'[i].n < inn'[j].n
      /\ \A i \in DOMAIN inn' : Probe!IsOwn(inn'[i]) => inn'[i].n \in b + 1 .. Len(sent) /\ inn'[i].kind = sent[inn'[i].n]
      /\ \A i \in DOMAIN inn' : i + 1 \in DOMAIN inn /\ inn'[i] = inn[i + 1]
  BY <1>1, <1>2, FirstIsNext
<1>5. e.kind = "done" => e.n = await BY <1>1, <1>3 DEF Probe!OneSync
<1>6. /\ \/ e.kind = "done" /\ await' = 0 /\ queue' = queue /\ over' = over
         \/ e.kind = "error" /\ over' # "no" /\ await' = await /\ queue' = queue
         \/ e.kind \notin {"error", "done"} /\ queue' = Append(queue, e) /\ await' = await /\ over' = over
  BY <1>2, <1>5
<1>7. Probe!IsOwn(e) <=> e.kind \notin {"done", "error"} BY DEF Probe!IsOwn
<1>8. Probe!StreamsOK'
  <2>1. queue' \in Seq(Probe!Events)
    <3>1. queue \in Seq(Probe!Events) BY <1>1 DEF Probe!StreamsOK
    <3>2. queue' = queue \/ queue' = Append(queue, e) BY <1>6
    <3> HIDE DEF e
    <3> QED BY <1>3, <3>1, <3>2
  <2>2. await' \in Nat BY <1>1, <1>6 DEF Probe!StreamsOK
  <2>3. Probe!Steps' = Probe!Steps BY <1>2 DEF Probe!Steps
  <2> QED BY <1>1, <1>2, <1>3, <2>1, <2>2, <2>3 DEF Probe!StreamsOK
<1>9. Probe!OneSync'
  <2>1. \A i \in DOMAIN inn' : i + 1 # 1 /\ i \in Int BY <1>3
  <2>2. CASE e.kind = "done"
    <3>1. \A i \in DOMAIN inn' : inn'[i].kind # "done" BY <1>1, <1>3, <1>4, <2>1, <2>2 DEF Probe!OneSync
    <3>2. \A i \in DOMAIN out : out[i].op # "checkpoint" BY <1>1, <1>3, <2>2 DEF Probe!OneSync
    <3> QED BY <1>2, <3>1, <3>2 DEF Probe!OneSync
  <2>3. CASE e.kind # "done"
    <3>1. await' = await BY <1>6, <2>3
    <3>2. \A i, j \in DOMAIN inn' : inn'[i].kind = "done" /\ inn'[j].kind = "done" => i = j
      <4> SUFFICES ASSUME NEW i \in DOMAIN inn', NEW j \in DOMAIN inn', inn'[i].kind = "done", inn'[j].kind = "done"
                   PROVE  i = j
        OBVIOUS
      <4>1. i + 1 = j + 1 BY <1>1, <1>4 DEF Probe!OneSync
      <4> QED BY <2>1, <4>1
    <3> QED BY <1>1, <1>2, <1>4, <3>1, <3>2 DEF Probe!OneSync
  <2> QED BY <2>2, <2>3
<1>10. Probe!NothingIsLost'
  <2>1. /\ DOMAIN queue = 1 .. Len(queue) /\ Len(queue) \in Nat /\ Len(handled) \in Nat /\ Len(sent) \in Nat
        /\ Probe!Taken = Len(handled) + Len(queue)
    BY <1>1 DEF Probe!StreamsOK, Probe!Taken
  <2>2. CASE ~Probe!IsOwn(e)
    <3>1. queue' = queue /\ b = Probe!Taken /\ Probe!Taken' = Probe!Taken
      BY <1>2, <1>6, <1>7, <2>2 DEF Probe!Taken
    <3> HIDE DEF b, e
    <3>2. \A x : Probe!IsOwn(x)' <=> Probe!IsOwn(x) BY DEF Probe!IsOwn
    <3> QED BY <1>1, <1>2, <1>4, <3>1 DEF Probe!NothingIsLost, Probe!IsOwn
  <2>3. CASE Probe!IsOwn(e)
    <3>1. queue' = Append(queue, e) /\ b = Probe!Taken + 1 /\ e.n = Probe!Taken + 1 /\ e.kind = sent[e.n]
      BY <1>4, <1>6, <1>7, <2>3
    <3> HIDE DEF b, e
    <3>2. /\ DOMAIN queue' = 1 .. Len(queue) + 1 /\ queue'[Len(queue) + 1] = e
          /\ \A i \in 1 .. Len(queue) : queue'[i] = queue[i]
          /\ Len(queue') = Len(queue) + 1
      BY <1>1, <1>3, <3>1, AppendFacts DEF Probe!StreamsOK
    <3>3. Probe!Taken' = Probe!Taken + 1 BY <1>2, <2>1, <3>2 DEF Probe!Taken
    <3>4. \A i \in DOMAIN queue' :
            Probe!IsOwn(queue'[i]) /\ queue'[i].n = Len(handled) + i /\ queue'[i].kind = sent[queue'[i].n]
      <4> TAKE i \in DOMAIN queue'
      <4>1. CASE i \in 1 .. Len(queue) BY <1>1, <2>1, <3>2, <4>1 DEF Probe!NothingIsLost
      <4>2. CASE i = Len(queue) + 1 BY <2>1, <2>3, <3>1, <3>2, <4>2
      <4> QED BY <2>1, <3>2, <4>1, <4>2
    <3> QED BY <1>1, <1>2, <1>4, <3>1, <3>3, <3>4 DEF Probe!NothingIsLost, Probe!IsOwn
  <2> QED BY <2>2, <2>3
<1>11. ASSUME mode # "info" PROVE Probe!IdsFollow' /\ Probe!AcksGoFirst' /\ Probe!NoProtocolError'
  <2>1. Probe!IdsFollow /\ Probe!AcksGoFirst /\ Probe!NoProtocolError BY <1>11 DEF Probe!IInv
  <2>2. e.kind # "error" BY <1>3, <2>1 DEF Probe!NoProtocolError, Probe!Failed
  <2>3. Probe!NoProtocolError' BY <1>4, <1>6, <2>1, <2>2 DEF Probe!NoProtocolError, Probe!Failed
  <2>4. Probe!IdsFollow' BY <1>2, <2>1 DEF Probe!IdsFollow, Probe!Makes
  <2>5. Probe!AcksGoFirst' BY <1>2, <2>1 DEF Probe!AcksGoFirst
  <2> QED BY <2>3, <2>4, <2>5
<1> QED BY <1>2, <1>8, <1>9, <1>10, <1>11 DEF Probe!IInv

(* The answers of the main loop make nothing, ask for no callback, and     *)
(* acknowledge the configure in hand before they attach.                   *)
LEMMA HandleAnswers ==
  ASSUME Probe!StreamsOK, Probe!OneSync, NEW e \in Probe!Events, Probe!Handle(e),
         e.kind # "error" => e.n \in DOMAIN sent /\ e.kind = sent[e.n],
         UNCHANGED <<mode, await, sent, acked, nextid, objects>>
  PROVE  /\ out' \in Seq(Probe!Requests) /\ handled' \in Seq(Nat) /\ configured' \in BOOLEAN
         /\ \A i \in DOMAIN out : i \in DOMAIN out' /\ out'[i] = out[i]
         /\ \A i \in DOMAIN out' : i \in DOMAIN out \/
              out'[i].op \in {"ack", "attach", "commit", "pong"}
         /\ Probe!IdsFollow => Probe!IdsFollow'
         /\ Probe!AcksGoFirst => Probe!AcksGoFirst'
<1> DEFINE t == CASE e.kind = "ping" -> <<Probe!Reply("pong", e.n)>>
                  [] e.kind = "configure" /\ ~configured ->
                       <<Probe!Reply("ack", e.n), Probe!Reply("attach", 0), Probe!Reply("commit", 0)>>
                  [] e.kind = "configure" /\ configured -> <<Probe!Reply("ack", e.n)>>
                  [] OTHER -> <<>>
           R == Probe!Requests
           n == Len(out)
<1>1. out' = out \o t BY DEF Probe!Handle
<1>2. \A op \in {"pong", "ack", "attach", "commit"}, k \in Nat :
        Probe!Reply(op, k) \in R /\ Probe!Reply(op, k).op = op /\ Probe!Reply(op, k).serial = k
  BY DEF Probe!Reply, Probe!Requests, Probe!Ops
<1>3. e.n \in Nat /\ configured \in BOOLEAN BY DEF Probe!Events, Probe!StreamsOK
<1> HIDE DEF R
<1>4. /\ t \in Seq(R) /\ Len(t) \in Nat
      /\ \A i \in 1 .. Len(t) :
           /\ t[i].op \in {"ack", "attach", "commit", "pong"}
           /\ t[i].op = "ack" => t[i].serial = e.n /\ e.kind = "configure"
           /\ t[i].op = "attach" => 1 < i /\ t[1].op = "ack" /\ 1 \in 1 .. Len(t)
  <2>1. CASE e.kind = "ping"
    <3>1. t = <<Probe!Reply("pong", e.n)>> BY <2>1
    <3> HIDE DEF t
    <3> QED BY <1>2, <1>3, <3>1
  <2>2. CASE e.kind = "configure" /\ ~configured
    <3> DEFINE a == Probe!Reply("ack", e.n)
               b == Probe!Reply("attach", 0)
               c == Probe!Reply("commit", 0)
    <3>1. t = <<a, b, c>> BY <2>2
    <3>2. /\ a \in R /\ b \in R /\ c \in R /\ a.op = "ack" /\ b.op = "attach" /\ c.op = "commit"
          /\ a.serial = e.n
      BY <1>2, <1>3
    <3> HIDE DEF t, a, b, c
    <3>3. t \in Seq(R) /\ Len(t) = 3 /\ t[1] = a /\ t[2] = b /\ t[3] = c BY <3>1, <3>2
    <3>4. \A i \in 1 .. Len(t) : i \in {1, 2, 3} BY <3>3
    <3> QED BY <2>2, <3>2, <3>3, <3>4
  <2>3. CASE e.kind = "configure" /\ configured
    <3>1. t = <<Probe!Reply("ack", e.n)>> BY <2>3
    <3> HIDE DEF t
    <3> QED BY <1>2, <1>3, <2>3, <3>1
  <2>4. CASE e.kind \notin {"ping", "configure"}
    <3>1. t = <<>> BY <2>4
    <3> HIDE DEF t
    <3> QED BY <3>1
  <2> QED BY <1>3, <2>1, <2>2, <2>3, <2>4
<1>5. out \in Seq(R) BY DEF Probe!StreamsOK, R
<1> HIDE DEF t
<1>6. /\ out' \in Seq(R) /\ n \in Nat /\ DOMAIN out = 1 .. n /\ DOMAIN out' = 1 .. n + Len(t)
      /\ \A i \in 1 .. n : out'[i] = out[i]
      /\ \A i \in 1 .. Len(t) : out'[n + i] = t[i]
      /\ \A i \in n + 1 .. n + Len(t) : out'[i] = t[i - n]
  BY ONLY <1>1, <1>4, <1>5, ConcatFacts
<1>7. handled' \in Seq(Nat) /\ configured' \in BOOLEAN
  BY <1>3, AppendFacts DEF Probe!Handle, Probe!StreamsOK
<1>8. \A i \in DOMAIN out : i \in DOMAIN out' /\ out'[i] = out[i] BY <1>4, <1>6
<1>9. \A i \in DOMAIN out' : i \in DOMAIN out \/ (i - n \in 1 .. Len(t) /\ out'[i] = t[i - n]) BY <1>4, <1>6
<1>10. \A i \in DOMAIN out' : i \in DOMAIN out \/ out'[i].op \in {"ack", "attach", "commit", "pong"}
  BY <1>4, <1>9
<1>11. ASSUME Probe!IdsFollow PROVE Probe!IdsFollow'
  <2>1. \A i \in DOMAIN out' : Probe!Makes(out'[i].op) => i \in DOMAIN out /\ out'[i] = out[i]
    BY <1>8, <1>10 DEF Probe!Makes
  <2>2. \A k \in Len(objects) + 1 .. nextid : \E i \in DOMAIN out' : Probe!Makes(out'[i].op) /\ out'[i].new = k
    <3> TAKE k \in Len(objects) + 1 .. nextid
    <3>1. PICK i \in DOMAIN out : Probe!Makes(out[i].op) /\ out[i].new = k BY <1>11 DEF Probe!IdsFollow
    <3> QED BY <3>1, <1>8
  <2>3. \A i, j \in DOMAIN out' :
          i < j /\ Probe!Makes(out'[i].op) /\ Probe!Makes(out'[j].op) => out'[i].new < out'[j].new
    BY <1>11, <2>1 DEF Probe!IdsFollow
  <2>4. \A i \in DOMAIN out' : Probe!Makes(out'[i].op) => out'[i].new \in Len(objects) + 1 .. nextid
    BY <1>11, <2>1 DEF Probe!IdsFollow
  <2> QED BY <1>11, <2>2, <2>3, <2>4 DEF Probe!IdsFollow, Probe!Makes
<1>12. ASSUME Probe!AcksGoFirst PROVE Probe!AcksGoFirst'
  <2>1. \A i \in DOMAIN out' : out'[i].op = "ack" => out'[i].serial \in DOMAIN sent /\ sent[out'[i].serial] = "configure"
    <3> SUFFICES ASSUME NEW i \in DOMAIN out', out'[i].op = "ack"
                 PROVE  out'[i].serial \in DOMAIN sent /\ sent[out'[i].serial] = "configure"
      OBVIOUS
    <3>1. CASE i \in DOMAIN out BY <1>8, <1>12, <3>1 DEF Probe!AcksGoFirst
    <3>2. CASE i \notin DOMAIN out
      <4>1. out'[i].serial = e.n /\ e.kind = "configure" BY <1>4, <1>9, <3>2
      <4> QED BY <4>1
    <3> QED BY <3>1, <3>2
  <2>2. ASSUME mode = "xdg", NEW i \in DOMAIN out', out'[i].op = "attach"
        PROVE  acked \/ \E j \in 1 .. i - 1 : out'[j].op = "ack"
    <3>1. CASE i \in DOMAIN out
      <4>1. acked \/ \E j \in 1 .. i - 1 : out[j].op = "ack" BY <1>8, <1>12, <2>2, <3>1 DEF Probe!AcksGoFirst
      <4>2. \A j \in 1 .. i - 1 : out'[j] = out[j] BY <1>6, <3>1
      <4> QED BY <4>1, <4>2
    <3>2. CASE i \notin DOMAIN out
      <4>1. i - n \in 1 .. Len(t) /\ out'[i] = t[i - n] BY <1>9, <3>2
      <4>2. 1 < i - n /\ t[1].op = "ack" /\ 1 \in 1 .. Len(t) BY <1>4, <2>2, <4>1
      <4>3. out'[n + 1] = t[1] /\ n + 1 \in 1 .. i - 1 BY <1>4, <1>6, <4>1, <4>2
      <4> QED BY <4>2, <4>3
    <3> QED BY <3>1, <3>2
  <2> QED BY <2>1, <2>2 DEF Probe!AcksGoFirst
<1> QED BY <1>6, <1>7, <1>8, <1>10, <1>11, <1>12 DEF R

(* One event of the main loop, from the queue or, if that is empty, from   *)
(* the socket.                                                             *)
LEMMA LoopKeeps ==
  ASSUME Probe!IInv, Probe!Loop PROVE Probe!IInv'
<1>1. Probe!StreamsOK /\ Probe!OneSync /\ Probe!NothingIsLost BY DEF Probe!IInv
<1>2. /\ over = "no" /\ await = 0
      /\ UNCHANGED <<mode, step, nextid, await, objects, sent, acked, mapped>>
  BY DEF Probe!Loop, Probe!Looping, Probe!Running
<1>3. /\ queue \in Seq(Probe!Events) /\ inn \in Seq(Probe!Events) /\ handled \in Seq(Nat)
      /\ Len(queue) \in Nat /\ Len(handled) \in Nat /\ Len(sent) \in Nat
      /\ DOMAIN queue = 1 .. Len(queue) /\ DOMAIN handled = 1 .. Len(handled) /\ DOMAIN sent = 1 .. Len(sent)
      /\ Probe!Taken = Len(handled) + Len(queue)
  BY <1>1 DEF Probe!StreamsOK, Probe!Taken
<1>4. \A i \in DOMAIN inn : inn[i].kind # "done" BY <1>1, <1>2 DEF Probe!OneSync
<1>5. Probe!Steps' = Probe!Steps BY <1>2 DEF Probe!Steps
<1> DEFINE Rest(e) ==
      /\ Probe!Handle(e) /\ e \in Probe!Events
      /\ e.kind # "error" => e.n \in DOMAIN sent /\ e.kind = sent[e.n]
<1>6. ASSUME NEW e, Rest(e), queue' \in Seq(Probe!Events), inn' \in Seq(Probe!Events),
             Probe!NothingIsLost',
             \A i \in DOMAIN inn' : inn'[i] \in {inn[j] : j \in DOMAIN inn},
             mode # "info" => e.kind # "error"
      PROVE  Probe!IInv'
  <2>1. /\ out' \in Seq(Probe!Requests) /\ handled' \in Seq(Nat) /\ configured' \in BOOLEAN
        /\ \A i \in DOMAIN out : i \in DOMAIN out' /\ out'[i] = out[i]
        /\ \A i \in DOMAIN out' : i \in DOMAIN out \/ out'[i].op \in {"ack", "attach", "commit", "pong"}
        /\ Probe!IdsFollow => Probe!IdsFollow'
        /\ Probe!AcksGoFirst => Probe!AcksGoFirst'
    BY <1>1, <1>2, <1>6, HandleAnswers
  <2>2. Probe!StreamsOK' BY <1>1, <1>2, <1>5, <1>6, <2>1 DEF Probe!StreamsOK
  <2>3. Probe!OneSync'
    <3>1. \A i \in DOMAIN out : out[i].op # "checkpoint" BY <1>1, <1>2 DEF Probe!OneSync
    <3>2. \A i \in DOMAIN out' : out'[i].op # "checkpoint" BY <2>1, <3>1
    <3>3. \A i \in DOMAIN inn' : inn'[i].kind # "done" BY <1>4, <1>6
    <3> QED BY <3>2, <3>3 DEF Probe!OneSync
  <2>4. ASSUME mode # "info" PROVE Probe!NoProtocolError'
    <3>1. Probe!NoProtocolError BY <2>4 DEF Probe!IInv
    <3>2. over' = over BY <1>6, <2>4 DEF Probe!Handle
    <3> QED BY <1>6, <3>1, <3>2 DEF Probe!NoProtocolError, Probe!Failed
  <2> QED BY <1>2, <1>6, <2>1, <2>2, <2>3, <2>4 DEF Probe!IInv
<1>7. CASE queue # <<>>
  <2> DEFINE e == queue[1]
  <2>1. /\ Head(queue) = e /\ e \in Probe!Events /\ queue' = Tail(queue) /\ inn' = inn
        /\ queue' \in Seq(Probe!Events) /\ Len(queue') = Len(queue) - 1 /\ DOMAIN queue' = 1 .. Len(queue) - 1
        /\ \A i \in 1 .. Len(queue) - 1 : queue'[i] = queue[i + 1]
        /\ Len(queue) > 0 /\ Probe!Handle(e)
    <3>1. /\ Head(queue) = e /\ e \in Probe!Events /\ Len(queue) > 0
          /\ Tail(queue) \in Seq(Probe!Events) /\ Len(Tail(queue)) = Len(queue) - 1
          /\ DOMAIN Tail(queue) = 1 .. Len(queue) - 1
          /\ \A i \in 1 .. Len(queue) - 1 : Tail(queue)[i] = queue[i + 1]
      BY ONLY <1>3, <1>7, TailFacts
    <3>2. Probe!Handle(Head(queue)) /\ queue' = Tail(queue) /\ inn' = inn BY <1>7 DEF Probe!Loop
    <3> HIDE DEF e
    <3>3. Probe!Handle(e) BY <3>1, <3>2 DEF Probe!Handle
    <3> QED BY <3>1, <3>2, <3>3
  <2>2. /\ Probe!IsOwn(e) /\ e.n = Len(handled) + 1 /\ e.kind = sent[e.n]
    <3>1. 1 \in DOMAIN queue BY <1>3, <2>1
    <3> QED BY <1>1, <3>1 DEF Probe!NothingIsLost
  <2>3. e.kind # "error" /\ e.n \in DOMAIN sent /\ e.n \in Nat
    BY <1>1, <1>3, <2>1, <2>2 DEF Probe!IsOwn, Probe!NothingIsLost
  <2>4. handled' = Append(handled, e.n) BY <2>1, <2>3 DEF Probe!Handle
  <2> HIDE DEF e
  <2>5. /\ DOMAIN handled' = 1 .. Len(handled) + 1 /\ Len(handled') = Len(handled) + 1
        /\ handled'[Len(handled) + 1] = e.n /\ \A i \in 1 .. Len(handled) : handled'[i] = handled[i]
    BY <1>3, <2>3, <2>4, AppendFacts
  <2>6. Probe!Taken' = Probe!Taken BY <1>3, <2>1, <2>5 DEF Probe!Taken
  <2>7. \A i \in DOMAIN handled' : handled'[i] = i
    <3>1. \A i \in 1 .. Len(handled) + 1 : i \in 1 .. Len(handled) \/ i = Len(handled) + 1 BY <1>3
    <3> QED BY <1>1, <1>3, <2>2, <2>5, <3>1 DEF Probe!NothingIsLost
  <2>8. \A i \in DOMAIN queue' :
          Probe!IsOwn(queue'[i]) /\ queue'[i].n = Len(handled') + i /\ queue'[i].kind = sent[queue'[i].n]
    <3> TAKE i \in DOMAIN queue'
    <3>1. i + 1 \in DOMAIN queue /\ queue'[i] = queue[i + 1] BY <1>3, <2>1
    <3>2. queue[i + 1].n = Len(handled) + (i + 1) /\ Probe!IsOwn(queue[i + 1]) /\ queue[i + 1].kind = sent[queue[i + 1].n]
      BY <1>1, <3>1 DEF Probe!NothingIsLost
    <3>3. Len(handled') + i = Len(handled) + (i + 1)
      <4>1. i \in Nat BY <1>3, <2>1
      <4> QED BY ONLY <4>1, <1>3, <2>5
    <3> QED BY <3>1, <3>2, <3>3
  <2>9. Probe!NothingIsLost'
    BY <1>1, <1>2, <2>1, <2>6, <2>7, <2>8 DEF Probe!NothingIsLost, Probe!IsOwn
  <2>10. \A i \in DOMAIN inn' : inn'[i] \in {inn[j] : j \in DOMAIN inn} BY <2>1
  <2>11. Rest(e) /\ e.kind # "error" BY <2>1, <2>2, <2>3
  <2>12. queue' \in Seq(Probe!Events) /\ inn' \in Seq(Probe!Events) BY <1>3, <2>1
  <2> HIDE DEF Rest
  <2> QED BY <1>6, <2>9, <2>10, <2>11, <2>12
<1>8. CASE queue = <<>>
  <2> DEFINE e == inn[1]
             b == IF Probe!IsOwn(e) THEN Probe!Taken + 1 ELSE Probe!Taken
  <2>1. /\ inn # <<>> /\ Head(inn) = e /\ e \in Probe!Events /\ inn' = Tail(inn) /\ queue' = queue
        /\ inn' \in Seq(Probe!Events) /\ Probe!Handle(e) /\ 1 \in DOMAIN inn
    <3>1. inn # <<>> /\ Probe!Handle(Head(inn)) /\ inn' = Tail(inn) /\ queue' = queue BY <1>8 DEF Probe!Loop
    <3>2. Head(inn) = e /\ e \in Probe!Events /\ Tail(inn) \in Seq(Probe!Events) /\ 1 \in DOMAIN inn
      BY ONLY <1>3, <3>1, TailFacts
    <3> HIDE DEF e
    <3>3. Probe!Handle(e) BY <3>1, <3>2 DEF Probe!Handle
    <3> QED BY <3>1, <3>2, <3>3
  <2>2. /\ Probe!IsOwn(e) => e.n = Probe!Taken + 1 /\ e.kind = sent[e.n]
        /\ b \in Nat /\ b <= Len(sent)
        /\ \A n \in b + 1 .. Len(sent) : \E i \in DOMAIN inn' : Probe!IsOwn(inn'[i]) /\ inn'[i].n = n
        /\ \A i, j \in DOMAIN inn' : i < j /\ Probe!IsOwn(inn'[i]) /\ Probe!IsOwn(inn'[j]) => inn'[i].n < inn'[j].n
        /\ \A i \in DOMAIN inn' : Probe!IsOwn(inn'[i]) => inn'[i].n \in b + 1 .. Len(sent) /\ inn'[i].kind = sent[inn'[i].n]
        /\ \A i \in DOMAIN inn' : i + 1 \in DOMAIN inn /\ inn'[i] = inn[i + 1]
    BY <1>1, <2>1, FirstIsNext
  <2>3. e.kind # "done" /\ (Probe!IsOwn(e) <=> e.kind # "error") BY <1>4, <2>1 DEF Probe!IsOwn
  <2>4. handled' = IF Probe!IsOwn(e) THEN Append(handled, e.n) ELSE handled
    BY <2>1, <2>3 DEF Probe!Handle
  <2>5. Probe!IsOwn(e) => e.n = Len(handled) + 1 /\ e.n \in DOMAIN sent
    BY <1>3, <1>8, <2>2
  <2>6. /\ Probe!Taken' = b
        /\ \A i \in DOMAIN handled' : handled'[i] = i
    <3>1. CASE Probe!IsOwn(e)
      <4>1. handled' = Append(handled, e.n) /\ e.n = Len(handled) + 1 /\ b = Probe!Taken + 1 BY <2>4, <2>5, <3>1
      <4> HIDE DEF e, b
      <4>2. /\ DOMAIN handled' = 1 .. Len(handled) + 1 /\ Len(handled') = Len(handled) + 1
            /\ handled'[Len(handled) + 1] = e.n /\ \A i \in 1 .. Len(handled) : handled'[i] = handled[i]
        BY <1>3, <4>1, AppendFacts
      <4>3. \A i \in 1 .. Len(handled) + 1 : i \in 1 .. Len(handled) \/ i = Len(handled) + 1 BY <1>3
      <4>4. \A i \in DOMAIN handled' : handled'[i] = i BY <1>1, <1>3, <4>1, <4>2, <4>3 DEF Probe!NothingIsLost
      <4> QED BY <1>3, <2>1, <4>1, <4>2, <4>4 DEF Probe!Taken
    <3>2. CASE ~Probe!IsOwn(e)
      <4>1. handled' = handled /\ b = Probe!Taken BY <2>4, <3>2
      <4> HIDE DEF e, b
      <4> QED BY <1>1, <2>1, <4>1 DEF Probe!Taken, Probe!NothingIsLost
    <3> QED BY <3>1, <3>2
  <2>7. DOMAIN queue' = {} BY <1>8, <2>1
  <2> HIDE DEF e, b
  <2>8. Probe!NothingIsLost'
    BY <1>2, <2>2, <2>6, <2>7 DEF Probe!NothingIsLost, Probe!IsOwn
  <2>9. \A i \in DOMAIN inn' : inn'[i] \in {inn[j] : j \in DOMAIN inn} BY <2>2
  <2>10. mode # "info" => e.kind # "error" BY <2>1 DEF Probe!IInv, Probe!NoProtocolError, Probe!Failed, e
  <2>11. queue' \in Seq(Probe!Events) BY <1>3, <2>1
  <2>12. e.kind # "error" => e.n \in DOMAIN sent /\ e.kind = sent[e.n] BY <2>2, <2>3, <2>5
  <2>13. Rest(e) BY <2>1, <2>12
  <2>14. inn' \in Seq(Probe!Events) BY <2>1
  <2> HIDE DEF Rest
  <2> QED BY <1>6, <2>8, <2>9, <2>10, <2>11, <2>13, <2>14
<1> QED BY <1>7, <1>8

(* The compositor has no reason to end the connection: the first request   *)
(* is as it must be.                                                       *)
LEMMA FirstIsLegal ==
  ASSUME Probe!StreamsOK, Probe!IdsFollow, Probe!AcksGoFirst, out # <<>>
  PROVE  ~Probe!Illegal(out[1])
<1> DEFINE r == out[1]
<1>1. /\ 1 \in DOMAIN out /\ DOMAIN out = 1 .. Len(out) /\ Len(out) \in Nat /\ Len(objects) \in Nat /\ nextid \in Nat
  BY TailFacts DEF Probe!StreamsOK
<1>2. Probe!Makes(r.op) => r.new = Len(objects) + 1
  <2> SUFFICES ASSUME Probe!Makes(r.op) PROVE r.new = Len(objects) + 1
    OBVIOUS
  <2>1. r.new \in Len(objects) + 1 .. nextid BY <1>1 DEF Probe!IdsFollow
  <2>2. Len(objects) + 1 \in Len(objects) + 1 .. nextid BY <1>1, <2>1
  <2>3. PICK i \in DOMAIN out : Probe!Makes(out[i].op) /\ out[i].new = Len(objects) + 1
    BY <2>2 DEF Probe!IdsFollow
  <2>4. CASE i = 1 BY <2>3, <2>4
  <2>5. CASE i # 1
    <3>1. r.new < Len(objects) + 1 BY <1>1, <2>3, <2>5 DEF Probe!IdsFollow
    <3> QED BY <1>1, <2>1, <3>1
  <2> QED BY <2>4, <2>5
<1>3. r.op = "attach" /\ mode = "xdg" => acked
  <2>1. 1 .. 1 - 1 = {} OBVIOUS
  <2> QED BY <1>1, <2>1 DEF Probe!AcksGoFirst
<1>4. r.op = "ack" => r.serial \in DOMAIN sent /\ sent[r.serial] = "configure" BY <1>1 DEF Probe!AcksGoFirst
<1> QED BY <1>2, <1>3, <1>4 DEF Probe!Illegal

(* An event of another kind behind the others takes nothing away.          *)
LEMMA OthersFollow ==
  ASSUME Probe!StreamsOK, Probe!NothingIsLost, NEW x \in Probe!Events, x.kind \in {"done", "error"},
         inn' = Append(inn, x) \/ inn' = inn,
         UNCHANGED <<handled, queue, sent>>
  PROVE  Probe!NothingIsLost' /\ inn' \in Seq(Probe!Events)
<1>1. inn \in Seq(Probe!Events) BY DEF Probe!StreamsOK
<1>2. CASE inn' = inn BY <1>1, <1>2 DEF Probe!NothingIsLost, Probe!Taken, Probe!IsOwn
<1>3. CASE inn' = Append(inn, x)
  <2>1. /\ inn' \in Seq(Probe!Events) /\ DOMAIN inn = 1 .. Len(inn) /\ DOMAIN inn' = 1 .. Len(inn) + 1
        /\ Len(inn) \in Nat /\ inn'[Len(inn) + 1] = x
        /\ \A i \in 1 .. Len(inn) : inn'[i] = inn[i]
    BY <1>1, <1>3, AppendFacts
  <2>2. ~Probe!IsOwn(x) BY DEF Probe!IsOwn
  <2>3. \A i \in DOMAIN inn' : Probe!IsOwn(inn'[i]) => i \in DOMAIN inn /\ inn'[i] = inn[i]
    BY <2>1, <2>2
  <2>4. \A n \in Probe!Taken + 1 .. Len(sent) : \E i \in DOMAIN inn' : Probe!IsOwn(inn'[i]) /\ inn'[i].n = n
    <3> TAKE n \in Probe!Taken + 1 .. Len(sent)
    <3>1. PICK i \in DOMAIN inn : Probe!IsOwn(inn[i]) /\ inn[i].n = n BY DEF Probe!NothingIsLost
    <3> QED BY <2>1, <3>1
  <2>5. \A i, j \in DOMAIN inn' : i < j /\ Probe!IsOwn(inn'[i]) /\ Probe!IsOwn(inn'[j]) => inn'[i].n < inn'[j].n
    BY <2>3 DEF Probe!NothingIsLost
  <2>6. \A i \in DOMAIN inn' : Probe!IsOwn(inn'[i]) =>
          inn'[i].n \in Probe!Taken + 1 .. Len(sent) /\ inn'[i].kind = sent[inn'[i].n]
    BY <2>3 DEF Probe!NothingIsLost
  <2> QED BY <2>1, <2>4, <2>5, <2>6 DEF Probe!NothingIsLost, Probe!Taken, Probe!IsOwn
<1> QED BY <1>2, <1>3

(* The compositor serves a request.                                        *)
LEMMA ServeKeeps ==
  ASSUME Probe!IInv, Probe!Serve PROVE Probe!IInv'
<1> DEFINE r == out[1]
           x == IF Probe!Illegal(r) THEN [kind |-> "error", n |-> 0] ELSE [kind |-> "done", n |-> r.new]
           legal == ~Probe!Illegal(r)
<1>1. Probe!StreamsOK /\ Probe!OneSync /\ Probe!NothingIsLost BY DEF Probe!IInv
<1>2. /\ out # <<>> /\ out \in Seq(Probe!Requests) /\ inn \in Seq(Probe!Events)
      /\ objects \in Seq(Probe!Ops \union {"wl_display"})
  BY <1>1 DEF Probe!Serve, Probe!StreamsOK
<1>3. /\ Tail(out) \in Seq(Probe!Requests) /\ Head(out) = r /\ r \in Probe!Requests /\ 1 \in DOMAIN out
      /\ DOMAIN out = 1 .. Len(out) /\ DOMAIN Tail(out) = 1 .. Len(out) - 1 /\ Len(out) \in Nat
      /\ \A i \in 1 .. Len(out) - 1 : Tail(out)[i] = out[i + 1]
      /\ \A i \in 2 .. Len(out) : out[i] = Tail(out)[i - 1]
  BY ONLY <1>2, TailFacts
<1>4. /\ out' = Tail(out) /\ ~Probe!Failed
      /\ objects' = IF Probe!Makes(r.op) /\ legal THEN Append(objects, r.op) ELSE objects
      /\ inn' = IF ~legal \/ r.op = "checkpoint" THEN Append(inn, x) ELSE inn
      /\ acked' = (acked \/ (r.op = "ack" /\ legal))
      /\ mapped' = (mapped \/ (r.op = "attach" /\ legal))
      /\ UNCHANGED <<mode, step, nextid, await, queue, configured, handled, over, sent>>
  BY <1>3 DEF Probe!Serve
<1>5. x \in Probe!Events /\ x.kind = IF legal THEN "done" ELSE "error"
  BY <1>3 DEF Probe!Events, Probe!Requests
<1>6. legal \in BOOLEAN /\ r.op \in Probe!Ops BY <1>3 DEF Probe!Requests
<1>7. legal => x.n = r.new OBVIOUS
<1> HIDE DEF r, x, legal
<1>8. Probe!NothingIsLost' /\ inn' \in Seq(Probe!Events) BY <1>1, <1>4, <1>5, OthersFollow
<1>9. \A i \in DOMAIN out' : i + 1 \in DOMAIN out /\ out'[i] = out[i + 1] /\ i \in Nat /\ i + 1 # 1
  BY <1>3, <1>4
<1>10. Probe!StreamsOK'
  <2>1. objects' \in Seq(Probe!Ops \union {"wl_display"}) BY <1>2, <1>4, <1>6, AppendFacts
  <2>2. Probe!Steps' = Probe!Steps BY <1>4 DEF Probe!Steps
  <2>3. acked' \in BOOLEAN /\ mapped' \in BOOLEAN BY <1>1, <1>4 DEF Probe!StreamsOK
  <2> QED BY <1>1, <1>3, <1>4, <1>8, <2>1, <2>2, <2>3 DEF Probe!StreamsOK
<1>11. /\ DOMAIN inn = 1 .. Len(inn) /\ Len(inn) \in Nat
       /\ \A i \in DOMAIN inn' : \/ i \in DOMAIN inn /\ inn'[i] = inn[i]
                                 \/ i = Len(inn) + 1 /\ inn'[i] = x /\ (~legal \/ r.op = "checkpoint")
  BY <1>2, <1>4, <1>5, AppendFacts
<1>12. Probe!OneSync'
  <2>1. CASE r.op = "checkpoint" /\ legal
    <3>1. x.kind = "done" /\ x.n = await /\ await # 0 BY <1>1, <1>3, <1>5, <1>7, <2>1 DEF Probe!OneSync, r
    <3>2. \A i \in DOMAIN inn : inn[i].kind # "done" BY <1>1, <1>3, <2>1 DEF Probe!OneSync, r
    <3>3. \A i \in DOMAIN out' : out'[i].op # "checkpoint" BY <1>1, <1>3, <1>9, <2>1 DEF Probe!OneSync, r
    <3>4. \A i \in DOMAIN inn' : inn'[i].kind = "done" => i = Len(inn) + 1 /\ inn'[i] = x BY <1>11, <3>2
    <3> QED BY <1>4, <3>1, <3>3, <3>4 DEF Probe!OneSync
  <2>2. CASE ~(r.op = "checkpoint" /\ legal)
    <3>1. \A i \in DOMAIN inn' : inn'[i].kind = "done" => i \in DOMAIN inn /\ inn'[i] = inn[i]
      BY <1>5, <1>11, <2>2
    <3>2. \A i, j \in DOMAIN out' : out'[i].op = "checkpoint" /\ out'[j].op = "checkpoint" => i = j
      <4> SUFFICES ASSUME NEW i \in DOMAIN out', NEW j \in DOMAIN out', out'[i].op = "checkpoint", out'[j].op = "checkpoint"
                   PROVE  i = j
        OBVIOUS
      <4>1. i + 1 = j + 1 BY <1>1, <1>9 DEF Probe!OneSync
      <4> QED BY <1>9, <4>1
    <3>3. \A i, j \in DOMAIN inn' : inn'[i].kind = "done" /\ inn'[j].kind = "done" => i = j
      BY <1>1, <3>1 DEF Probe!OneSync
    <3>4. /\ \A i \in DOMAIN out' : out'[i].op = "checkpoint" => await # 0 /\ out'[i].new = await
          /\ \A i \in DOMAIN inn' : inn'[i].kind = "done" => await # 0 /\ inn'[i].n = await
          /\ \A i \in DOMAIN out', j \in DOMAIN inn' : ~(out'[i].op = "checkpoint" /\ inn'[j].kind = "done")
      BY <1>1, <1>9, <3>1 DEF Probe!OneSync
    <3> QED BY <1>4, <3>2, <3>3, <3>4 DEF Probe!OneSync
  <2> QED BY <2>1, <2>2
<1>13. ASSUME mode # "info" PROVE Probe!IdsFollow' /\ Probe!AcksGoFirst' /\ Probe!NoProtocolError'
  <2>1. Probe!IdsFollow /\ Probe!AcksGoFirst /\ Probe!NoProtocolError BY <1>13 DEF Probe!IInv
  <2>2. legal BY <1>1, <1>2, <2>1, FirstIsLegal DEF legal, r
  <2>3. Probe!NoProtocolError' BY <1>4, <1>5, <1>11, <2>1, <2>2 DEF Probe!NoProtocolError, Probe!Failed
  <2>4. Probe!AcksGoFirst'
    <3>1. ASSUME mode = "xdg", NEW i \in DOMAIN out', out'[i].op = "attach"
          PROVE  acked' \/ \E j \in 1 .. i - 1 : out'[j].op = "ack"
      <4>1. acked \/ \E j \in 1 .. i : out[j].op = "ack"
        <5>1. acked \/ \E j \in 1 .. (i + 1) - 1 : out[j].op = "ack" BY <1>9, <2>1, <3>1 DEF Probe!AcksGoFirst
        <5> QED BY <1>9, <5>1
      <4>2. ASSUME NEW j \in 1 .. i, out[j].op = "ack" PROVE acked' \/ \E k \in 1 .. i - 1 : out'[k].op = "ack"
        <5>1. CASE j = 1 BY <1>4, <2>2, <4>2, <5>1 DEF r
        <5>2. CASE j # 1
          <6>1. j - 1 \in 1 .. i - 1 /\ j \in 2 .. Len(out) BY <1>3, <1>4, <1>9, <5>2
          <6>2. out[j] = out'[j - 1] BY <1>3, <1>4, <6>1
          <6> QED BY <4>2, <6>1, <6>2
        <5> QED BY <5>1, <5>2
      <4> QED BY <1>4, <4>1, <4>2
    <3>2. \A i \in DOMAIN out' : out'[i].op = "ack" => out'[i].serial \in DOMAIN sent /\ sent[out'[i].serial] = "configure"
      BY <1>9, <2>1 DEF Probe!AcksGoFirst
    <3> QED BY <1>4, <3>1, <3>2 DEF Probe!AcksGoFirst
  <2>5. Probe!IdsFollow'
    <3>1. Len(objects) \in Nat /\ nextid \in Nat /\ Len(objects) <= nextid
      BY <1>1, <2>1 DEF Probe!StreamsOK, Probe!IdsFollow
    <3>2. Probe!Makes(r.op) => r.new = Len(objects) + 1 BY <2>2 DEF legal, Probe!Illegal
    <3>3. Len(objects') = IF Probe!Makes(r.op) THEN Len(objects) + 1 ELSE Len(objects)
      BY <1>2, <1>4, <1>6, <2>2, AppendFacts
    <3>4. Probe!Makes(r.op) => Len(objects) + 1 <= nextid BY <1>3, <2>1, <3>1, <3>2 DEF Probe!IdsFollow, r
    <3>5. \A i, j \in DOMAIN out' :
            i < j /\ Probe!Makes(out'[i].op) /\ Probe!Makes(out'[j].op) => out'[i].new < out'[j].new
      <4> SUFFICES ASSUME NEW i \in DOMAIN out', NEW j \in DOMAIN out', i < j,
                          Probe!Makes(out'[i].op), Probe!Makes(out'[j].op)
                   PROVE  out'[i].new < out'[j].new
        OBVIOUS
      <4>1. i + 1 < j + 1 BY <1>9
      <4> QED BY <1>9, <2>1, <4>1 DEF Probe!IdsFollow
    <3>6. \A i \in DOMAIN out' : Probe!Makes(out'[i].op) => out'[i].new \in Len(objects') + 1 .. nextid
      <4> SUFFICES ASSUME NEW i \in DOMAIN out', Probe!Makes(out'[i].op) PROVE out'[i].new \in Len(objects') + 1 .. nextid
        OBVIOUS
      <4>1. out'[i].new \in Len(objects) + 1 .. nextid BY <1>9, <2>1 DEF Probe!IdsFollow
      <4>2. Probe!Makes(r.op) => out'[i].new > Len(objects) + 1
        <5>1. 1 < i + 1 BY <1>9
        <5>2. Probe!Makes(r.op) => r.new < out'[i].new BY <1>3, <1>9, <2>1, <5>1 DEF Probe!IdsFollow, r
        <5> QED BY <3>1, <3>2, <4>1, <5>2
      <4> QED BY <3>1, <3>3, <4>1, <4>2
    <3>7. \A k \in Len(objects') + 1 .. nextid : \E i \in DOMAIN out' : Probe!Makes(out'[i].op) /\ out'[i].new = k
      <4> TAKE k \in Len(objects') + 1 .. nextid
      <4>1. k \in Len(objects) + 1 .. nextid BY <3>1, <3>3
      <4>2. PICK i \in DOMAIN out : Probe!Makes(out[i].op) /\ out[i].new = k BY <2>1, <4>1 DEF Probe!IdsFollow
      <4>3. i # 1 BY <3>1, <3>2, <3>3, <4>2 DEF r
      <4>4. i - 1 \in DOMAIN out' /\ out'[i - 1] = out[i] BY <1>3, <1>4, <4>3
      <4> QED BY <4>2, <4>4
    <3>8. nextid >= Len(objects') BY <3>1, <3>3, <3>4
    <3> QED BY <1>4, <3>5, <3>6, <3>7, <3>8 DEF Probe!IdsFollow, Probe!Makes
  <2> QED BY <2>3, <2>4, <2>5
<1> QED BY <1>4, <1>8, <1>10, <1>12, <1>13 DEF Probe!IInv

(* The compositor sends an event by itself.                                *)
LEMMA SendsKeeps ==
  ASSUME Probe!IInv, NEW kind \in {"configure", "ping", "touch"}, NEW max, Probe!Sends(kind, max) PROVE Probe!IInv'
<1> DEFINE m == Len(inn)
           k == Len(sent)
           x == [kind |-> kind, n |-> k + 1]
<1>1. Probe!StreamsOK /\ Probe!OneSync /\ Probe!NothingIsLost BY DEF Probe!IInv
<1>2. inn \in Seq(Probe!Events) /\ sent \in Seq({"configure", "ping", "touch"}) BY <1>1 DEF Probe!StreamsOK
<1>3. sent' = Append(sent, kind) BY DEF Probe!Sends
<1>4. /\ sent' \in Seq({"configure", "ping", "touch"}) /\ k \in Nat
      /\ Len(sent') = k + 1 /\ DOMAIN sent = 1 .. k /\ DOMAIN sent' = 1 .. k + 1
      /\ \A i \in 1 .. k : sent'[i] = sent[i]
      /\ sent'[k + 1] = kind
  BY ONLY <1>2, <1>3, AppendFacts
<1>5. /\ inn' = Append(inn, x)
      /\ UNCHANGED <<mode, step, nextid, await, queue, configured, handled, over, out, objects, acked, mapped>>
  BY <1>4 DEF Probe!Sends
<1>6. x \in Probe!Events /\ x.kind = kind /\ x.n = k + 1 BY <1>4 DEF Probe!Events
<1> HIDE DEF x
<1>7. /\ inn' \in Seq(Probe!Events) /\ m \in Nat /\ DOMAIN inn = 1 .. m /\ DOMAIN inn' = 1 .. m + 1
      /\ \A i \in 1 .. m : inn'[i] = inn[i]
      /\ inn'[m + 1] = x
  BY ONLY <1>2, <1>5, <1>6, AppendFacts
<1>8. \A i \in DOMAIN inn' : \/ i \in DOMAIN inn /\ inn'[i] = inn[i]
                             \/ i = m + 1 /\ inn'[i] = x
  BY <1>7
<1>9. Probe!StreamsOK'
  <2>1. Probe!Steps' = Probe!Steps BY <1>5 DEF Probe!Steps
  <2> QED BY <1>1, <1>4, <1>5, <1>7, <2>1 DEF Probe!StreamsOK
<1>10. Probe!OneSync'
  <2>1. \A i \in DOMAIN inn' : inn'[i].kind = "done" => i \in DOMAIN inn /\ inn'[i] = inn[i] BY <1>6, <1>8
  <2> QED BY <1>1, <1>5, <2>1 DEF Probe!OneSync
<1>11. Probe!NothingIsLost'
  <2>1. Probe!Taken \in Nat /\ Probe!Taken <= k /\ Probe!Taken' = Probe!Taken
    BY <1>1, <1>5 DEF Probe!NothingIsLost, Probe!StreamsOK, Probe!Taken
  <2>2. Probe!IsOwn(x) BY <1>6 DEF Probe!IsOwn
  <2>3. \A i \in DOMAIN queue : queue[i].n \in 1 .. k
    <3>1. \A i \in DOMAIN queue : queue[i].n = Len(handled) + i BY <1>1 DEF Probe!NothingIsLost
    <3>2. /\ DOMAIN queue = 1 .. Len(queue) /\ Len(queue) \in Nat /\ Len(handled) \in Nat
          /\ Len(handled) + Len(queue) <= k
      BY <1>1 DEF Probe!StreamsOK, Probe!NothingIsLost, Probe!Taken
    <3> QED BY <1>4, <3>1, <3>2
  <2>4. \A n \in Probe!Taken + 1 .. k + 1 : \E i \in DOMAIN inn' : Probe!IsOwn(inn'[i]) /\ inn'[i].n = n
    <3> TAKE n \in Probe!Taken + 1 .. k + 1
    <3>1. CASE n = k + 1 BY <1>6, <1>7, <2>2, <3>1
    <3>2. CASE n # k + 1
      <4>1. n \in Probe!Taken + 1 .. k BY <1>4, <2>1, <3>2
      <4>2. PICK i \in DOMAIN inn : Probe!IsOwn(inn[i]) /\ inn[i].n = n BY <1>1, <4>1 DEF Probe!NothingIsLost
      <4> QED BY <1>7, <4>2
    <3> QED BY <3>1, <3>2
  <2>5. \A i \in DOMAIN inn : Probe!IsOwn(inn[i]) => inn[i].n \in Probe!Taken + 1 .. k /\ inn[i].kind = sent[inn[i].n]
    BY <1>1 DEF Probe!NothingIsLost
  <2>6. \A i \in DOMAIN inn' : Probe!IsOwn(inn'[i]) => inn'[i].n \in Probe!Taken + 1 .. k + 1 /\ inn'[i].kind = sent'[inn'[i].n]
    <3> SUFFICES ASSUME NEW i \in DOMAIN inn', Probe!IsOwn(inn'[i])
                 PROVE  inn'[i].n \in Probe!Taken + 1 .. k + 1 /\ inn'[i].kind = sent'[inn'[i].n]
      OBVIOUS
    <3>1. CASE i = m + 1 BY <1>4, <1>6, <1>7, <2>1, <3>1
    <3>2. CASE i # m + 1
      <4>1. i \in DOMAIN inn /\ inn'[i] = inn[i] BY <1>8, <3>2
      <4>2. inn'[i].n \in Probe!Taken + 1 .. k /\ inn'[i].kind = sent[inn'[i].n] BY <2>5, <4>1
      <4> QED BY <1>4, <2>1, <4>2
    <3> QED BY <3>1, <3>2
  <2>7. \A i, j \in DOMAIN inn' : i < j /\ Probe!IsOwn(inn'[i]) /\ Probe!IsOwn(inn'[j]) => inn'[i].n < inn'[j].n
    <3> SUFFICES ASSUME NEW i \in DOMAIN inn', NEW j \in DOMAIN inn', i < j,
                        Probe!IsOwn(inn'[i]), Probe!IsOwn(inn'[j])
                 PROVE  inn'[i].n < inn'[j].n
      OBVIOUS
    <3>1. i \in DOMAIN inn /\ inn'[i] = inn[i] /\ i # m + 1 BY <1>7
    <3>2. CASE j = m + 1
      <4>1. inn'[i].n \in Probe!Taken + 1 .. k BY <2>5, <3>1
      <4> QED BY <1>4, <1>6, <1>7, <2>1, <3>2, <4>1
    <3>3. CASE j # m + 1
      <4>1. j \in DOMAIN inn /\ inn'[j] = inn[j] BY <1>8, <3>3
      <4> QED BY <1>1, <3>1, <4>1 DEF Probe!NothingIsLost
    <3> QED BY <3>2, <3>3
  <2>8. \A i \in DOMAIN queue : queue[i].kind = sent'[queue[i].n] /\ Probe!IsOwn(queue[i]) /\ queue[i].n = Len(handled) + i
    BY <1>1, <1>4, <2>3 DEF Probe!NothingIsLost
  <2>9. (\A i \in DOMAIN handled : handled[i] = i) /\ Probe!Taken <= k + 1 BY <1>1, <1>4, <2>1 DEF Probe!NothingIsLost
  <2> QED BY <1>4, <1>5, <2>1, <2>4, <2>6, <2>7, <2>8, <2>9 DEF Probe!NothingIsLost, Probe!IsOwn
<1>12. ASSUME mode # "info" PROVE Probe!IdsFollow' /\ Probe!AcksGoFirst' /\ Probe!NoProtocolError'
  <2>1. Probe!IdsFollow /\ Probe!AcksGoFirst /\ Probe!NoProtocolError BY <1>12 DEF Probe!IInv
  <2>2. Probe!NoProtocolError' BY <1>5, <1>6, <1>8, <2>1 DEF Probe!NoProtocolError, Probe!Failed
  <2>3. Probe!IdsFollow' BY <1>5, <2>1 DEF Probe!IdsFollow, Probe!Makes
  <2>4. Probe!AcksGoFirst' BY <1>4, <1>5, <2>1 DEF Probe!AcksGoFirst
  <2> QED BY <2>2, <2>3, <2>4
<1> QED BY <1>5, <1>9, <1>10, <1>11, <1>12 DEF Probe!IInv

(* Nothing moves but the end of the program.                               *)
LEMMA StillKeeps ==
  ASSUME Probe!IInv, over' \in {over, "done"},
         UNCHANGED <<mode, step, nextid, await, queue, configured, handled, out, inn, objects,
                     sent, acked, mapped>>
  PROVE  Probe!IInv'
<1>1. Probe!Steps' = Probe!Steps BY DEF Probe!Steps
<1>2. Probe!StreamsOK' BY <1>1 DEF Probe!IInv, Probe!StreamsOK
<1>3. Probe!OneSync' BY DEF Probe!IInv, Probe!OneSync
<1>4. Probe!NothingIsLost' BY DEF Probe!IInv, Probe!NothingIsLost, Probe!Taken, Probe!IsOwn
<1>5. ASSUME mode # "info" PROVE Probe!IdsFollow' /\ Probe!AcksGoFirst' /\ Probe!NoProtocolError'
  BY <1>5 DEF Probe!IInv, Probe!IdsFollow, Probe!AcksGoFirst, Probe!Makes, Probe!NoProtocolError, Probe!Failed
<1> QED BY <1>2, <1>3, <1>4, <1>5 DEF Probe!IInv

LEMMA ProbeSteps ==
  ASSUME Probe!IInv, [Probe!Next]_(Probe!vars), Modes \subseteq {"xdg", "wl", "info"} PROVE Probe!IInv'
<1>1. CASE Probe!Request BY <1>1, RequestKeeps
<1>2. CASE Probe!Checkpoint BY <1>2, CheckpointKeeps
<1>3. CASE Probe!Loop BY <1>3, LoopKeeps
<1>4. CASE Probe!TimeUp BY <1>4, StillKeeps DEF Probe!TimeUp
<1>5. CASE Probe!Serve BY <1>5, ServeKeeps
<1>6. CASE Probe!Configure BY <1>6, SendsKeeps DEF Probe!Configure
<1>7. CASE Probe!Ping BY <1>7, SendsKeeps DEF Probe!Ping
<1>8. CASE Probe!Touch BY <1>8, SendsKeeps DEF Probe!Touch
<1>9. CASE UNCHANGED Probe!vars BY <1>9, StillKeeps DEF Probe!vars
<1> QED BY <1>1, <1>2, <1>3, <1>4, <1>5, <1>6, <1>7, <1>8, <1>9 DEF Probe!Next

-----------------------------------------------------------------------------
(* Raw!: Capture.                                                          *)

LEMMA RawStarts == ASSUME Raw!Init, MaxBatches \in Nat PROVE Raw!IInv
<1> USE DEF Raw!Init
<1>1. Raw!TypeOK /\ file \in Seq(Raw!Cell) /\ parsed \in Seq(Seq(Raw!Cell)) /\ buf \in [n : Nat, len : Nat]
  <2>1. 0 \in 0 .. MaxBatches /\ 0 \in 0 .. 0 /\ Len(<< >>) = 0 OBVIOUS
  <2>2. buf.n = 0 /\ buf \in [n : Nat, len : Nat] BY DEF Raw!Nothing
  <2>3. Raw!TypeOK BY <2>1, <2>2 DEF Raw!TypeOK
  <2>4. file \in Seq(Raw!Cell) /\ parsed \in Seq(Seq(Raw!Cell)) OBVIOUS
  <2> QED BY <2>2, <2>3, <2>4
<1>2. Raw!FileIsRow BY DEF Raw!FileIsRow
<1>3. Raw!AllAccounted
  <2>1. Raw!InFile = {} BY DEF Raw!InFile
  <2>2. Raw!InHand = {} BY DEF Raw!InHand
  <2> QED BY <2>1, <2>2 DEF Raw!AllAccounted
<1>4. Raw!ParserFollows BY DEF Raw!ParserFollows
<1> QED BY <1>1, <1>2, <1>3, <1>4 DEF Raw!IInv, Raw!AlarmsAreEarly, Raw!ParsedAreRead, Raw!NothingIsTorn

(* A program that goes on has no parser yet, and the file begins with a    *)
(* batch.                                                                  *)
LEMMA NoParserYet ==
  ASSUME Raw!IInv, pc \notin Raw!Over, UNCHANGED Raw!parservars,
         file' \in Seq(Raw!Cell), Raw!FileIsRow'
  PROVE  /\ Raw!ParserFollows' /\ Raw!ParsedAreRead' /\ Raw!NothingIsTorn'
         /\ parsed' \in Seq(Seq(Raw!Cell)) /\ parser' = "idle" /\ read' = 0
<1>1. parser' = "idle" /\ read' = 0 /\ parsed' = <<>>
  BY DEF Raw!IInv, Raw!ParserFollows, Raw!parservars
<1>2. read' = Len(file') \/ Raw!IsTime(1)' BY <1>1 DEF Raw!FileIsRow
<1>3. {k \in DOMAIN file' : file'[k].kind = "time" /\ k + 1 < read'} = {} BY <1>1
<1>4. Raw!ParserFollows' BY <1>1, <1>2, <1>3 DEF Raw!ParserFollows, Raw!IsTime
<1> QED BY <1>1, <1>4 DEF Raw!ParsedAreRead, Raw!NothingIsTorn

(* The file stays a row of batches where nothing is written, and what is   *)
(* lost is not in it.                                                      *)
LEMMA RowStays ==
  ASSUME Raw!IInv, file' = file, count' \in {count, count + 1},
         \/ lost' = lost
         \/ lost' = lost \union {buf.n} /\ buf # Raw!Nothing /\ pc \notin {"body", "killed"},
         pc \in {"body", "killed"} => pc' = pc \/ pc' = "killed",
         pc' = "body" => pc = "body" /\ buf' = buf
  PROVE  Raw!FileIsRow'
<1>1. Raw!FileIsRow /\ Raw!AllAccounted /\ count \in Nat BY DEF Raw!IInv, Raw!TypeOK
<1>2. \A i \in DOMAIN file : Raw!IsTime(i) => file[i].n \in (1 .. count) \ lost /\ file[i].n \in (1 .. count') \ lost'
  <2>1. \A i \in DOMAIN file : Raw!IsTime(i) => file[i].n \in (1 .. count) \ lost BY <1>1 DEF Raw!FileIsRow
  <2>2. lost' # lost => \A i \in DOMAIN file : Raw!IsTime(i) => file[i].n < buf.n BY <1>1 DEF Raw!AllAccounted
  <2> QED BY <1>1, <2>1, <2>2
<1>3. \A i : Raw!IsTime(i)' = Raw!IsTime(i) /\ Raw!EndAt(i)' = Raw!EndAt(i) BY DEF Raw!IsTime, Raw!EndAt
<1>4. /\ file # <<>> => Raw!IsTime(1)
      /\ \A i, j \in DOMAIN file : i < j /\ Raw!IsTime(i) /\ Raw!IsTime(j) => file[i].n < file[j].n
      /\ pc = "body" =>
           /\ Raw!IsTime(Len(file) - 1) /\ file[Len(file)].n = buf.n /\ file[Len(file)].len = buf.len
  BY <1>1 DEF Raw!FileIsRow
<1>5. \A i \in DOMAIN file : Raw!IsTime(i) =>
       /\ i + 1 \in DOMAIN file
       /\ file[i + 1] = [kind |-> "length", n |-> file[i].n, len |-> file[i + 1].len]
       /\ file[i + 1].len > 0
       /\ \/ /\ Raw!EndAt(i) <= Len(file)
             /\ \A j \in i + 2 .. Raw!EndAt(i) : file[j] = [file[i + 1] EXCEPT !.kind = "data"]
             /\ Raw!EndAt(i) < Len(file) => Raw!IsTime(Raw!EndAt(i) + 1)
          \/ i + 1 = Len(file) /\ pc' \in {"body", "killed"}
  BY <1>1 DEF Raw!FileIsRow
<1>6. /\ file' # <<>> => Raw!IsTime(1)'
      /\ \A i, j \in DOMAIN file' : i < j /\ Raw!IsTime(i)' /\ Raw!IsTime(j)' => file'[i].n < file'[j].n
  BY <1>3, <1>4
<1>7. pc' = "body" =>
        Raw!IsTime(Len(file) - 1)' /\ file'[Len(file')].n = buf'.n /\ file'[Len(file')].len = buf'.len
  BY <1>3, <1>4
<1>8. \A i \in DOMAIN file' : Raw!IsTime(i)' =>
       /\ i + 1 \in DOMAIN file' /\ file'[i].n \in (1 .. count') \ lost'
       /\ file'[i + 1] = [kind |-> "length", n |-> file'[i].n, len |-> file'[i + 1].len]
       /\ file'[i + 1].len > 0
       /\ \/ /\ Raw!EndAt(i)' <= Len(file')
             /\ \A j \in i + 2 .. Raw!EndAt(i)' : file'[j] = [file'[i + 1] EXCEPT !.kind = "data"]
             /\ Raw!EndAt(i)' < Len(file') => Raw!IsTime(Raw!EndAt(i) + 1)'
          \/ i + 1 = Len(file') /\ pc' \in {"body", "killed"}
  BY <1>2, <1>3, <1>5
<1>9. Raw!IsTime(Len(file) - 1)' <=> (Len(file') - 1 \in DOMAIN file' /\ file'[Len(file') - 1].kind = "time")
  BY DEF Raw!IsTime
<1> QED BY <1>6, <1>7, <1>8 DEF Raw!FileIsRow, Raw!IsTime, Raw!EndAt

(* What the steps that leave the file alone do.                            *)
LEMMA RawQuietSteps ==
  ASSUME Raw!IInv, MaxBatches \in Nat, Lengths \subseteq Nat \ {0},
         Raw!Arm \/ Raw!ReadReturns \/ Raw!Return \/ Raw!Alarm \/ Raw!Disarm \/ Raw!Flush \/ Raw!Close \/ Raw!Kill
  PROVE  Raw!IInv'
<1> DEFINE Steady == UNCHANGED Raw!parservars /\ file' = file /\ pc \notin Raw!Over
<1>1. /\ Raw!TypeOK /\ file \in Seq(Raw!Cell) /\ Raw!FileIsRow /\ Raw!AllAccounted /\ Raw!AlarmsAreEarly
      /\ buf \in [n : Nat, len : Nat] /\ count \in Nat /\ Len(file) \in Nat /\ disk \in 0 .. Len(file)
      /\ pc \notin {"closed", "died"} \/ disk = Len(file)
  BY DEF Raw!IInv, Raw!TypeOK
<1>2. Steady
  BY DEF Raw!Arm, Raw!ReadReturns, Raw!Return, Raw!Alarm, Raw!Disarm, Raw!Flush, Raw!Close, Raw!Kill, Raw!Over
<1>3. Raw!InFile' = Raw!InFile BY <1>2 DEF Raw!InFile
<1>4. \A i : Raw!IsTime(i)' = Raw!IsTime(i) BY <1>2 DEF Raw!IsTime
<1>5. SUFFICES /\ pc' \in {"arm", "read", "got", "disarm", "header", "body"} \union Raw!Over
               /\ armed' \in BOOLEAN /\ buf' \in [n : Nat, len : Nat] /\ buf'.n \in 0 .. count'
               /\ count' \in 0 .. MaxBatches /\ lost' \subseteq 1 .. count'
               /\ disk' \in 0 .. Len(file) /\ (pc' \in {"closed", "died"} => disk' = Len(file))
               /\ Raw!FileIsRow' /\ Raw!AllAccounted' /\ Raw!AlarmsAreEarly'
  <2>1. /\ Raw!ParserFollows' /\ Raw!ParsedAreRead' /\ Raw!NothingIsTorn'
        /\ parsed' \in Seq(Seq(Raw!Cell)) /\ parser' = "idle" /\ read' = 0
    BY <1>1, <1>2, <1>5, NoParserYet
  <2>2. Raw!TypeOK' BY <1>1, <1>2, <1>5, <2>1 DEF Raw!TypeOK
  <2> QED BY <1>1, <1>2, <1>5, <2>1, <2>2 DEF Raw!IInv
<1>6. CASE Raw!Arm \/ Raw!Return \/ Raw!Disarm
  <2>1. /\ UNCHANGED <<buf, count, lost, file, disk>> /\ pc \in {"arm", "got", "disarm"}
        /\ pc' \in {"read", "disarm", "arm", "header"} /\ armed' \in BOOLEAN
        /\ pc' \in {"arm", "read"} => buf = Raw!Nothing
        /\ pc' = "header" => buf # Raw!Nothing
        /\ armed' => pc' \in {"read", "disarm"}
    BY <1>1, <1>6 DEF Raw!Arm, Raw!Return, Raw!Disarm, Raw!TypeOK, Raw!AllAccounted, Raw!AlarmsAreEarly
  <2>2. Raw!FileIsRow' BY <2>1, RowStays
  <2>3. Raw!InHand' = Raw!InHand BY <2>1 DEF Raw!InHand
  <2>4. Raw!AllAccounted' BY <1>1, <1>2, <1>3, <1>4, <2>1, <2>3 DEF Raw!AllAccounted, Raw!Nothing
  <2> QED BY <1>1, <2>1, <2>2, <2>4 DEF Raw!AlarmsAreEarly, Raw!TypeOK
<1>7. CASE Raw!ReadReturns
  <2>1. PICK len \in Lengths : buf' = [n |-> count + 1, len |-> len] BY <1>7 DEF Raw!ReadReturns
  <2>2. /\ pc = "read" /\ count < MaxBatches /\ count' = count + 1 /\ pc' = "got"
        /\ UNCHANGED <<armed, lost, file, disk>>
    BY <1>7 DEF Raw!ReadReturns
  <2>3. buf' \in [n : Nat, len : Nat] /\ buf' # Raw!Nothing /\ buf'.n = count + 1 /\ buf'.len \in Nat \ {0}
    BY <1>1, <2>1 DEF Raw!Nothing
  <2>4. Raw!FileIsRow' BY <2>2, RowStays
  <2>5. buf = Raw!Nothing /\ Raw!InHand = {} /\ Raw!InHand' = {count + 1}
    BY <1>1, <2>2, <2>3 DEF Raw!AllAccounted, Raw!InHand
  <2>6. lost \subseteq 1 .. count BY <1>1 DEF Raw!TypeOK
  <2>7. (1 .. count + 1) \ lost = ((1 .. count) \ lost) \union {count + 1} BY <1>1, <2>6
  <2>8. (1 .. count) \ lost = Raw!InFile \union {} BY <1>1, <2>2, <2>5 DEF Raw!AllAccounted
  <2>9. \A i \in DOMAIN file : Raw!IsTime(i) => file[i].n < count + 1
    <3>1. \A i \in DOMAIN file : Raw!IsTime(i) => file[i].n \in (1 .. count) \ lost BY <1>1 DEF Raw!FileIsRow
    <3> QED BY <1>1, <3>1
  <2>10. Raw!AllAccounted'
    BY <1>1, <1>2, <1>3, <1>4, <2>2, <2>3, <2>5, <2>6, <2>7, <2>8, <2>9 DEF Raw!AllAccounted
  <2>11. count + 1 \in 0 .. MaxBatches /\ lost \subseteq 1 .. count + 1 BY <1>1, <2>2, <2>6
  <2> QED BY <1>1, <2>2, <2>3, <2>4, <2>10, <2>11 DEF Raw!AlarmsAreEarly, Raw!TypeOK
<1>8. CASE Raw!Alarm
  <2>1. /\ pc \in {"read", "got", "disarm"} /\ armed' = FALSE /\ count' = count /\ buf' = Raw!Nothing
        /\ pc' \in {"disarm", "died"} /\ disk' \in 0 .. Len(file) /\ (pc' = "died" => disk' = Len(file))
        /\ lost' = IF buf = Raw!Nothing THEN lost ELSE lost \union {buf.n}
    BY <1>1, <1>2, <1>8 DEF Raw!Alarm, Raw!Forget, Raw!AlarmsAreEarly, Raw!Over
  <2>2. buf'.n = 0 /\ buf' \in [n : Nat, len : Nat] BY <2>1 DEF Raw!Nothing
  <2>3. Raw!FileIsRow' BY <1>2, <2>1, RowStays
  <2>4. Raw!InHand' = {} BY <2>1 DEF Raw!InHand
  <2>5. buf # Raw!Nothing => buf.n = count /\ count \notin lost /\ \A i \in DOMAIN file : Raw!IsTime(i) => file[i].n < count
    BY <1>1, <2>1 DEF Raw!AllAccounted
  <2>7. (1 .. count) \ lost = Raw!InFile \union Raw!InHand BY <1>1, <2>1 DEF Raw!AllAccounted
  <2>8. buf # Raw!Nothing => Raw!InHand = {count} BY <2>1, <2>5 DEF Raw!InHand
  <2>9. buf = Raw!Nothing => Raw!InHand = {} BY DEF Raw!InHand
  <2>6. lost' \subseteq 1 .. count'
    <3>1. lost \subseteq 1 .. count BY <1>1 DEF Raw!TypeOK
    <3>2. buf # Raw!Nothing => count \in 1 .. count BY <2>7, <2>8
    <3> QED BY <2>1, <2>5, <3>1, <3>2
  <2>10. count \in Raw!InFile => \E i \in DOMAIN file : Raw!IsTime(i) /\ file[i].n = count
    BY DEF Raw!InFile, Raw!IsTime
  <2>11. buf # Raw!Nothing => count \notin Raw!InFile BY <1>1, <2>5, <2>10
  <2>12. (1 .. count') \ lost' = Raw!InFile \union {}
    BY <2>1, <2>5, <2>7, <2>8, <2>9, <2>11
  <2>13. Raw!AllAccounted' BY <1>3, <2>1, <2>4, <2>12 DEF Raw!AllAccounted
  <2>14. count' \in 0 .. MaxBatches /\ 0 \in 0 .. count' BY <1>1, <2>1 DEF Raw!TypeOK
  <2>15. Raw!AlarmsAreEarly' BY <2>1 DEF Raw!AlarmsAreEarly
  <2> QED BY <1>1, <2>1, <2>2, <2>3, <2>6, <2>13, <2>14, <2>15 DEF Raw!Over
<1>9. CASE Raw!Flush
  <2>1. UNCHANGED <<pc, armed, buf, count, lost, file>> /\ disk' \in 0 .. Len(file)
    BY <1>1, <1>9 DEF Raw!Flush
  <2>2. Raw!FileIsRow' BY <2>1, RowStays
  <2>3. Raw!AllAccounted' BY <1>1, <1>3, <1>4, <2>1 DEF Raw!AllAccounted, Raw!InHand
  <2> QED BY <1>1, <1>2, <2>1, <2>2, <2>3 DEF Raw!AlarmsAreEarly, Raw!TypeOK, Raw!Over
<1>10. CASE Raw!Close \/ Raw!Kill
  <2>1. /\ UNCHANGED <<armed, buf, count, lost, file>> /\ disk' \in 0 .. Len(file)
        /\ pc' \in {"closed", "killed"}
        /\ pc' = "closed" => disk' = Len(file) /\ pc = "arm"
    BY <1>1, <1>10 DEF Raw!Close, Raw!Kill
  <2>2. Raw!FileIsRow' BY <2>1, RowStays, <1>10 DEF Raw!Close, Raw!Kill
  <2>3. pc' = "closed" => Raw!InHand' = Raw!InHand BY <2>1 DEF Raw!InHand
  <2>4. /\ pc' = "closed" => buf = Raw!Nothing /\ (1 .. count) \ lost = Raw!InFile \union Raw!InHand
        /\ buf # Raw!Nothing => buf.n = count /\ count \notin lost /\ buf.len \in Nat \ {0}
    BY <1>1, <2>1 DEF Raw!AllAccounted
  <2>5. Raw!AllAccounted' BY <1>3, <2>1, <2>3, <2>4 DEF Raw!AllAccounted, Raw!Nothing
  <2>6. armed' => pc' = "killed" BY <1>1, <2>1 DEF Raw!AlarmsAreEarly
  <2> QED BY <1>1, <1>2, <2>1, <2>2, <2>5, <2>6 DEF Raw!AlarmsAreEarly, Raw!TypeOK, Raw!Over
<1> QED BY <1>6, <1>7, <1>8, <1>9, <1>10

(* The header of a batch is written behind the batches before it.          *)
LEMMA WriteHeaderKeeps ==
  ASSUME Raw!IInv, Raw!WriteHeader PROVE Raw!IInv'
<1> DEFINE L == Len(file)
           a == [kind |-> "time", n |-> buf.n, len |-> 0]
           b == [kind |-> "length", n |-> buf.n, len |-> buf.len]
<1>1. /\ Raw!TypeOK /\ file \in Seq(Raw!Cell) /\ Raw!FileIsRow /\ Raw!AllAccounted /\ Raw!AlarmsAreEarly
      /\ buf \in [n : Nat, len : Nat] /\ count \in Nat /\ disk \in 0 .. L
      /\ pc = "header" /\ pc' = "body" /\ UNCHANGED <<armed, buf, count, lost, disk, Raw!parservars>>
      /\ buf # Raw!Nothing
  BY DEF Raw!IInv, Raw!TypeOK, Raw!WriteHeader, Raw!AllAccounted, Raw!parservars
<1>2. file' = file \o <<a, b>> BY DEF Raw!WriteHeader, Raw!Header
<1>3. a \in Raw!Cell /\ b \in Raw!Cell /\ a.kind = "time" /\ a.n = buf.n /\ b.n = buf.n /\ b.len = buf.len
  BY <1>1 DEF Raw!Cell
<1>4. b = [kind |-> "length", n |-> a.n, len |-> b.len] /\ b.kind # "time" OBVIOUS
<1> HIDE DEF a, b
<1>5. <<a, b>> \in Seq(Raw!Cell) /\ Len(<<a, b>>) = 2 /\ <<a, b>>[1] = a /\ <<a, b>>[2] = b BY <1>3
<1>6. /\ file' \in Seq(Raw!Cell) /\ L \in Nat /\ Len(file') = L + 2
      /\ DOMAIN file = 1 .. L /\ DOMAIN file' = 1 .. L + 2
      /\ \A i \in 1 .. L : file'[i] = file[i]
      /\ \A i \in 1 .. 2 : file'[L + i] = <<a, b>>[i]
  BY ONLY <1>1, <1>2, <1>5, ConcatFacts
<1>7. file'[L + 1] = a /\ file'[L + 2] = b BY <1>5, <1>6
<1>8. buf.n = count /\ count \notin lost /\ buf.len \in Nat \ {0} /\ count \in 1 .. count
      /\ \A i \in DOMAIN file : Raw!IsTime(i) => file[i].n < count
  <2>1. Raw!InHand = {buf.n} BY <1>1 DEF Raw!InHand
  <2>2. (1 .. count) \ lost = Raw!InFile \union Raw!InHand BY <1>1 DEF Raw!AllAccounted
  <2> QED BY <1>1, <2>1, <2>2 DEF Raw!AllAccounted
<1>9. \A i \in DOMAIN file : Raw!IsTime(i) =>
       /\ i + 1 \in DOMAIN file /\ file[i].n \in (1 .. count) \ lost
       /\ file[i + 1] = [kind |-> "length", n |-> file[i].n, len |-> file[i + 1].len]
       /\ file[i + 1].len > 0
       /\ Raw!EndAt(i) <= L
       /\ \A j \in i + 2 .. Raw!EndAt(i) : file[j] = [file[i + 1] EXCEPT !.kind = "data"]
       /\ Raw!EndAt(i) < L => Raw!IsTime(Raw!EndAt(i) + 1)
  BY <1>1 DEF Raw!FileIsRow
<1>10. \A i \in DOMAIN file' : Raw!IsTime(i)' <=> (i = L + 1 \/ Raw!IsTime(i))
  BY <1>3, <1>4, <1>6, <1>7 DEF Raw!IsTime
<1>11. Raw!FileIsRow'
  <2>1. file' # <<>> => Raw!IsTime(1)'
    <3>1. file # <<>> => Raw!IsTime(1) BY <1>1 DEF Raw!FileIsRow
    <3>2. file = <<>> => L = 0 BY <1>6
    <3> QED BY <1>6, <1>10, <3>1, <3>2
  <2>2. ASSUME NEW i \in DOMAIN file', Raw!IsTime(i)'
        PROVE  /\ i + 1 \in DOMAIN file' /\ file'[i].n \in (1 .. count') \ lost'
               /\ file'[i + 1] = [kind |-> "length", n |-> file'[i].n, len |-> file'[i + 1].len]
               /\ file'[i + 1].len > 0
               /\ \/ /\ Raw!EndAt(i)' <= Len(file')
                     /\ \A j \in i + 2 .. Raw!EndAt(i)' : file'[j] = [file'[i + 1] EXCEPT !.kind = "data"]
                     /\ Raw!EndAt(i)' < Len(file') => Raw!IsTime(Raw!EndAt(i) + 1)'
                  \/ i + 1 = Len(file') /\ pc' \in {"body", "killed"}
    <3>1. CASE i = L + 1
      BY <1>1, <1>3, <1>4, <1>6, <1>7, <1>8, <3>1
    <3>2. CASE i # L + 1
      <4>1. Raw!IsTime(i) /\ i \in DOMAIN file BY <1>10, <2>2, <3>2 DEF Raw!IsTime
      <4>2. /\ i + 1 \in DOMAIN file /\ file[i].n \in (1 .. count) \ lost
            /\ file[i + 1] = [kind |-> "length", n |-> file[i].n, len |-> file[i + 1].len]
            /\ file[i + 1].len > 0
            /\ Raw!EndAt(i) <= L
            /\ \A j \in i + 2 .. Raw!EndAt(i) : file[j] = [file[i + 1] EXCEPT !.kind = "data"]
            /\ Raw!EndAt(i) < L => Raw!IsTime(Raw!EndAt(i) + 1)
        BY <1>9, <4>1
      <4>3. file'[i] = file[i] /\ file'[i + 1] = file[i + 1] BY <1>6, <4>1, <4>2
      <4>4. Raw!EndAt(i)' = Raw!EndAt(i) BY <4>3 DEF Raw!EndAt
      <4>5. Raw!EndAt(i) \in i + 2 .. L
        <5>1. file[i + 1] \in Raw!Cell BY <1>1, <4>2
        <5>2. file[i + 1].len \in Nat \ {0} BY <4>2, <5>1 DEF Raw!Cell
        <5>3. Raw!EndAt(i) = i + 1 + file[i + 1].len /\ Raw!EndAt(i) <= L /\ i \in Nat
          BY <1>6, <4>1, <4>2 DEF Raw!EndAt
        <5> QED BY <1>6, <5>2, <5>3
      <4>6. \A j \in i + 2 .. Raw!EndAt(i) : file'[j] = [file'[i + 1] EXCEPT !.kind = "data"]
        BY <1>6, <4>2, <4>3, <4>5
      <4>7. \A e \in DOMAIN file' : e = Raw!EndAt(i) + 1 => Raw!IsTime(e)'
        <5> SUFFICES ASSUME NEW e \in DOMAIN file', e = Raw!EndAt(i) + 1 PROVE Raw!IsTime(e)'
          OBVIOUS
        <5>1. CASE e = L + 1 BY <1>10, <5>1
        <5>2. CASE e # L + 1
          <6>1. Raw!EndAt(i) < L BY <1>6, <4>1, <4>5, <5>2
          <6> QED BY <1>10, <4>2, <6>1
        <5> QED BY <5>1, <5>2
      <4>8. Raw!IsTime(Raw!EndAt(i) + 1)'
        <5>1. Raw!EndAt(i) + 1 \in DOMAIN file' BY <1>6, <4>5
        <5>2. file'[Raw!EndAt(i) + 1].kind = "time" BY <4>7, <5>1 DEF Raw!IsTime
        <5> QED BY <4>4, <5>1, <5>2 DEF Raw!IsTime
      <4>9. Raw!EndAt(i)' <= Len(file') BY <1>6, <4>4, <4>5
      <4>10. i + 1 \in DOMAIN file' BY <1>6, <4>2
      <4>11. file'[i].n \in (1 .. count') \ lost' BY <1>1, <4>2, <4>3
      <4>12. /\ file'[i + 1] = [kind |-> "length", n |-> file'[i].n, len |-> file'[i + 1].len]
             /\ file'[i + 1].len > 0
        BY <4>2, <4>3
      <4>13. \A j \in i + 2 .. Raw!EndAt(i)' : file'[j] = [file'[i + 1] EXCEPT !.kind = "data"]
        BY <4>4, <4>6
      <4> QED BY <4>8, <4>9, <4>10, <4>11, <4>12, <4>13
    <3> QED BY <3>1, <3>2
  <2>3. \A i, j \in DOMAIN file' : i < j /\ Raw!IsTime(i)' /\ Raw!IsTime(j)' => file'[i].n < file'[j].n
    <3> SUFFICES ASSUME NEW i \in DOMAIN file', NEW j \in DOMAIN file', i < j, Raw!IsTime(i)', Raw!IsTime(j)'
                 PROVE  file'[i].n < file'[j].n
      OBVIOUS
    <3>1. i \in DOMAIN file /\ Raw!IsTime(i) /\ file'[i] = file[i] BY <1>3, <1>4, <1>6, <1>7, <1>10 DEF Raw!IsTime
    <3>2. CASE j = L + 1 BY <1>3, <1>7, <1>8, <3>1, <3>2
    <3>3. CASE j # L + 1
      <4>1. j \in DOMAIN file /\ Raw!IsTime(j) /\ file'[j] = file[j] BY <1>6, <1>10, <3>3 DEF Raw!IsTime
      <4> QED BY <1>1, <3>1, <4>1 DEF Raw!FileIsRow
    <3> QED BY <3>2, <3>3
  <2>4. Raw!IsTime(Len(file) - 1)' /\ file'[Len(file')].n = buf'.n /\ file'[Len(file')].len = buf'.len
    <3>1. Len(file') - 1 = L + 1 /\ L + 1 \in DOMAIN file' BY <1>6
    <3> QED BY <1>1, <1>3, <1>6, <1>7, <3>1 DEF Raw!IsTime
  <2> QED BY <2>1, <2>2, <2>3, <2>4 DEF Raw!FileIsRow, Raw!IsTime, Raw!EndAt
<1>12. Raw!AllAccounted'
  <2>1. Raw!InFile' = Raw!InFile \union {buf.n}
    <3>1. \A i \in 1 .. L : file'[i].kind = "time" <=> file[i].kind = "time" BY <1>6
    <3>2. file'[L + 1].kind = "time" /\ file'[L + 1].n = buf.n /\ file'[L + 2].kind # "time" BY <1>3, <1>4, <1>7
    <3> QED BY <1>6, <3>1, <3>2 DEF Raw!InFile
  <2>2. Raw!InHand = {buf.n} /\ Raw!InHand' = {} BY <1>1 DEF Raw!InHand
  <2> QED BY <1>1, <2>1, <2>2 DEF Raw!AllAccounted
<1>13. /\ Raw!ParserFollows' /\ Raw!ParsedAreRead' /\ Raw!NothingIsTorn'
       /\ parsed' \in Seq(Seq(Raw!Cell)) /\ parser' = "idle" /\ read' = 0
  BY <1>1, <1>6, <1>11, NoParserYet DEF Raw!Over
<1>14. Raw!TypeOK' BY <1>1, <1>6, <1>13 DEF Raw!TypeOK
<1> QED BY <1>1, <1>6, <1>11, <1>12, <1>13, <1>14 DEF Raw!IInv, Raw!AlarmsAreEarly

(* The body is written behind its header, and the row is whole again.      *)
LEMMA WriteBodyKeeps ==
  ASSUME Raw!IInv, Raw!WriteBody PROVE Raw!IInv'
<1> DEFINE L == Len(file)
           len == buf.len
<1>1. /\ Raw!TypeOK /\ file \in Seq(Raw!Cell) /\ Raw!FileIsRow /\ Raw!AllAccounted /\ Raw!AlarmsAreEarly
      /\ buf \in [n : Nat, len : Nat] /\ count \in Nat /\ disk \in 0 .. L
      /\ pc = "body" /\ pc' = "arm" /\ buf' = Raw!Nothing
      /\ UNCHANGED <<armed, count, lost, disk, Raw!parservars>>
      /\ buf # Raw!Nothing /\ len \in Nat \ {0} /\ buf.n \in Nat
  BY DEF Raw!IInv, Raw!TypeOK, Raw!WriteBody, Raw!AllAccounted, Raw!parservars
<1>2. /\ Raw!Body(buf) \in Seq(Raw!Cell) /\ Len(Raw!Body(buf)) = len
      /\ \A i \in 1 .. len : Raw!Body(buf)[i] = [kind |-> "data", n |-> buf.n, len |-> len]
  <2>1. [kind |-> "data", n |-> buf.n, len |-> len] \in Raw!Cell BY <1>1 DEF Raw!Cell
  <2> QED BY <1>1, <2>1 DEF Raw!Body
<1>3. PICK B \in Seq(Raw!Cell) :
        /\ file' = file \o B /\ Len(B) = len
        /\ \A i \in 1 .. len : B[i] = [kind |-> "data", n |-> buf.n, len |-> len]
  BY <1>2 DEF Raw!WriteBody
<1>4. /\ file' \in Seq(Raw!Cell) /\ L \in Nat /\ Len(file') = L + len
      /\ DOMAIN file = 1 .. L /\ DOMAIN file' = 1 .. L + len
      /\ \A i \in 1 .. L : file'[i] = file[i]
      /\ \A i \in L + 1 .. L + len : file'[i] = B[i - L]
  <2>1. file \in Seq(Raw!Cell) BY <1>1
  <2>2. /\ file' \in Seq(Raw!Cell) /\ Len(file) \in Nat /\ Len(file') = Len(file) + Len(B)
        /\ DOMAIN file = 1 .. Len(file) /\ DOMAIN file' = 1 .. Len(file) + Len(B)
        /\ \A i \in 1 .. Len(file) : file'[i] = file[i]
        /\ \A i \in Len(file) + 1 .. Len(file) + Len(B) : file'[i] = B[i - Len(file)]
    BY <1>3, <2>1, ConcatFacts
  <2> QED BY <1>3, <2>2
<1>5. \A i \in L + 1 .. L + len : file'[i] = [kind |-> "data", n |-> buf.n, len |-> len]
  <2> TAKE i \in L + 1 .. L + len
  <2>1. i - L \in 1 .. len BY <1>1, <1>4
  <2> QED BY <1>3, <1>4, <2>1
<1>6. /\ Raw!IsTime(L - 1) /\ file[L].n = buf.n /\ file[L].len = len /\ L - 1 \in 1 .. L /\ L \in 1 .. L
      /\ file[L] = [kind |-> "length", n |-> buf.n, len |-> len]
  <2>1. Raw!IsTime(L - 1) /\ file[L].n = buf.n /\ file[L].len = len BY <1>1 DEF Raw!FileIsRow
  <2>2. L - 1 \in 1 .. L /\ L \in 1 .. L BY <1>4, <2>1 DEF Raw!IsTime
  <2>3. (L - 1) + 1 = L BY <1>4
  <2>4. file[(L - 1) + 1] = [kind |-> "length", n |-> file[L - 1].n, len |-> file[(L - 1) + 1].len]
    BY <1>1, <1>4, <2>1, <2>2 DEF Raw!FileIsRow
  <2>5. file[L].n = file[L - 1].n BY <2>3, <2>4
  <2> QED BY <2>1, <2>2, <2>3, <2>4, <2>5
<1>7. \A i \in DOMAIN file' : Raw!IsTime(i)' <=> Raw!IsTime(i)
  <2>1. \A i \in L + 1 .. L + len : file'[i].kind # "time" BY <1>5
  <2> QED BY <1>1, <1>4, <2>1 DEF Raw!IsTime
<1>8. Raw!FileIsRow'
  <2>1. file' # <<>> => Raw!IsTime(1)'
    <3>1. Raw!IsTime(1) /\ 1 \in DOMAIN file' BY <1>1, <1>4, <1>6 DEF Raw!FileIsRow
    <3> QED BY <1>7, <3>1
  <2>2. ASSUME NEW i \in DOMAIN file', Raw!IsTime(i)'
        PROVE  /\ i + 1 \in DOMAIN file' /\ file'[i].n \in (1 .. count') \ lost'
               /\ file'[i + 1] = [kind |-> "length", n |-> file'[i].n, len |-> file'[i + 1].len]
               /\ file'[i + 1].len > 0
               /\ Raw!EndAt(i)' <= Len(file')
               /\ \A j \in i + 2 .. Raw!EndAt(i)' : file'[j] = [file'[i + 1] EXCEPT !.kind = "data"]
               /\ Raw!EndAt(i)' < Len(file') => Raw!IsTime(Raw!EndAt(i) + 1)'
    <3>1. Raw!IsTime(i) /\ i \in DOMAIN file /\ i \in Nat BY <1>4, <1>7, <2>2 DEF Raw!IsTime
    <3>2. /\ i + 1 \in DOMAIN file /\ file[i].n \in (1 .. count) \ lost
          /\ file[i + 1] = [kind |-> "length", n |-> file[i].n, len |-> file[i + 1].len]
          /\ file[i + 1].len > 0
          /\ \/ /\ Raw!EndAt(i) <= L
                /\ \A j \in i + 2 .. Raw!EndAt(i) : file[j] = [file[i + 1] EXCEPT !.kind = "data"]
                /\ Raw!EndAt(i) < L => Raw!IsTime(Raw!EndAt(i) + 1)
             \/ i + 1 = L
      BY <1>1, <3>1 DEF Raw!FileIsRow
    <3>3. /\ file'[i] = file[i] /\ file'[i + 1] = file[i + 1] /\ Raw!EndAt(i)' = Raw!EndAt(i)
          /\ i + 1 \in DOMAIN file' /\ Raw!EndAt(i) = i + 1 + file[i + 1].len /\ file[i + 1].len \in Nat \ {0}
      <4>1. file[i + 1] \in Raw!Cell /\ file[i + 1].len > 0 BY <1>1, <3>2
      <4>2. file[i + 1].len \in Nat \ {0} BY <4>1 DEF Raw!Cell
      <4>3. file'[i] = file[i] /\ file'[i + 1] = file[i + 1] /\ i + 1 \in DOMAIN file'
        BY <1>1, <1>4, <3>1, <3>2
      <4>4. Raw!EndAt(i) = i + 1 + file[i + 1].len /\ Raw!EndAt(i)' = i + 1 + file'[i + 1].len BY DEF Raw!EndAt
      <4> QED BY <4>2, <4>3, <4>4
    <3>4. CASE i + 1 = L
      <4>1. Raw!EndAt(i) = L + len /\ file[i + 1] = [kind |-> "length", n |-> buf.n, len |-> len] BY <1>6, <3>3, <3>4
      <4>2. \A j \in i + 2 .. Raw!EndAt(i) : file'[j] = [file'[i + 1] EXCEPT !.kind = "data"]
        <5>1. \A j \in i + 2 .. Raw!EndAt(i) : j \in L + 1 .. L + len BY <3>1, <3>4, <4>1
        <5>2. [file'[i + 1] EXCEPT !.kind = "data"] = [kind |-> "data", n |-> buf.n, len |-> len] BY <3>3, <4>1
        <5> QED BY <1>5, <5>1, <5>2
      <4>3. Raw!EndAt(i)' <= Len(file') /\ ~(Raw!EndAt(i)' < Len(file')) BY <1>1, <1>4, <3>3, <4>1
      <4> QED BY <1>1, <3>2, <3>3, <4>2, <4>3
    <3>5. CASE i + 1 # L
      <4>1. /\ Raw!EndAt(i) <= L
            /\ \A j \in i + 2 .. Raw!EndAt(i) : file[j] = [file[i + 1] EXCEPT !.kind = "data"]
            /\ Raw!EndAt(i) < L => Raw!IsTime(Raw!EndAt(i) + 1)
        BY <3>2, <3>5
      <4>2. Raw!EndAt(i) # L
        <5> SUFFICES ASSUME Raw!EndAt(i) = L PROVE FALSE
          OBVIOUS
        <5>1. i + 2 <= L /\ L - 1 \in i + 1 .. L
          <6>1. i + 1 + file[i + 1].len = L /\ file[i + 1].len \in Nat \ {0} BY <3>3
          <6> QED BY ONLY <6>1, <1>4, <3>1
        <5>2. CASE L - 1 = i + 1 BY <1>6, <3>2, <5>2 DEF Raw!IsTime
        <5>3. CASE L - 1 # i + 1
          <6>1. L - 1 \in i + 2 .. L BY <1>4, <3>1, <5>1, <5>3
          <6>2. file[L - 1] = [file[i + 1] EXCEPT !.kind = "data"] BY <4>1, <6>1
          <6>3. file[i + 1] \in Raw!Cell BY <1>1, <3>2
          <6>4. file[L - 1].kind = "data" BY <6>2, <6>3 DEF Raw!Cell
          <6> QED BY <1>6, <6>4 DEF Raw!IsTime
        <5> QED BY <5>2, <5>3
      <4>3. Raw!EndAt(i) \in i + 2 .. L - 1 /\ Raw!IsTime(Raw!EndAt(i) + 1)
        BY <1>4, <3>1, <3>3, <4>1, <4>2
      <4>4. \A e \in DOMAIN file' : e = Raw!EndAt(i) + 1 => Raw!IsTime(e)' BY <1>7, <4>3
      <4>5. Raw!EndAt(i) + 1 \in DOMAIN file' BY <1>1, <1>4, <3>1, <4>3
      <4>6. file'[Raw!EndAt(i) + 1].kind = "time" BY <4>4, <4>5 DEF Raw!IsTime
      <4>7. Raw!IsTime(Raw!EndAt(i) + 1)' BY <3>3, <4>5, <4>6 DEF Raw!IsTime
      <4>8. \A j \in i + 2 .. Raw!EndAt(i) : file'[j] = [file'[i + 1] EXCEPT !.kind = "data"]
        <5>1. \A j \in i + 2 .. Raw!EndAt(i) : j \in 1 .. L BY <1>4, <3>1, <4>3
        <5>2. \A j \in i + 2 .. Raw!EndAt(i) : file'[j] = file[j] BY <1>4, <5>1
        <5> QED BY <3>3, <4>1, <5>2
      <4>9. Raw!EndAt(i)' <= Len(file') BY <1>1, <1>4, <3>1, <3>3, <4>3
      <4> QED BY <1>1, <3>2, <3>3, <4>7, <4>8, <4>9
    <3> QED BY <3>4, <3>5
  <2>3. \A i, j \in DOMAIN file' : i < j /\ Raw!IsTime(i)' /\ Raw!IsTime(j)' => file'[i].n < file'[j].n
    <3> SUFFICES ASSUME NEW i \in DOMAIN file', NEW j \in DOMAIN file', i < j, Raw!IsTime(i)', Raw!IsTime(j)'
                 PROVE  file'[i].n < file'[j].n
      OBVIOUS
    <3>1. Raw!IsTime(i) /\ Raw!IsTime(j) BY <1>7
    <3>2. i \in DOMAIN file /\ j \in DOMAIN file /\ file'[i] = file[i] /\ file'[j] = file[j]
      BY <1>4, <3>1 DEF Raw!IsTime
    <3> QED BY <1>1, <3>1, <3>2 DEF Raw!FileIsRow
  <2> QED BY <1>1, <2>1, <2>2, <2>3 DEF Raw!FileIsRow, Raw!IsTime, Raw!EndAt
<1>9. Raw!AllAccounted'
  <2>1. Raw!InFile' = Raw!InFile
    <3>1. \A i \in 1 .. L : file'[i].kind = "time" <=> file[i].kind = "time" BY <1>4
    <3>2. \A i \in L + 1 .. L + len : file'[i].kind # "time" BY <1>5
    <3>3. {i \in DOMAIN file' : file'[i].kind = "time"} = {i \in DOMAIN file : file[i].kind = "time"}
      BY <1>1, <1>4, <3>1, <3>2
    <3> QED BY <1>4, <3>3 DEF Raw!InFile
  <2>2. Raw!InHand = {} /\ Raw!InHand' = {} BY <1>1 DEF Raw!InHand
  <2> QED BY <1>1, <2>1, <2>2 DEF Raw!AllAccounted
<1>10. /\ Raw!ParserFollows' /\ Raw!ParsedAreRead' /\ Raw!NothingIsTorn'
       /\ parsed' \in Seq(Seq(Raw!Cell)) /\ parser' = "idle" /\ read' = 0
  BY <1>1, <1>4, <1>8, NoParserYet DEF Raw!Over
<1>11. buf' \in [n : Nat, len : Nat] /\ buf'.n = 0 BY <1>1 DEF Raw!Nothing
<1>12. disk' \in 0 .. Len(file') BY <1>1, <1>4
<1>13. Raw!TypeOK' BY <1>1, <1>10, <1>11, <1>12 DEF Raw!TypeOK
<1> QED BY <1>1, <1>4, <1>8, <1>9, <1>10, <1>11, <1>13 DEF Raw!IInv, Raw!AlarmsAreEarly

(* What the parser leaves alone stays true.                                *)
LEMMA ParserWritesNothing ==
  ASSUME Raw!IInv, UNCHANGED Raw!capturevars,
         parser' \in {"idle", "header", "body", "end"}, read' \in 0 .. disk,
         parsed' \in Seq(Seq(Raw!Cell)),
         Raw!ParserFollows', Raw!ParsedAreRead', Raw!NothingIsTorn'
  PROVE  Raw!IInv'
<1> USE DEF Raw!capturevars
<1>1. Raw!TypeOK' BY DEF Raw!IInv, Raw!TypeOK
<1>2. Raw!FileIsRow'
  <2>1. Raw!FileIsRow BY DEF Raw!IInv
  <2>2. \A i : Raw!IsTime(i)' = Raw!IsTime(i) /\ Raw!EndAt(i)' = Raw!EndAt(i) BY DEF Raw!IsTime, Raw!EndAt
  <2> QED BY <2>1, <2>2 DEF Raw!FileIsRow, Raw!IsTime, Raw!EndAt
<1>3. Raw!AllAccounted' BY DEF Raw!IInv, Raw!AllAccounted, Raw!InFile, Raw!InHand, Raw!IsTime
<1> QED BY <1>1, <1>2, <1>3 DEF Raw!IInv, Raw!AlarmsAreEarly

(* A batch begins nowhere between the time of one and its end.             *)
LEMMA NoneBetween ==
  ASSUME Raw!IInv, NEW i \in DOMAIN file, Raw!IsTime(i)
  PROVE  /\ i \in Nat /\ file[i + 1].len \in Nat \ {0} /\ i + 1 \in 1 .. Len(file)
         /\ Raw!EndAt(i) = i + 1 + file[i + 1].len
         /\ Raw!EndAt(i) <= Len(file) =>
              \A k \in i + 1 .. Raw!EndAt(i) : k \in DOMAIN file /\ file[k].kind # "time"
         /\ Raw!EndAt(i) > Len(file) => i + 1 = Len(file) /\ pc \in {"body", "killed"}
         /\ i + 1 = Len(file) => pc \in {"body", "killed"}
         /\ i + 1 \in DOMAIN file /\ file[i + 1].kind # "time"
<1>1. file \in Seq(Raw!Cell) /\ Raw!FileIsRow BY DEF Raw!IInv
<1>2. DOMAIN file = 1 .. Len(file) /\ Len(file) \in Nat BY <1>1
<1>3. /\ i + 1 \in DOMAIN file
      /\ file[i + 1] = [kind |-> "length", n |-> file[i].n, len |-> file[i + 1].len]
      /\ file[i + 1].len > 0
      /\ \/ /\ Raw!EndAt(i) <= Len(file)
            /\ \A j \in i + 2 .. Raw!EndAt(i) : file[j] = [file[i + 1] EXCEPT !.kind = "data"]
         \/ i + 1 = Len(file) /\ pc \in {"body", "killed"}
  BY <1>1 DEF Raw!FileIsRow
<1>4. file[i + 1] \in Raw!Cell BY <1>1, <1>3
<1>5. file[i + 1].len \in Nat \ {0} /\ file[i + 1].kind = "length" BY <1>3, <1>4 DEF Raw!Cell
<1>6. Raw!EndAt(i) = i + 1 + file[i + 1].len BY DEF Raw!EndAt
<1>7. i \in Nat /\ i + 1 \in 1 .. Len(file) /\ Raw!EndAt(i) \in Nat /\ Raw!EndAt(i) > i + 1 BY <1>2, <1>3, <1>5, <1>6
<1>8. ASSUME Raw!EndAt(i) <= Len(file)
      PROVE  \A k \in i + 1 .. Raw!EndAt(i) : k \in DOMAIN file /\ file[k].kind # "time"
  <2> SUFFICES ASSUME NEW k \in i + 1 .. Raw!EndAt(i) PROVE k \in DOMAIN file /\ file[k].kind # "time"
    OBVIOUS
  <2>1. k \in DOMAIN file BY <1>2, <1>7, <1>8
  <2>2. CASE k = i + 1 BY <1>5, <2>1, <2>2
  <2>3. CASE k # i + 1
    <3>1. k \in i + 2 .. Raw!EndAt(i) BY <1>7, <2>3
    <3>2. file[k] = [file[i + 1] EXCEPT !.kind = "data"] BY <1>3, <1>7, <1>8, <3>1
    <3> QED BY <1>4, <2>1, <3>2 DEF Raw!Cell
  <2> QED BY <2>2, <2>3
<1>9. Raw!EndAt(i) > Len(file) => i + 1 = Len(file) /\ pc \in {"body", "killed"} BY <1>2, <1>3, <1>7
<1>10. i + 1 = Len(file) => pc \in {"body", "killed"} BY <1>2, <1>3, <1>7
<1> QED BY <1>2, <1>3, <1>5, <1>6, <1>7, <1>8, <1>9, <1>10

LEMMA ParseKeeps == ASSUME Raw!IInv, Raw!Parse PROVE Raw!IInv'
<1>1. /\ pc \in Raw!Over /\ parser = "idle" /\ parser' = "header" /\ UNCHANGED <<read, parsed, Raw!capturevars>>
  BY DEF Raw!Parse
<1>2. read = 0 /\ parsed = <<>> /\ Raw!FileIsRow /\ read \in 0 .. disk BY <1>1 DEF Raw!IInv, Raw!ParserFollows, Raw!TypeOK
<1>3. Raw!ParserFollows'
  <2>1. read' = Len(file') \/ (1 \in DOMAIN file' /\ file'[1].kind = "time")
    BY <1>1, <1>2 DEF Raw!FileIsRow, Raw!IsTime, Raw!capturevars
  <2>2. {parsed'[i][1].n : i \in DOMAIN parsed'} = {} BY <1>1, <1>2
  <2>3. \A k \in DOMAIN file' : ~(k + 1 < read')
    <3>1. file' \in Seq(Raw!Cell) BY <1>1 DEF Raw!IInv, Raw!capturevars
    <3> QED BY <1>1, <1>2, <3>1
  <2> QED BY <1>1, <1>2, <2>1, <2>2, <2>3 DEF Raw!ParserFollows, Raw!IsTime, Raw!capturevars
<1>4. Raw!ParsedAreRead' /\ Raw!NothingIsTorn' /\ parsed' \in Seq(Seq(Raw!Cell))
  BY <1>1, <1>2 DEF Raw!ParsedAreRead, Raw!NothingIsTorn
<1> QED BY <1>1, <1>2, <1>3, <1>4, ParserWritesNothing

(* The parser is where a batch begins: it goes behind its header, or sees  *)
(* the end of the file.                                                    *)
LEMMA ReadHeaderKeeps == ASSUME Raw!IInv, Raw!ReadHeader PROVE Raw!IInv'
<1> DEFINE L == Len(file)
           Before(r) == {k \in DOMAIN file : file[k].kind = "time" /\ k + 1 < r}
<1>1. /\ parser = "header" /\ UNCHANGED <<parsed, Raw!capturevars>>
      /\ \/ disk - read < 2 /\ parser' = "end" /\ read' = read
         \/ ~(disk - read < 2) /\ parser' = "body" /\ read' = read + 2
  BY DEF Raw!ReadHeader
<1>2. /\ file \in Seq(Raw!Cell) /\ Raw!ParsedAreRead /\ parsed \in Seq(Seq(Raw!Cell)) /\ pc \in Raw!Over
      /\ Raw!AllAccounted /\ disk \in 0 .. L /\ read \in 0 .. disk /\ (pc \in {"closed", "died"} => disk = L)
      /\ (read = L \/ Raw!IsTime(read + 1))
      /\ {parsed[i][1].n : i \in DOMAIN parsed} = {file[i].n : i \in Before(read)}
  BY <1>1 DEF Raw!IInv, Raw!TypeOK, Raw!ParserFollows
<1>3. DOMAIN file = 1 .. L /\ L \in Nat /\ disk \in Nat /\ read \in Nat BY <1>2
<1>4. Raw!ParsedAreRead' BY <1>1, <1>2 DEF Raw!ParsedAreRead, Raw!capturevars
<1>5. read # L => Raw!IsTime(read + 1) /\ read + 1 \in DOMAIN file BY <1>2 DEF Raw!IsTime
<1>6. CASE disk - read < 2
  <2>1. parser' = "end" /\ read' = read BY <1>1, <1>6
  <2>2. Raw!ParserFollows' BY <1>1, <1>2, <2>1 DEF Raw!ParserFollows, Raw!capturevars
  <2>3. ASSUME pc \in {"closed", "died"}
        PROVE  read = L /\ {parsed[i][1].n : i \in DOMAIN parsed} = (1 .. count) \ lost
    <3>1. read = L
      <4> SUFFICES ASSUME read # L PROVE FALSE
        OBVIOUS
      <4>1. (read + 1) + 1 \in 1 .. L BY <1>5, NoneBetween
      <4>2. disk = L BY <1>2, <2>3
      <4>3. read \in Nat /\ disk \in Nat BY <1>3
      <4> QED BY ONLY <1>6, <4>1, <4>2, <4>3
    <3>2. \A k \in DOMAIN file : file[k].kind = "time" => k + 1 < L
      <4> SUFFICES ASSUME NEW k \in DOMAIN file, file[k].kind = "time" PROVE k + 1 < L
        OBVIOUS
      <4>1. k + 1 \in 1 .. L /\ k + 1 # L BY <2>3, NoneBetween DEF Raw!IsTime
      <4> QED BY <1>3, <4>1
    <3>3. {file[i].n : i \in Before(read)} = Raw!InFile BY <3>1, <3>2 DEF Raw!InFile
    <3>4. Raw!InHand = {} BY <1>2, <2>3 DEF Raw!InHand, Raw!AllAccounted
    <3>5. (1 .. count) \ lost = Raw!InFile \union Raw!InHand BY <1>2, <2>3 DEF Raw!AllAccounted
    <3> QED BY <1>2, <3>1, <3>3, <3>4, <3>5
  <2>4. Raw!NothingIsTorn' BY <1>1, <2>1, <2>3 DEF Raw!NothingIsTorn, Raw!capturevars
  <2> QED BY <1>1, <1>2, <1>4, <2>1, <2>2, <2>4, ParserWritesNothing
<1>7. CASE ~(disk - read < 2)
  <2>1. parser' = "body" /\ read' = read + 2 BY <1>1, <1>7
  <2>2. read # L /\ read + 2 \in 0 .. disk BY <1>2, <1>3, <1>7
  <2>3. Raw!IsTime(read + 1) /\ read + 1 \in DOMAIN file BY <1>5, <2>2
  <2>4. ASSUME NEW k \in DOMAIN file, file[k].kind = "time" PROVE k + 1 < read + 2 <=> k + 1 < read
    <3>1. k + 1 \in DOMAIN file /\ file[k + 1].kind # "time" BY <2>4, NoneBetween DEF Raw!IsTime
    <3>2. k # read BY <2>3, <3>1 DEF Raw!IsTime
    <3>3. k + 1 # read
      <4> SUFFICES ASSUME k + 1 = read PROVE FALSE
        OBVIOUS
      <4>1. /\ k \in Nat /\ file[k + 1].len \in Nat \ {0} /\ Raw!EndAt(k) = k + 1 + file[k + 1].len
            /\ Raw!EndAt(k) <= L => \A j \in k + 1 .. Raw!EndAt(k) : j \in DOMAIN file /\ file[j].kind # "time"
            /\ Raw!EndAt(k) > L => k + 1 = L
        BY <2>4, NoneBetween DEF Raw!IsTime
      <4>2. Raw!EndAt(k) <= L
        <5>1. Raw!EndAt(k) \in Nat /\ (Raw!EndAt(k) > L => k + 1 = L) BY <4>1
        <5>2. L \in Nat /\ k + 1 # L BY <1>3, <2>2
        <5> QED BY ONLY <5>1, <5>2
      <4>3. read + 1 \in k + 1 .. Raw!EndAt(k) BY <1>3, <4>1
      <4> QED BY <2>3, <4>1, <4>2, <4>3 DEF Raw!IsTime
    <3> QED BY <1>3, <3>2, <3>3
  <2>5. Before(read + 2) = Before(read) BY <2>4
  <2>6. Raw!ParserFollows'
    <3>1. read' - 1 = read + 1 /\ read' > 1 BY <1>3, <2>1
    <3>2. read' - 1 \in DOMAIN file' /\ file'[read' - 1].kind = "time"
      BY <1>1, <2>3, <3>1 DEF Raw!IsTime, Raw!capturevars
    <3>3. {parsed'[i][1].n : i \in DOMAIN parsed'}
            = {file'[i].n : i \in {k \in DOMAIN file' : file'[k].kind = "time" /\ k + 1 < read'}}
      BY <1>1, <1>2, <2>1, <2>5 DEF Raw!capturevars
    <3> QED BY <1>1, <1>2, <2>1, <3>1, <3>2, <3>3 DEF Raw!ParserFollows, Raw!IsTime, Raw!capturevars
  <2>7. Raw!NothingIsTorn' BY <2>1 DEF Raw!NothingIsTorn
  <2> QED BY <1>1, <1>2, <1>4, <2>1, <2>2, <2>6, <2>7, ParserWritesNothing
<1> QED BY <1>6, <1>7

(* The parser is behind a header: it takes the body as a batch and is      *)
(* where the next one begins, or sees the end of the file.                 *)
LEMMA ReadBodyKeeps == ASSUME Raw!IInv, Raw!ReadBody PROVE Raw!IInv'
<1> DEFINE L == Len(file)
           a == read - 1
           ln == file[read].len
           Before(r) == {k \in DOMAIN file : file[k].kind = "time" /\ k + 1 < r}
           b == SubSeq(file, read + 1, read + ln)
           m == Len(parsed)
<1>1. /\ parser = "body" /\ UNCHANGED Raw!capturevars
      /\ \/ disk - read < ln /\ parser' = "end" /\ read' = read /\ parsed' = parsed
         \/ ~(disk - read < ln) /\ parser' = "header" /\ read' = read + ln /\ parsed' = Append(parsed, b)
  BY DEF Raw!ReadBody
<1>2. /\ file \in Seq(Raw!Cell) /\ Raw!ParsedAreRead /\ parsed \in Seq(Seq(Raw!Cell)) /\ pc \in Raw!Over
      /\ Raw!FileIsRow /\ disk \in 0 .. L /\ read \in 0 .. disk /\ (pc \in {"closed", "died"} => disk = L)
      /\ read > 1 /\ Raw!IsTime(a)
      /\ {parsed[i][1].n : i \in DOMAIN parsed} = {file[i].n : i \in Before(read)}
  BY <1>1 DEF Raw!IInv, Raw!TypeOK, Raw!ParserFollows
<1>3. DOMAIN file = 1 .. L /\ L \in Nat /\ disk \in Nat /\ read \in Nat /\ a + 1 = read /\ a \in DOMAIN file
  BY <1>2 DEF Raw!IsTime
<1> HIDE DEF a
<1>4. /\ ln \in Nat \ {0} /\ a \in Nat /\ Raw!EndAt(a) = read + ln /\ Raw!EndAt(a) \in Nat
      /\ read \in DOMAIN file /\ L \in Nat /\ disk \in Nat /\ read \in Nat /\ a + 1 = read
      /\ Raw!EndAt(a) <= L => \A k \in read .. Raw!EndAt(a) : k \in DOMAIN file /\ file[k].kind # "time"
      /\ Raw!EndAt(a) > L => read = L /\ pc \notin {"closed", "died"}
  <2>1. /\ a \in Nat /\ file[a + 1].len \in Nat \ {0} /\ a + 1 \in 1 .. L
        /\ Raw!EndAt(a) = a + 1 + file[a + 1].len
        /\ Raw!EndAt(a) <= L => \A k \in a + 1 .. Raw!EndAt(a) : k \in DOMAIN file /\ file[k].kind # "time"
        /\ Raw!EndAt(a) > L => a + 1 = L /\ pc \in {"body", "killed"}
    BY <1>2, <1>3, NoneBetween
  <2>2. /\ file[read].len \in Nat \ {0} /\ read \in 1 .. L /\ Raw!EndAt(a) = read + file[read].len
        /\ Raw!EndAt(a) <= L => \A k \in read .. Raw!EndAt(a) : k \in DOMAIN file /\ file[k].kind # "time"
        /\ Raw!EndAt(a) > L => read = L /\ pc \notin {"closed", "died"}
    BY <1>3, <2>1
  <2>3. Raw!EndAt(a) \in Nat
    <3>1. Raw!EndAt(a) = read + ln /\ ln \in Nat /\ read \in Nat BY <1>3, <2>2
    <3> HIDE DEF ln
    <3> QED BY ONLY <3>1
  <2> QED BY <1>3, <2>1, <2>2, <2>3
<1>a. ln \in Nat \ {0} /\ a \in Nat /\ L \in Nat /\ disk \in Nat /\ read \in Nat /\ a + 1 = read
  BY <1>4
<1>b. Raw!EndAt(a) = read + ln BY <1>4
<1>c. Raw!EndAt(a) > L => read = L /\ pc \notin {"closed", "died"} BY <1>4
<1>5. CASE disk - read < ln
  <2>1. parser' = "end" /\ read' = read /\ parsed' = parsed BY <1>1, <1>5
  <2>2. Raw!ParsedAreRead' BY <1>1, <1>2, <2>1 DEF Raw!ParsedAreRead, Raw!capturevars
  <2>3. Raw!ParserFollows' BY <1>1, <1>2, <2>1 DEF Raw!ParserFollows, Raw!capturevars
  <2>4. pc \notin {"closed", "died"}
    <3> SUFFICES ASSUME pc \in {"closed", "died"} PROVE FALSE
      OBVIOUS
    <3>1. disk = L /\ ~(Raw!EndAt(a) > L) BY <1>2, <1>c
    <3>2. ~(read + ln > L) /\ L - read < ln BY <1>b, <1>5, <3>1
    <3> HIDE DEF ln, L
    <3> QED BY ONLY <1>a, <3>2
  <2>5. Raw!NothingIsTorn' BY <1>1, <2>4 DEF Raw!NothingIsTorn, Raw!capturevars
  <2> QED BY <1>1, <1>2, <2>1, <2>2, <2>3, <2>5, ParserWritesNothing
<1>6. CASE ~(disk - read < ln)
  <2>1. parser' = "header" /\ read' = read + ln /\ parsed' = Append(parsed, b) BY <1>1, <1>6
  <2>2. read + ln \in 0 .. disk /\ read + ln <= L
    <3>1. disk <= L BY <1>2
    <3> HIDE DEF ln, L
    <3> QED BY ONLY <1>a, <1>6, <3>1
  <2>3. /\ Raw!EndAt(a) <= L /\ read + ln = Raw!EndAt(a)
        /\ \A k \in read .. read + ln : k \in DOMAIN file /\ file[k].kind # "time"
    BY <1>4, <2>2
  <2>4. /\ file[a].n \in (1 .. count) \ lost
        /\ file[read] = [kind |-> "length", n |-> file[a].n, len |-> ln]
        /\ \A j \in read + 1 .. read + ln : file[j] = [file[read] EXCEPT !.kind = "data"]
        /\ read + ln < L => Raw!IsTime(read + ln + 1)
    <3>1. /\ a + 1 \in DOMAIN file /\ file[a].n \in (1 .. count) \ lost
          /\ file[a + 1] = [kind |-> "length", n |-> file[a].n, len |-> file[a + 1].len]
          /\ \/ /\ Raw!EndAt(a) <= L
                /\ \A j \in a + 2 .. Raw!EndAt(a) : file[j] = [file[a + 1] EXCEPT !.kind = "data"]
                /\ Raw!EndAt(a) < L => Raw!IsTime(Raw!EndAt(a) + 1)
             \/ a + 1 = L
      BY <1>2, <1>3 DEF Raw!FileIsRow
    <3>2. a + 1 # L
      <4> HIDE DEF ln, L
      <4> QED BY ONLY <1>a, <2>2
    <3>3. a + 2 = read + 1
      <4> HIDE DEF ln, L
      <4> QED BY ONLY <1>a
    <3> QED BY <1>3, <2>3, <3>1, <3>2, <3>3
  <2> DEFINE d == [kind |-> "data", n |-> file[a].n, len |-> ln]
  <2>5. \A j \in read + 1 .. read + ln : file[j] = d /\ file[j] \in Raw!Cell
    <3>1. [file[read] EXCEPT !.kind = "data"] = d BY <2>4
    <3>2. \A j \in read + 1 .. read + ln : j \in DOMAIN file
      <4>1. \A j \in read + 1 .. read + ln : j \in read .. read + ln BY <1>a
      <4> QED BY <2>3, <4>1
    <3> QED BY <1>2, <2>4, <3>1, <3>2
  <2>6. /\ b \in Seq(Raw!Cell) /\ Len(b) = ln /\ \A i \in 1 .. ln : b[i] = d
    <3> HIDE DEF ln, d
    <3>1. read + 1 \in Int /\ read + ln \in Int /\ read + 1 <= read + ln /\ (read + ln) - (read + 1) + 1 = ln
      BY ONLY <1>a
    <3>2. /\ b \in Seq(Raw!Cell) /\ Len(b) = (read + ln) - (read + 1) + 1
          /\ \A i \in 1 .. (read + ln) - (read + 1) + 1 : b[i] = file[read + 1 + i - 1]
      <4>1. \A i \in read + 1 .. read + ln : file[i] \in Raw!Cell BY <2>5
      <4> QED BY <3>1, <4>1, SubSeqProperties
    <3>3. \A i \in 1 .. ln : read + 1 + i - 1 \in read + 1 .. read + ln BY ONLY <1>a
    <3> QED BY <2>5, <3>1, <3>2, <3>3
  <2>7. b = Raw!Body([n |-> b[1].n, len |-> b[1].len]) /\ b # <<>> /\ b[1].n = file[a].n
    <3>1. 1 \in 1 .. ln BY <1>4
    <3>2. b[1] = d BY <2>6, <3>1
    <3>3. b[1].n = file[a].n /\ b[1].len = ln
      <4>1. d.n = file[a].n /\ d.len = ln OBVIOUS
      <4> HIDE DEF b, d, ln
      <4> QED BY <3>2, <4>1
    <3>4. Raw!Body([n |-> b[1].n, len |-> b[1].len]) = [i \in 1 .. ln |-> d] BY <3>3 DEF Raw!Body
    <3> HIDE DEF b, d, ln
    <3>5. b = [i \in 1 .. ln |-> d] BY <2>6, <1>4
    <3>6. b # <<>> BY <2>6, <1>4
    <3> QED BY <3>3, <3>4, <3>5, <3>6
  <2> HIDE DEF b, d
  <2>8. /\ parsed' \in Seq(Seq(Raw!Cell)) /\ m \in Nat /\ DOMAIN parsed = 1 .. m /\ DOMAIN parsed' = 1 .. m + 1
        /\ \A i \in 1 .. m : parsed'[i] = parsed[i]
        /\ parsed'[m + 1] = b
    BY <1>2, <2>1, <2>6, AppendFacts
  <2>9. \A i \in DOMAIN parsed : parsed[i][1].n < file[a].n
    <3> TAKE i \in DOMAIN parsed
    <3>1. parsed[i][1].n \in {file[k].n : k \in Before(read)} BY <1>2
    <3>2. PICK k \in DOMAIN file : file[k].kind = "time" /\ k + 1 < read /\ parsed[i][1].n = file[k].n BY <3>1
    <3>3. k \in Nat BY <1>3
    <3>4. k < a BY ONLY <1>a, <3>2, <3>3
    <3>5. Raw!IsTime(k) BY <3>2 DEF Raw!IsTime
    <3> QED BY <1>2, <1>3, <3>2, <3>4, <3>5 DEF Raw!FileIsRow
  <2>10. Raw!ParsedAreRead'
    <3>1. ASSUME NEW i \in DOMAIN parsed'
          PROVE  /\ parsed'[i] # <<>> /\ parsed'[i] = Raw!Body([n |-> parsed'[i][1].n, len |-> parsed'[i][1].len])
                 /\ parsed'[i][1].n \in (1 .. count) \ lost
      <4>1. CASE i = m + 1 BY <2>4, <2>7, <2>8, <4>1
      <4>2. CASE i # m + 1
        <5>1. i \in DOMAIN parsed /\ parsed'[i] = parsed[i] BY <2>8, <4>2
        <5> QED BY <1>2, <5>1 DEF Raw!ParsedAreRead
      <4> QED BY <4>1, <4>2
    <3>2. ASSUME NEW i \in DOMAIN parsed', NEW j \in DOMAIN parsed', i < j
          PROVE  parsed'[i][1].n < parsed'[j][1].n
      <4>1. i \in DOMAIN parsed /\ parsed'[i] = parsed[i] BY <2>8, <3>2
      <4>2. CASE j = m + 1 BY <2>7, <2>8, <2>9, <4>1, <4>2
      <4>3. CASE j # m + 1
        <5>1. j \in DOMAIN parsed /\ parsed'[j] = parsed[j] BY <2>8, <4>3
        <5> QED BY <1>2, <3>2, <4>1, <5>1 DEF Raw!ParsedAreRead
      <4> QED BY <4>2, <4>3
    <3> QED BY <1>1, <3>1, <3>2 DEF Raw!ParsedAreRead, Raw!capturevars, Raw!Body
  <2>11. Raw!ParserFollows'
    <3>1. read + ln = L \/ (read + ln + 1 \in DOMAIN file /\ file[read + ln + 1].kind = "time")
      <4> HIDE DEF ln, L
      <4> QED BY <1>3, <1>4, <2>2, <2>4 DEF Raw!IsTime
    <3>2. Before(read + ln) = Before(read) \union {a}
      <4>1. ASSUME NEW k \in DOMAIN file, file[k].kind = "time" PROVE k + 1 < read + ln <=> k + 1 < read \/ k = a
        <5>1. k \notin read .. read + ln BY <2>3, <4>1
        <5> HIDE DEF ln, L
        <5>2. k \in Nat BY <1>3
        <5> QED BY ONLY <1>a, <5>1, <5>2
      <4>2. file[a].kind = "time" BY <1>2 DEF Raw!IsTime
      <4>3. \A k \in DOMAIN file : file[k].kind = "time" => (k + 1 < read + ln <=> k + 1 < read \/ k = a) BY <4>1
      <4> QED BY <1>3, <4>2, <4>3
    <3>3. {parsed'[i][1].n : i \in DOMAIN parsed'} = {parsed[i][1].n : i \in DOMAIN parsed} \union {file[a].n}
      <4>1. parsed'[m + 1][1].n = file[a].n BY <2>7, <2>8
      <4>2. \A i \in 1 .. m : parsed'[i][1].n = parsed[i][1].n BY <2>8
      <4>3. 1 .. m + 1 = (1 .. m) \union {m + 1} BY <2>8
      <4>4. {parsed'[i][1].n : i \in 1 .. m + 1} = {parsed'[i][1].n : i \in 1 .. m} \union {parsed'[m + 1][1].n}
        BY <4>3
      <4>5. {parsed'[i][1].n : i \in 1 .. m} = {parsed[i][1].n : i \in 1 .. m} BY <4>2
      <4> QED BY <2>8, <4>1, <4>4, <4>5
    <3>4. {parsed'[i][1].n : i \in DOMAIN parsed'} = {file[i].n : i \in Before(read + ln)} BY <1>2, <3>2, <3>3
    <3>5. {parsed'[i][1].n : i \in DOMAIN parsed'}
            = {file'[i].n : i \in {k \in DOMAIN file' : file'[k].kind = "time" /\ k + 1 < read'}}
      BY <1>1, <2>1, <3>4 DEF Raw!capturevars
    <3> QED BY <1>1, <1>2, <2>1, <3>1, <3>5 DEF Raw!ParserFollows, Raw!IsTime, Raw!capturevars
  <2>12. Raw!NothingIsTorn' BY <2>1 DEF Raw!NothingIsTorn
  <2>13. read' \in 0 .. disk BY <2>1, <2>2
  <2> QED BY <1>1, <2>1, <2>8, <2>10, <2>11, <2>12, <2>13, ParserWritesNothing
<1> QED BY <1>5, <1>6

LEMMA RawSteps ==
  ASSUME Raw!IInv, [Raw!Next]_(Raw!vars), MaxBatches \in Nat, Lengths \subseteq Nat \ {0}
  PROVE  Raw!IInv'
<1>1. CASE \/ Raw!Arm \/ Raw!ReadReturns \/ Raw!Return \/ Raw!Alarm \/ Raw!Disarm
           \/ Raw!Flush \/ Raw!Close \/ Raw!Kill
  BY <1>1, RawQuietSteps
<1>2. CASE Raw!WriteHeader BY <1>2, WriteHeaderKeeps
<1>3. CASE Raw!WriteBody BY <1>3, WriteBodyKeeps
<1>4. CASE Raw!Parse BY <1>4, ParseKeeps
<1>5. CASE Raw!ReadHeader BY <1>5, ReadHeaderKeeps
<1>6. CASE Raw!ReadBody BY <1>6, ReadBodyKeeps
<1>7. CASE UNCHANGED Raw!vars
  <2>1. UNCHANGED Raw!capturevars /\ UNCHANGED <<parser, read, parsed>>
    BY <1>7 DEF Raw!vars, Raw!parservars, Raw!capturevars
  <2>2. Raw!ParserFollows'
    <3>1. Raw!ParserFollows BY DEF Raw!IInv
    <3>2. {parsed'[i][1].n : i \in DOMAIN parsed'}
            = {file'[i].n : i \in {k \in DOMAIN file' : file'[k].kind = "time" /\ k + 1 < read'}}
      BY <2>1, <3>1 DEF Raw!capturevars, Raw!ParserFollows
    <3>3. /\ parser' # "idle" => pc' \in Raw!Over
          /\ parser' = "idle" => read' = 0 /\ parsed' = <<>>
      BY <2>1, <3>1 DEF Raw!capturevars, Raw!ParserFollows
    <3>4. /\ parser' \in {"idle", "header"} => read' = Len(file') \/ Raw!IsTime(read + 1)'
          /\ parser' = "body" => read' > 1 /\ Raw!IsTime(read - 1)'
      BY <2>1, <3>1 DEF Raw!capturevars, Raw!ParserFollows, Raw!IsTime
    <3> QED BY <3>2, <3>3, <3>4 DEF Raw!ParserFollows, Raw!IsTime
  <2>4. Raw!ParsedAreRead' BY <2>1 DEF Raw!IInv, Raw!capturevars, Raw!ParsedAreRead, Raw!Body
  <2>5. Raw!NothingIsTorn' BY <2>1 DEF Raw!IInv, Raw!capturevars, Raw!NothingIsTorn
  <2>3. /\ parser' \in {"idle", "header", "body", "end"} /\ read' \in 0 .. disk
        /\ parsed' \in Seq(Seq(Raw!Cell))
    BY <2>1 DEF Raw!IInv, Raw!TypeOK
  <2> QED BY <2>1, <2>2, <2>3, <2>4, <2>5, ParserWritesNothing
<1> QED BY <1>1, <1>2, <1>3, <1>4, <1>5, <1>6, <1>7 DEF Raw!Next, Raw!Captures, Raw!Parses

-----------------------------------------------------------------------------
(* Loops!: Listen.                                                         *)

LEMMA LoopsCardinality == \A S : Loops!Cardinality(S) = Cardinality(S)
BY Zenon DEF Loops!Cardinality, Cardinality

(* What came of the codes K among the first h frames.                      *)
Kept(K, h) == {j \in 1 .. h : j \notin lost /\ delivered[j].code \in K}
KindOf(i) == IF program = "diagsip" THEN Loops!Wanted ELSE {delivered[i].code}

LEMMA KeptGrows ==
  ASSUME NEW K, NEW h \in Nat
  PROVE  /\ IsFiniteSet(Kept(K, h)) /\ Cardinality(Kept(K, h)) \in Nat
         /\ \A i \in Nat : i <= h => Cardinality(Kept(K, i)) <= Cardinality(Kept(K, h))
         /\ Cardinality(Kept(K, h + 1)) =
              IF h + 1 \notin lost /\ delivered[h + 1].code \in K THEN Cardinality(Kept(K, h)) + 1
              ELSE Cardinality(Kept(K, h))
<1>1. IsFiniteSet(1 .. h) BY FS_Interval
<1>2. IsFiniteSet(Kept(K, h))
  <2>1. Kept(K, h) \in SUBSET (1 .. h) BY DEF Kept
  <2> QED BY <1>1, <2>1, FS_Subset
<1>3. \A i \in Nat : i <= h => Cardinality(Kept(K, i)) <= Cardinality(Kept(K, h))
  <2> SUFFICES ASSUME NEW i \in Nat, i <= h PROVE Cardinality(Kept(K, i)) <= Cardinality(Kept(K, h))
    OBVIOUS
  <2>1. Kept(K, i) \in SUBSET Kept(K, h) BY DEF Kept
  <2> QED BY <1>2, <2>1, FS_Subset
<1>4. CASE h + 1 \notin lost /\ delivered[h + 1].code \in K
  <2>1. Kept(K, h + 1) = Kept(K, h) \union {h + 1} /\ h + 1 \notin Kept(K, h) BY <1>4 DEF Kept
  <2> QED BY <1>2, <1>3, <1>4, <2>1, FS_AddElement, FS_CardinalityType
<1>5. CASE ~(h + 1 \notin lost /\ delivered[h + 1].code \in K)
  <2>1. Kept(K, h + 1) = Kept(K, h) BY <1>5 DEF Kept
  <2> QED BY <1>2, <1>3, <1>5, <2>1, FS_CardinalityType
<1> QED BY <1>4, <1>5

(* What is due, by the frames before it.                                   *)
LEMMA DueIs ==
  ASSUME delivered \in Loops!Frames, NEW i
  PROVE  i \in Loops!Due <=>
           /\ i \in DOMAIN delivered /\ i \notin lost
           /\ program \in {"sdpdump", "diagsip", "diagdump"} => delivered[i].code \in Loops!Wanted
           /\ program \in {"diagsip", "diagdump", "diag/f3probe"} => Cardinality(Kept(KindOf(i), i)) <= Limit
<1>1. DOMAIN delivered = 1 .. Len(delivered) /\ Len(delivered) \in Nat BY DEF Loops!Frames
<1>2. ASSUME i \in DOMAIN delivered PROVE Loops!Kin(i) = Kept(KindOf(i), i)
  <2>1. CASE program = "diagsip" BY <1>1, <1>2, <2>1 DEF Loops!Kin, Loops!Came, Kept, KindOf
  <2>2. CASE program # "diagsip" BY <1>1, <1>2, <2>2 DEF Loops!Kin, Loops!Came, Kept, KindOf
  <2> QED BY <2>1, <2>2
<1>3. Loops!Cardinality(Loops!Kin(i)) = Cardinality(Loops!Kin(i)) BY LoopsCardinality
<1> QED BY <1>2, <1>3 DEF Loops!Due, Loops!Came

(* How many of a code have been shown.                                     *)
WithCode(s, c) == {i \in DOMAIN s : s[i].code = c}

LEMMA CountIs ==
  ASSUME NEW c, NEW s \in Loops!Frames, NEW f \in [n : Nat, code : Loops!Codes]
  PROVE  /\ Cardinality(WithCode(s, c)) \in Nat
         /\ Cardinality(WithCode(Append(s, f), c)) =
              IF f.code = c THEN Cardinality(WithCode(s, c)) + 1 ELSE Cardinality(WithCode(s, c))
<1> USE DEF WithCode
<1> DEFINE S == {i \in DOMAIN s : s[i].code = c}
           T == {i \in DOMAIN Append(s, f) : Append(s, f)[i].code = c}
<1>1. /\ DOMAIN s = 1 .. Len(s) /\ DOMAIN Append(s, f) = 1 .. Len(s) + 1 /\ Len(s) \in Nat
      /\ \A i \in 1 .. Len(s) : Append(s, f)[i] = s[i]
      /\ Append(s, f)[Len(s) + 1] = f
  BY AppendFacts DEF Loops!Frames
<1>2. IsFiniteSet(S) /\ Cardinality(S) \in Nat
  <2>1. IsFiniteSet(1 .. Len(s)) BY <1>1, FS_Interval
  <2>2. S \in SUBSET (1 .. Len(s)) BY <1>1
  <2> HIDE DEF S
  <2> QED BY <2>1, <2>2, FS_Subset, FS_CardinalityType
<1>3. CASE f.code = c
  <2>1. T = S \union {Len(s) + 1} /\ Len(s) + 1 \notin S BY <1>1, <1>3
  <2> HIDE DEF S, T
  <2>2. Cardinality(T) = Cardinality(S) + 1 BY <1>2, <2>1, FS_AddElement
  <2> QED BY <1>2, <1>3, <2>2 DEF S, T
<1>4. CASE f.code # c
  <2>1. T = S BY <1>1, <1>4
  <2> QED BY <1>2, <1>4, <2>1
<1> QED BY <1>3, <1>4

LEMMA LoopsStart ==
  ASSUME Loops!Init, Limit \in Nat \ {0}, MaxTime \in Nat, MaxFrames \in Nat PROVE Loops!IInv
<1> USE DEF Loops!Init
<1>1. Loops!TypeOK
  <2>1. Len(delivered) = 0 /\ Len(pending) = 0 /\ 0 + 0 <= MaxFrames OBVIOUS
  <2>2. armed \in BOOLEAN
    <3>1. armed = (program \in Loops!Ticks) OBVIOUS
    <3>2. (program \in Loops!Ticks) \in BOOLEAN OBVIOUS
    <3> QED BY Zenon, <3>1, <3>2
  <2>3. MaxTime \in 0 .. MaxTime OBVIOUS
  <2> QED BY <2>1, <2>2, <2>3 DEF Loops!TypeOK
<1>2. batch \in Loops!Frames /\ shown \in Loops!Frames /\ pending \in Loops!Frames /\ delivered \in Loops!Frames
  BY DEF Loops!Frames
<1>3. Loops!Had = 0 /\ Loops!Numbered BY DEF Loops!Had, Loops!Numbered
<1>4. Loops!Due = {} /\ Loops!Shown = {} BY DEF Loops!Due, Loops!Came, Loops!Shown
<1>5. Loops!Counted
  <2>1. \A K : Loops!HadOf(K) = {} BY <1>3 DEF Loops!HadOf
  <2>2. \A c : Loops!Count(c) = 0
    <3>1. \A c : {i \in DOMAIN shown : shown[i].code = c} = {} OBVIOUS
    <3> QED BY <3>1, LoopsCardinality, FS_EmptySet DEF Loops!Count
  <2>3. Loops!Cardinality({}) = 0 BY LoopsCardinality, FS_EmptySet
  <2>4. Loops!Least(0, Limit) = 0 /\ Len(shown) = 0 /\ 0 < Limit BY DEF Loops!Least
  <2>5. \A K : Loops!Least(Loops!Cardinality(Loops!HadOf(K)), Limit) = 0 BY <2>1, <2>3, <2>4
  <2> HIDE DEF Loops!Init
  <2> QED BY <2>2, <2>4, <2>5 DEF Loops!Counted
<1>6. Loops!ShowsWhatIsDue BY <1>4 DEF Loops!ShowsWhatIsDue
<1>7. Loops!OnlyAlarmsLose BY DEF Loops!OnlyAlarmsLose
<1>8. (armed => program \in Loops!Timers \union Loops!Ticks) OBVIOUS
<1>9. Loops!Shown = {i \in Loops!Due : i <= Loops!Had} BY <1>4
<1> QED BY <1>1, <1>2, <1>3, <1>5, <1>6, <1>7, <1>8, <1>9 DEF Loops!IInv

(* What goes on around the frames changes nothing of them.                 *)
LEMMA QuietKeeps ==
  ASSUME Loops!IInv, UNCHANGED <<program, batch, shown, delivered, lost>>,
         pc' \in {"test", "select", "arm", "read", "got", "disarm", "frames"} \union Loops!Over,
         armed' \in BOOLEAN, woken' \in BOOLEAN, left' \in 0 .. MaxTime,
         pending' \in Loops!Frames, Len(delivered) + Len(pending') <= MaxFrames,
         \A i \in DOMAIN pending' : pending'[i].n = Len(delivered) + i,
         pc' \in {"test", "select", "arm", "read"} => batch = <<>>,
         pc' = "end" => pc = "end" \/ batch = <<>>,
         armed' => program \in Loops!Timers \union Loops!Ticks,
         pc' = "arm" => program \in Loops!Timers,
         pc = "end" => pc' = "end",
         pc' = "end" /\ left' > 0 => (pc = "end" /\ left > 0) \/ (program = "diagdump" /\ Loops!Full),
         program \in Loops!Selects => pc' # "died"
  PROVE  Loops!IInv'
<1>1. /\ Loops!TypeOK /\ Loops!Numbered /\ Loops!Counted /\ Loops!ShowsWhatIsDue /\ Loops!OnlyAlarmsLose
      /\ batch \in Loops!Frames /\ shown \in Loops!Frames /\ delivered \in Loops!Frames
      /\ Loops!Shown = {i \in Loops!Due : i <= Loops!Had}
      /\ pc = "end" => (program = "diagsip" /\ Len(shown) = Limit) \/ batch = <<>>
  BY DEF Loops!IInv
<1>2. /\ Loops!Due' = Loops!Due /\ Loops!Shown' = Loops!Shown /\ Loops!Had' = Loops!Had
      /\ \A c : Loops!Count(c)' = Loops!Count(c)
      /\ \A K : Loops!HadOf(K)' = Loops!HadOf(K)
  BY DEF Loops!Due, Loops!Came, Loops!Kin, Loops!Shown, Loops!Had, Loops!Count, Loops!HadOf
<1>3. Loops!TypeOK' BY <1>1 DEF Loops!TypeOK
<1>4. Loops!Numbered' BY <1>1, <1>2 DEF Loops!Numbered
<1>5. Loops!Counted' BY <1>1, <1>2 DEF Loops!Counted, Loops!Least
<1>6. Loops!OnlyAlarmsLose' BY <1>1 DEF Loops!OnlyAlarmsLose
<1>7. batch = <<>> => Loops!Shown = Loops!Due
  <2>1. DOMAIN delivered = 1 .. Len(delivered) /\ Len(delivered) \in Nat BY <1>1 DEF Loops!Frames
  <2>2. batch = <<>> => Loops!Had = Len(delivered) BY <2>1 DEF Loops!Had
  <2>3. \A i \in Loops!Due : i \in 1 .. Len(delivered) BY <2>1 DEF Loops!Due, Loops!Came
  <2> QED BY <1>1, <2>1, <2>2, <2>3
<1>8. Loops!ShowsWhatIsDue'
  <2>1. pc' \in {"test", "select", "arm", "read", "end"} => Loops!Shown = Loops!Due
    BY <1>1, <1>7 DEF Loops!ShowsWhatIsDue
  <2>2. pc' = "end" /\ left' > 0 =>
          IF program = "diagsip" THEN Len(shown) = Limit ELSE program = "diagdump" /\ Loops!Full
    BY <1>1 DEF Loops!ShowsWhatIsDue
  <2>3. Loops!Full' = Loops!Full BY <1>2 DEF Loops!Full
  <2> QED BY <1>1, <1>2, <2>1, <2>2, <2>3 DEF Loops!ShowsWhatIsDue
<1>9. pc' = "end" => (program' = "diagsip" /\ Len(shown') = Limit) \/ batch' = <<>> BY <1>1
<1> QED BY <1>1, <1>2, <1>3, <1>4, <1>5, <1>6, <1>8, <1>9 DEF Loops!IInv

LEMMA QuietSteps ==
  ASSUME Loops!IInv, MaxTime \in Nat, MaxFrames \in Nat,
         \/ Loops!Test \/ Loops!Select \/ Loops!Arm \/ Loops!ReadFails \/ Loops!Return \/ Loops!Disarm
         \/ Loops!NoFrame \/ Loops!Sends \/ Loops!Wakes \/ Loops!Clock
         \/ Loops!Alarm /\ pc \notin {"read", "got"}
         \/ UNCHANGED Loops!vars
  PROVE  Loops!IInv'
<1>1. /\ program \in Loops!Timers \union Loops!Ticks \union Loops!Selects
      /\ pc \in {"test", "select", "arm", "read", "got", "disarm", "frames"} \union Loops!Over
      /\ armed \in BOOLEAN /\ woken \in BOOLEAN /\ left \in 0 .. MaxTime
      /\ Len(delivered) + Len(pending) <= MaxFrames
      /\ pending \in Loops!Frames /\ \A i \in DOMAIN pending : pending[i].n = Len(delivered) + i
      /\ pc \in {"test", "select", "arm", "read"} => batch = <<>>
      /\ armed => program \in Loops!Timers \union Loops!Ticks
      /\ pc = "arm" => program \in Loops!Timers
      /\ program \in Loops!Selects => pc # "died"
  BY DEF Loops!IInv, Loops!TypeOK, Loops!Numbered, Loops!OnlyAlarmsLose
<1> USE DEF Loops!driver, Loops!history, Loops!Over
<1>3. CASE Loops!Test
  <2>1. pc' = "end" => ~(left > 0) BY <1>3, <1>1 DEF Loops!Test
  <2> QED BY <1>1, <1>3, <2>1, QuietKeeps DEF Loops!Test
<1>4. CASE Loops!Select BY <1>1, <1>4, QuietKeeps DEF Loops!Select
<1>5. CASE Loops!Arm BY <1>1, <1>5, QuietKeeps DEF Loops!Arm
<1>6. CASE Loops!ReadFails BY <1>1, <1>6, QuietKeeps DEF Loops!ReadFails
<1>7. CASE Loops!Return BY <1>1, <1>7, QuietKeeps DEF Loops!Return
<1>8. CASE Loops!Disarm BY <1>1, <1>8, QuietKeeps DEF Loops!Disarm
<1>9. CASE Loops!NoFrame BY <1>1, <1>9, QuietKeeps DEF Loops!NoFrame
<1>10. CASE Loops!Sends
  <2>1. PICK c \in Loops!Codes : pending' = Append(pending, [n |-> Len(delivered) + Len(pending) + 1, code |-> c])
    BY <1>10 DEF Loops!Sends
  <2>2. Len(delivered) \in Nat /\ Len(pending) \in Nat BY <1>1 DEF Loops!IInv, Loops!Frames
  <2> DEFINE f == [n |-> Len(delivered) + Len(pending) + 1, code |-> c]
  <2>3. f \in [n : Nat, code : Loops!Codes] /\ f.n = Len(delivered) + Len(pending) + 1 BY <2>2
  <2> HIDE DEF f
  <2>4. /\ pending' \in Loops!Frames /\ Len(pending') = Len(pending) + 1
        /\ DOMAIN pending = 1 .. Len(pending) /\ DOMAIN pending' = 1 .. Len(pending) + 1
        /\ \A i \in 1 .. Len(pending) : pending'[i] = pending[i]
        /\ pending'[Len(pending) + 1] = f
    BY <1>1, <2>1, <2>3, AppendFacts DEF Loops!Frames, f
  <2>5. \A i \in DOMAIN pending' : pending'[i].n = Len(delivered) + i
    <3> TAKE i \in DOMAIN pending'
    <3>1. CASE i = Len(pending) + 1 BY <2>2, <2>3, <2>4, <3>1
    <3>2. CASE i # Len(pending) + 1
      <4>1. i \in 1 .. Len(pending) BY <2>2, <2>4, <3>2
      <4> QED BY <1>1, <2>4, <4>1
    <3> QED BY <3>1, <3>2
  <2>6. Len(delivered) + Len(pending') <= MaxFrames
    <3>1. Len(delivered) + Len(pending) < MaxFrames BY <1>10 DEF Loops!Sends
    <3> DEFINE u == Len(delivered)
               v == Len(pending)
               w == Len(pending')
    <3>2. u \in Nat /\ v \in Nat /\ w = v + 1 /\ u + v < MaxFrames BY <2>2, <2>4, <3>1
    <3> HIDE DEF u, v, w
    <3>3. u + w <= MaxFrames BY <3>2
    <3> QED BY <3>3 DEF u, v, w
  <2>7. UNCHANGED <<program, pc, armed, left, batch, shown, woken, delivered, lost>> BY <1>10 DEF Loops!Sends
  <2> QED BY <1>1, <2>4, <2>5, <2>6, <2>7, QuietKeeps
<1>11. CASE Loops!Wakes BY <1>1, <1>11, QuietKeeps DEF Loops!Wakes
<1>12. CASE Loops!Clock
  <2>1. left' \in 0 .. MaxTime /\ pc \notin Loops!Over /\ UNCHANGED <<program, pc, armed, batch, shown, pending, woken, delivered, lost>>
    BY <1>1, <1>12 DEF Loops!Clock
  <2> QED BY <1>1, <2>1, QuietKeeps
<1>13. CASE Loops!Alarm /\ pc \notin {"read", "got"}
  <2>1. /\ pc' = "died" /\ pc \notin Loops!Over /\ armed' = (program \in Loops!Ticks) /\ armed
        /\ UNCHANGED <<program, left, batch, shown, pending, woken, delivered, lost>>
    BY <1>13 DEF Loops!Alarm
  <2>2. program \notin Loops!Selects BY <1>1, <2>1 DEF Loops!Selects, Loops!Timers, Loops!Ticks
  <2>3. armed' \in BOOLEAN /\ (armed' => program \in Loops!Timers \union Loops!Ticks)
    <3>1. armed' = (program \in Loops!Ticks) BY <2>1
    <3>2. (program \in Loops!Ticks) \in BOOLEAN OBVIOUS
    <3>3. armed' \in BOOLEAN BY Zenon, <3>1, <3>2
    <3>4. armed' => program \in Loops!Ticks BY Zenon, <3>1
    <3> QED BY <3>3, <3>4
  <2> QED BY <1>1, <2>1, <2>2, <2>3, QuietKeeps
<1>14. CASE UNCHANGED Loops!vars BY <1>1, <1>14, QuietKeeps DEF Loops!vars
<1> QED BY <1>3, <1>4, <1>5, <1>6, <1>7, <1>8, <1>9, <1>10, <1>11, <1>12, <1>13, <1>14

(* What is due of the first frames depends on them alone.                  *)
LEMMA DueBefore ==
  ASSUME delivered \in Loops!Frames, delivered' \in Loops!Frames, program' = program,
         NEW h \in Nat, h <= Len(delivered), h <= Len(delivered'),
         \A i \in 1 .. h : delivered'[i] = delivered[i] /\ (i \in lost' <=> i \in lost)
  PROVE  \A i \in 1 .. h : i \in Loops!Due' <=> i \in Loops!Due
<1>1. /\ DOMAIN delivered = 1 .. Len(delivered) /\ Len(delivered) \in Nat
      /\ DOMAIN delivered' = 1 .. Len(delivered') /\ Len(delivered') \in Nat
  BY DEF Loops!Frames
<1>2. \A i \in 1 .. h : i \in Loops!Came' <=> i \in Loops!Came BY <1>1 DEF Loops!Came
<1>3. ASSUME NEW i \in 1 .. h PROVE Loops!Kin(i)' = Loops!Kin(i)
  <2>1. \A j \in Loops!Came : j \in 1 .. Len(delivered) BY <1>1 DEF Loops!Came
  <2>2. \A j \in Loops!Came' : j \in 1 .. Len(delivered') BY <1>1 DEF Loops!Came
  <2>3. \A j \in Loops!Came : j <= i => j \in 1 .. h BY <1>1, <2>1
  <2>4. \A j \in Loops!Came' : j <= i => j \in 1 .. h BY <1>1, <2>2
  <2>5. CASE program = "diagsip" BY <1>2, <2>3, <2>4, <2>5 DEF Loops!Kin, Loops!Wanted
  <2>6. CASE program # "diagsip" BY <1>2, <2>3, <2>4, <2>6 DEF Loops!Kin
  <2> QED BY <2>5, <2>6
<1> QED BY <1>2, <1>3 DEF Loops!Due, Loops!Wanted

(* A whole batch is read: none of it has been looked at.                   *)
LEMMA ReadKeeps ==
  ASSUME Loops!IInv, Loops!Read, MaxFrames \in Nat PROVE Loops!IInv'
<1> DEFINE h == Len(delivered)
           k == Len(pending)
<1>1. /\ Loops!TypeOK /\ Loops!Numbered /\ Loops!Counted /\ Loops!ShowsWhatIsDue /\ Loops!OnlyAlarmsLose
      /\ pending \in Loops!Frames /\ shown \in Loops!Frames /\ delivered \in Loops!Frames
      /\ Loops!Shown = {i \in Loops!Due : i <= Loops!Had}
      /\ (armed => program \in Loops!Timers \union Loops!Ticks) /\ batch = <<>>
      /\ pc = "read" /\ pc' = "got" /\ batch' = pending /\ pending' = <<>>
      /\ delivered' = delivered \o pending
      /\ UNCHANGED <<program, armed, left, shown, woken, lost>>
  BY DEF Loops!IInv, Loops!Read
<1>2. /\ delivered' \in Loops!Frames /\ h \in Nat /\ k \in Nat /\ Len(delivered') = h + k
      /\ DOMAIN delivered = 1 .. h /\ DOMAIN delivered' = 1 .. h + k /\ DOMAIN pending = 1 .. k
      /\ \A i \in 1 .. h : delivered'[i] = delivered[i]
      /\ \A i \in 1 .. k : delivered'[h + i] = pending[i]
      /\ \A i \in h + 1 .. h + k : delivered'[i] = pending[i - h]
  BY <1>1, ConcatFacts DEF Loops!Frames
<1>3. h \in Nat /\ k \in Nat /\ Len(delivered') = h + k /\ Len(batch') = k BY <1>1, <1>2
<1>4. Loops!Had = h /\ Loops!Had' = h
  <2>1. Len(batch) = 0 BY <1>1
  <2>2. Loops!Had = h BY <1>3, <2>1 DEF Loops!Had
  <2>3. Loops!Had' = Len(delivered') - Len(batch') BY DEF Loops!Had
  <2> HIDE DEF h, k
  <2> QED BY <1>3, <2>2, <2>3
<1>5. \A i \in 1 .. h : i \in Loops!Due' <=> i \in Loops!Due BY <1>1, <1>2, DueBefore
<1>6. Loops!Shown' = Loops!Shown BY <1>1 DEF Loops!Shown
<1>7. /\ \A i \in Loops!Due : i \in 1 .. h
      /\ \A i \in Loops!Due' : i \in 1 .. h + k
  BY <1>2 DEF Loops!Due, Loops!Came
<1>8. Loops!Shown' = {i \in Loops!Due' : i <= Loops!Had'}
  <2>1. \A i \in Loops!Due' : i <= h => i \in 1 .. h BY <1>2, <1>7
  <2>2. \A i \in Loops!Due : i <= h BY <1>2, <1>7
  <2> HIDE DEF h
  <2> QED BY <1>1, <1>4, <1>5, <1>6, <1>7, <2>1, <2>2
<1>9. Loops!TypeOK'
  <2>1. Len(delivered') + Len(pending') <= MaxFrames
    <3>1. h + k <= MaxFrames /\ Len(pending') = 0 BY <1>1 DEF Loops!TypeOK
    <3> QED BY <1>3, <3>1
  <2>2. lost' \subseteq DOMAIN delivered' BY <1>1, <1>2 DEF Loops!TypeOK
  <2> QED BY <1>1, <2>1, <2>2 DEF Loops!TypeOK
<1>10. Loops!Numbered'
  <2>1. \A i \in 1 .. h + k : delivered'[i].n = i
    <3> TAKE i \in 1 .. h + k
    <3>1. CASE i \in 1 .. h BY <1>1, <1>2, <3>1 DEF Loops!Numbered
    <3>2. CASE i \notin 1 .. h
      <4>1. i - h \in 1 .. k /\ i \in h + 1 .. h + k /\ h + (i - h) = i BY <1>3, <3>2
      <4>2. delivered'[i] = pending[i - h] /\ pending[i - h].n = h + (i - h) BY <1>1, <1>2, <4>1 DEF Loops!Numbered
      <4> QED BY <4>1, <4>2
    <3> QED BY <3>1, <3>2
  <2>2. \A i \in 1 .. k : batch'[i] = delivered'[h + i] /\ h + i \notin lost'
    <3> TAKE i \in 1 .. k
    <3>1. h + i \notin DOMAIN delivered BY <1>2
    <3> QED BY <1>1, <1>2, <3>1 DEF Loops!TypeOK
  <2>3. Len(batch') <= Len(delivered') BY <1>3
  <2> QED BY <1>1, <1>2, <1>4, <2>1, <2>2, <2>3 DEF Loops!Numbered
<1>11. Loops!Counted'
  <2>1. \A K : Loops!HadOf(K)' = Loops!HadOf(K)
    <3> HIDE DEF h
    <3> QED BY <1>1, <1>2, <1>4 DEF Loops!HadOf
  <2>2. \A c : Loops!Count(c)' = Loops!Count(c) BY <1>1 DEF Loops!Count
  <2> QED BY <1>1, <2>1, <2>2 DEF Loops!Counted, Loops!Least
<1>12. Loops!ShowsWhatIsDue'
  <2>1. \A i \in DOMAIN shown : /\ shown[i].n \in Loops!Due /\ shown[i].n \in Loops!Due'
                                /\ shown[i] = delivered[shown[i].n] /\ shown[i] = delivered'[shown[i].n]
    BY <1>1, <1>2, <1>5, <1>7 DEF Loops!ShowsWhatIsDue
  <2>2. \A i \in Loops!Due', j \in Loops!Shown' : i < j => i \in Loops!Shown'
    <3> SUFFICES ASSUME NEW i \in Loops!Due', NEW j \in Loops!Shown', i < j PROVE i \in Loops!Shown'
      OBVIOUS
    <3>1. j \in 1 .. h BY <1>1, <1>6, <1>7
    <3>2. i \in 1 .. h /\ i <= h BY <1>3, <1>7, <3>1
    <3> QED BY <1>4, <1>8, <3>2
  <2> QED BY <1>1, <2>1, <2>2 DEF Loops!ShowsWhatIsDue
<1>13. Loops!OnlyAlarmsLose' BY <1>1 DEF Loops!OnlyAlarmsLose
<1>14. pending' \in Loops!Frames BY <1>1 DEF Loops!Frames
<1> QED BY <1>1, <1>2, <1>8, <1>9, <1>10, <1>11, <1>12, <1>13, <1>14 DEF Loops!IInv

(* An alarm takes the read away, and the batch with it if there is one.    *)
LEMMA AlarmKeeps ==
  ASSUME Loops!IInv, Loops!Alarm, pc \in {"read", "got"}, MaxFrames \in Nat PROVE Loops!IInv'
<1> DEFINE h == Loops!Had
           d == Len(delivered)
<1>1. /\ Loops!TypeOK /\ Loops!Numbered /\ Loops!Counted /\ Loops!ShowsWhatIsDue /\ Loops!OnlyAlarmsLose
      /\ pending \in Loops!Frames /\ shown \in Loops!Frames /\ delivered \in Loops!Frames /\ batch \in Loops!Frames
      /\ Loops!Shown = {i \in Loops!Due : i <= Loops!Had}
      /\ (armed => program \in Loops!Timers \union Loops!Ticks) /\ (pc = "read" => batch = <<>>)
  BY DEF Loops!IInv
<1>2. /\ armed /\ armed' = (program \in Loops!Ticks) /\ batch' = <<>>
      /\ pc' = IF program \in Loops!Timers THEN "disarm" ELSE "test"
      /\ lost' = lost \union {batch[i].n : i \in DOMAIN batch}
      /\ UNCHANGED <<program, left, shown, pending, woken, delivered>>
  BY DEF Loops!Alarm, Loops!driver
<1>3. /\ DOMAIN delivered = 1 .. d /\ d \in Nat /\ Len(batch) \in Nat /\ DOMAIN batch = 1 .. Len(batch)
      /\ h \in 0 .. d /\ h = d - Len(batch)
  <2>1. /\ DOMAIN delivered = 1 .. d /\ d \in Nat /\ Len(batch) \in Nat /\ DOMAIN batch = 1 .. Len(batch)
        /\ Len(batch) <= d
    BY <1>1 DEF Loops!Frames, Loops!Numbered
  <2>2. h = d - Len(batch) BY DEF Loops!Had
  <2> HIDE DEF h, d
  <2> QED BY <2>1, <2>2
<1> HIDE DEF h
<1>4. {batch[i].n : i \in DOMAIN batch} = h + 1 .. d
  <2>1. \A i \in 1 .. Len(batch) : batch[i].n = h + i
    <3> TAKE i \in 1 .. Len(batch)
    <3>1. batch[i] = delivered[h + i] BY <1>1, <1>3 DEF Loops!Numbered, h
    <3>2. h + i \in 1 .. d
      <4> HIDE DEF d
      <4> QED BY <1>3
    <3> QED BY <1>1, <1>3, <3>1, <3>2 DEF Loops!Numbered
  <2>2. \A n \in h + 1 .. d : n - h \in 1 .. Len(batch) /\ h + (n - h) = n
    <3> HIDE DEF d
    <3> QED BY <1>3
  <2>3. \A i \in 1 .. Len(batch) : h + i \in h + 1 .. d
    <3> HIDE DEF d
    <3> QED BY <1>3
  <2> HIDE DEF d
  <2>4. \A n \in h + 1 .. d : \E i \in 1 .. Len(batch) : batch[i].n = n BY <2>1, <2>2
  <2>5. \A i \in 1 .. Len(batch) : batch[i].n \in h + 1 .. d BY <2>1, <2>3
  <2> DEFINE R == h + 1 .. d
  <2>6. (\A n \in R : \E i \in DOMAIN batch : batch[i].n = n) /\ (\A i \in DOMAIN batch : batch[i].n \in R)
    BY <1>3, <2>4, <2>5
  <2> HIDE DEF R
  <2>7. {batch[i].n : i \in DOMAIN batch} = R BY <2>6
  <2> QED BY <2>7 DEF R
<1>5. lost' = lost \union (h + 1 .. d) BY <1>2, <1>4
<1>6. \A i \in 1 .. h : i \in lost' <=> i \in lost BY <1>3, <1>5
<1>7. Loops!Had' = d
  <2>1. Len(batch') = 0 /\ Len(delivered') = d BY <1>2
  <2>2. Loops!Had' = Len(delivered') - Len(batch') BY DEF Loops!Had
  <2> HIDE DEF d
  <2> QED BY <1>3, <2>1, <2>2
<1>8. \A i \in 1 .. h : i \in Loops!Due' <=> i \in Loops!Due
  <2>1. h \in Nat /\ h <= d BY <1>3
  <2> QED BY <1>1, <1>2, <1>6, <2>1, DueBefore
<1>9. /\ \A i \in Loops!Due : i \in 1 .. d
      /\ \A i \in Loops!Due' : i \in 1 .. d /\ i \notin lost'
  BY <1>2, <1>3 DEF Loops!Due, Loops!Came
<1>10. \A i \in Loops!Due' : i \in 1 .. h BY <1>3, <1>5, <1>9
<1>11. Loops!Shown' = Loops!Shown BY <1>2 DEF Loops!Shown
<1>12. Loops!Shown' = Loops!Due' /\ Loops!Shown' = {i \in Loops!Due' : i <= d}
  <2>1. \A i \in Loops!Shown : i \in 1 .. h
    <3>1. \A i \in Loops!Shown : i \in Loops!Due /\ i <= h BY <1>1 DEF h
    <3> QED BY <1>3, <1>9, <3>1
  <2>2. \A i \in 1 .. h : i \in Loops!Shown <=> i \in Loops!Due BY <1>1, <1>3 DEF h
  <2>3. \A i \in Loops!Due' : i <= d BY <1>3, <1>9
  <2>4. \A i : i \in Loops!Shown <=> i \in Loops!Due' BY <1>8, <1>10, <2>1, <2>2
  <2> QED BY <1>11, <2>3, <2>4
<1>13. program \notin Loops!Selects BY <1>1, <1>2 DEF Loops!Selects, Loops!Timers, Loops!Ticks
<1>14. armed' \in BOOLEAN /\ (armed' => program' \in Loops!Timers \union Loops!Ticks)
  <2>1. armed' = (program \in Loops!Ticks) /\ program' = program BY <1>2
  <2>2. (program \in Loops!Ticks) \in BOOLEAN OBVIOUS
  <2>3. armed' \in BOOLEAN BY Zenon, <2>1, <2>2
  <2>4. armed' => program \in Loops!Ticks BY Zenon, <2>1
  <2> QED BY <2>1, <2>3, <2>4
<1>15. Loops!TypeOK'
  <2>1. lost' \subseteq DOMAIN delivered' BY <1>1, <1>2, <1>3, <1>5 DEF Loops!TypeOK
  <2> QED BY <1>1, <1>2, <1>14, <2>1 DEF Loops!TypeOK
<1>16. Loops!Numbered'
  <2>1. Len(batch') <= Len(delivered') BY <1>2, <1>3
  <2> QED BY <1>1, <1>2, <2>1 DEF Loops!Numbered
<1>17. Loops!Counted'
  <2>1. \A K : Loops!HadOf(K)' = Loops!HadOf(K)
    <3>1. \A j \in 1 .. d : j \notin lost' <=> j \notin lost /\ j \in 1 .. h BY <1>3, <1>5
    <3>2. \A j \in 1 .. h : j \in 1 .. d BY <1>3
    <3> HIDE DEF d
    <3> QED BY <1>2, <1>7, <3>1, <3>2 DEF Loops!HadOf, h
  <2>2. \A c : Loops!Count(c)' = Loops!Count(c) BY <1>2 DEF Loops!Count
  <2>3. pc # "end" BY <1>1
  <2> QED BY <1>1, <1>2, <2>1, <2>2, <2>3 DEF Loops!Counted, Loops!Least
<1>18. Loops!ShowsWhatIsDue'
  <2>1. \A i \in DOMAIN shown : shown[i].n \in Loops!Due' /\ shown[i] = delivered[shown[i].n]
    BY <1>1, <1>11, <1>12 DEF Loops!ShowsWhatIsDue, Loops!Shown
  <2>2. \A i, j \in DOMAIN shown : i < j => shown[i].n < shown[j].n BY <1>1 DEF Loops!ShowsWhatIsDue
  <2>3. pc' # "end" BY <1>2
  <2> QED BY <1>2, <1>12, <2>1, <2>2, <2>3 DEF Loops!ShowsWhatIsDue
<1>19. Loops!OnlyAlarmsLose' BY <1>2, <1>13 DEF Loops!OnlyAlarmsLose
<1>20. batch' \in Loops!Frames BY <1>2 DEF Loops!Frames
<1> QED BY <1>1, <1>2, <1>7, <1>12, <1>14, <1>15, <1>16, <1>17, <1>18, <1>19, <1>20 DEF Loops!IInv

(* A frame is looked at: it is shown if it is due.                         *)
LEMMA ShowsTheDue ==
  ASSUME Loops!IInv, batch # <<>>, pc = "frames", Limit \in Nat \ {0}
  PROVE  /\ Loops!Had \in Nat /\ Loops!Had + 1 \in DOMAIN delivered /\ Loops!Had + 1 \notin lost
         /\ Head(batch) = delivered[Loops!Had + 1] /\ Head(batch).n = Loops!Had + 1
         /\ Head(batch) \in [n : Nat, code : Loops!Codes]
         /\ Loops!Shows(Head(batch)) <=> Loops!Had + 1 \in Loops!Due
<1> DEFINE h == Loops!Had
           f == Head(batch)
           c == f.code
<1>1. /\ Loops!TypeOK /\ Loops!Numbered /\ Loops!Counted
      /\ delivered \in Loops!Frames /\ batch \in Loops!Frames
  BY DEF Loops!IInv
<1>2. /\ f = batch[1] /\ f \in [n : Nat, code : Loops!Codes] /\ Len(batch) \in Nat \ {0} /\ 1 \in DOMAIN batch
      /\ DOMAIN delivered = 1 .. Len(delivered) /\ Len(delivered) \in Nat /\ Len(batch) <= Len(delivered)
  <2>1. /\ f = batch[1] /\ f \in [n : Nat, code : Loops!Codes] /\ Len(batch) \in Nat \ {0}
        /\ DOMAIN batch = 1 .. Len(batch)
    BY <1>1, TailFacts DEF Loops!Frames
  <2>2. DOMAIN delivered = 1 .. Len(delivered) /\ Len(delivered) \in Nat BY <1>1 DEF Loops!Frames
  <2>3. Len(batch) <= Len(delivered) BY <1>1 DEF Loops!Numbered
  <2>4. 1 \in DOMAIN batch BY <2>1
  <2> QED BY <2>1, <2>2, <2>3, <2>4
<1>3. h = Len(delivered) - Len(batch) BY DEF Loops!Had
<1>4. h \in Nat /\ h + 1 \in DOMAIN delivered
  <2> HIDE DEF h
  <2> QED BY <1>2, <1>3
<1>5. f = delivered[h + 1] /\ h + 1 \notin lost /\ f.n = h + 1 BY <1>1, <1>2, <1>4 DEF Loops!Numbered
<1>6. c \in Loops!Codes BY <1>2
<1>7. \A K : Loops!HadOf(K) = Kept(K, h) /\ Loops!Cardinality(Loops!HadOf(K)) = Cardinality(Kept(K, h))
  BY LoopsCardinality DEF Loops!HadOf, Kept
<1> HIDE DEF h, f
<1>8. \A K : /\ Cardinality(Kept(K, h)) \in Nat
             /\ c \in K => Cardinality(Kept(K, h + 1)) = Cardinality(Kept(K, h)) + 1
  BY <1>4, <1>5, KeptGrows
<1>9. h + 1 \in Loops!Due <=>
        /\ program \in {"sdpdump", "diagsip", "diagdump"} => c \in Loops!Wanted
        /\ program \in {"diagsip", "diagdump", "diag/f3probe"} => Cardinality(Kept(KindOf(h + 1), h + 1)) <= Limit
  BY <1>1, <1>4, <1>5, DueIs
<1>10. program \in {"sdpwatch", "sdpdump", "qmi/f3probe", "diagpeek", "diag/f3probe", "diagsip", "diagdump"}
  BY <1>1 DEF Loops!TypeOK, Loops!Timers, Loops!Ticks, Loops!Selects
<1>11. CASE program \in {"sdpwatch", "diagpeek", "qmi/f3probe"}
  <2>1. Loops!Shows(f) <=> h + 1 \in Loops!Due BY <1>9, <1>11 DEF Loops!Shows, Loops!sdpwatch
  <2> QED BY <1>2, <1>4, <1>5, <2>1 DEF h, f
<1>12. CASE program = "sdpdump"
  <2>1. Loops!Shows(f) <=> h + 1 \in Loops!Due BY <1>9, <1>12 DEF Loops!Shows, Loops!sdpdump
  <2> QED BY <1>2, <1>4, <1>5, <2>1 DEF h, f
<1>13. CASE program = "diagsip"
  <2>1. Len(shown) = Loops!Least(Cardinality(Kept(Loops!Wanted, h)), Limit) /\ Len(shown) < Limit
    BY <1>1, <1>7, <1>13 DEF Loops!Counted
  <2>2. Cardinality(Kept(Loops!Wanted, h)) < Limit BY <2>1 DEF Loops!Least
  <2>3. KindOf(h + 1) = Loops!Wanted BY <1>13 DEF KindOf
  <2>4. c \in Loops!Wanted => Cardinality(Kept(Loops!Wanted, h + 1)) <= Limit
    <3>1. c \in Loops!Wanted => Cardinality(Kept(Loops!Wanted, h + 1)) = Cardinality(Kept(Loops!Wanted, h)) + 1
      BY <1>8
    <3>2. Cardinality(Kept(Loops!Wanted, h)) \in Nat BY <1>8
    <3> QED BY <2>2, <3>1, <3>2
  <2>5. h + 1 \in Loops!Due <=> c \in Loops!Wanted BY <1>9, <1>13, <2>3, <2>4
  <2>6. Loops!Shows(f) <=> c \in Loops!Wanted BY <1>13 DEF Loops!Shows, Loops!diagsip
  <2> QED BY <1>2, <1>4, <1>5, <2>5, <2>6 DEF h, f
<1>14. CASE program \in {"diagdump", "diag/f3probe"}
  <2>1. KindOf(h + 1) = {c} BY <1>5, <1>14 DEF KindOf
  <2>2. Cardinality(Kept({c}, h + 1)) = Cardinality(Kept({c}, h)) + 1 /\ Cardinality(Kept({c}, h)) \in Nat BY <1>8
  <2>3. program = "diag/f3probe" \/ c \in Loops!Wanted => Loops!Count(c) = Loops!Least(Cardinality(Kept({c}, h)), Limit)
    BY <1>1, <1>6, <1>7, <1>14 DEF Loops!Counted
  <2>4. program = "diag/f3probe" \/ c \in Loops!Wanted =>
          (Loops!Count(c) < Limit <=> Cardinality(Kept({c}, h + 1)) <= Limit)
    BY <2>2, <2>3 DEF Loops!Least
  <2>5. Loops!Shows(f) <=> (program = "diagdump" => c \in Loops!Wanted) /\ Loops!Count(c) < Limit
    BY <1>14 DEF Loops!Shows, Loops!diagdump, Loops!f3probe
  <2>6. h + 1 \in Loops!Due <=> /\ program = "diagdump" => c \in Loops!Wanted
                                /\ Cardinality(Kept({c}, h + 1)) <= Limit
    BY <1>9, <1>14, <2>1
  <2>7. Loops!Shows(f) <=> h + 1 \in Loops!Due BY <1>14, <2>4, <2>5, <2>6
  <2> QED BY <1>2, <1>4, <1>5, <2>7 DEF h, f
<1> QED BY <1>2, <1>4, <1>5, <1>10, <1>11, <1>12, <1>13, <1>14 DEF h, f

LEMMA FrameKeeps ==
  ASSUME Loops!IInv, Loops!Frame, Limit \in Nat \ {0} PROVE Loops!IInv'
<1> DEFINE h == Loops!Had
           f == Head(batch)
           d == Len(delivered)
           k == Len(shown)
<1>1. /\ Loops!TypeOK /\ Loops!Numbered /\ Loops!Counted /\ Loops!ShowsWhatIsDue /\ Loops!OnlyAlarmsLose
      /\ pending \in Loops!Frames /\ shown \in Loops!Frames /\ delivered \in Loops!Frames /\ batch \in Loops!Frames
      /\ Loops!Shown = {i \in Loops!Due : i <= h}
      /\ (armed => program \in Loops!Timers \union Loops!Ticks)
  BY DEF Loops!IInv
<1>2. /\ pc = "frames" /\ batch # <<>> /\ batch' = Tail(batch)
      /\ shown' = IF Loops!Shows(f) THEN Append(shown, f) ELSE shown
      /\ pc' = IF program = "diagsip" /\ Len(shown') >= Limit THEN "end" ELSE "frames"
      /\ UNCHANGED <<program, armed, left, pending, woken, delivered, lost>>
  BY DEF Loops!Frame, Loops!driver, Loops!history
<1>3. /\ h \in Nat /\ h + 1 \in DOMAIN delivered /\ h + 1 \notin lost
      /\ f = delivered[h + 1] /\ f.n = h + 1 /\ f \in [n : Nat, code : Loops!Codes]
      /\ Loops!Shows(f) <=> h + 1 \in Loops!Due
  BY <1>1, <1>2, ShowsTheDue
<1>4. /\ batch' \in Loops!Frames /\ Len(batch) \in Nat \ {0} /\ Len(batch') = Len(batch) - 1
      /\ DOMAIN batch = 1 .. Len(batch) /\ DOMAIN batch' = 1 .. Len(batch) - 1
      /\ \A i \in 1 .. Len(batch) - 1 : batch'[i] = batch[i + 1]
  BY <1>1, <1>2, TailFacts DEF Loops!Frames
<1>5. DOMAIN delivered = 1 .. d /\ d \in Nat /\ Len(batch) <= d /\ h = d - Len(batch)
  BY <1>1 DEF Loops!Frames, Loops!Numbered, Loops!Had
<1>0. f \in [n : Nat, code : Loops!Codes] /\ shown \in Seq([n : Nat, code : Loops!Codes])
  BY <1>1, <1>3 DEF Loops!Frames
<1>k. k = Len(shown) OBVIOUS
<1> HIDE DEF h, f, d, k
<1>6. /\ k \in Nat /\ DOMAIN shown = 1 .. k /\ DOMAIN Append(shown, f) = 1 .. k + 1 /\ Append(shown, f) \in Loops!Frames
      /\ \A i \in 1 .. k : Append(shown, f)[i] = shown[i]
      /\ Append(shown, f)[k + 1] = f /\ Len(Append(shown, f)) = k + 1
  <2> DEFINE R == [n : Nat, code : Loops!Codes]
  <2>1. f \in R /\ shown \in Seq(R) BY <1>0
  <2> HIDE DEF R
  <2>2. /\ Append(shown, f) \in Seq(R) /\ Len(Append(shown, f)) = Len(shown) + 1
        /\ DOMAIN shown = 1 .. Len(shown) /\ DOMAIN Append(shown, f) = 1 .. Len(shown) + 1 /\ Len(shown) \in Nat
        /\ \A i \in 1 .. Len(shown) : Append(shown, f)[i] = shown[i]
        /\ Append(shown, f)[Len(shown) + 1] = f
    BY <2>1, AppendFacts
  <2>3. Append(shown, f) \in Loops!Frames BY <2>2 DEF R, Loops!Frames
  <2> QED BY <1>k, <2>2, <2>3
<1>7. Loops!Had' = h + 1
  <2>1. Loops!Had' = Len(delivered) - Len(batch') BY <1>2 DEF Loops!Had
  <2> QED BY <1>4, <1>5, <2>1 DEF d
<1>8. Loops!Due' = Loops!Due BY <1>2 DEF Loops!Due, Loops!Came, Loops!Kin
<1>9. /\ shown' \in Loops!Frames
      /\ \A i \in DOMAIN shown' : \/ i \in DOMAIN shown /\ shown'[i] = shown[i]
                                  \/ i = k + 1 /\ shown'[i] = f /\ h + 1 \in Loops!Due
  BY <1>1, <1>2, <1>3, <1>6
<1>10. \A i \in Loops!Due : i \in Nat BY <1>5 DEF Loops!Due, Loops!Came
<1>11. Loops!Shown' = {i \in Loops!Due' : i <= h + 1}
  <2>1. CASE h + 1 \in Loops!Due
    <3>1. shown' = Append(shown, f) BY <1>2, <1>3, <2>1
    <3>2. 1 .. k + 1 = (1 .. k) \union {k + 1} BY <1>6
    <3>3. Loops!Shown' = {shown'[i].n : i \in 1 .. k + 1} BY <1>6, <3>1 DEF Loops!Shown
    <3>4. Loops!Shown = {shown[i].n : i \in 1 .. k} BY <1>6 DEF Loops!Shown
    <3>5. {shown'[i].n : i \in 1 .. k + 1} = {shown'[i].n : i \in 1 .. k} \union {shown'[k + 1].n} BY <3>2
    <3>6. {shown'[i].n : i \in 1 .. k} = {shown[i].n : i \in 1 .. k} BY <1>6, <3>1
    <3>7. shown'[k + 1].n = h + 1 BY <1>3, <1>6, <3>1
    <3>8. Loops!Shown' = Loops!Shown \union {h + 1} BY <3>3, <3>4, <3>5, <3>6, <3>7
    <3> QED BY <1>1, <1>3, <1>8, <1>10, <2>1, <3>8
  <2>2. CASE h + 1 \notin Loops!Due
    <3>1. Loops!Shown' = Loops!Shown BY <1>2, <1>3, <2>2 DEF Loops!Shown
    <3> QED BY <1>1, <1>3, <1>8, <1>10, <2>2, <3>1
  <2> QED BY <2>1, <2>2
<1>12. Loops!Numbered'
  <2>1. \A i \in DOMAIN batch' : batch'[i] = delivered[(h + 1) + i] /\ (h + 1) + i \notin lost
    <3> TAKE i \in DOMAIN batch'
    <3>0. i \in 1 .. Len(batch) - 1 /\ i \in Nat BY <1>4
    <3>1. i + 1 \in DOMAIN batch /\ batch'[i] = batch[i + 1] BY <1>4, <3>0
    <3>2. h + (i + 1) = (h + 1) + i BY <1>3, <3>0
    <3>3. batch[i + 1] = delivered[h + (i + 1)] /\ h + (i + 1) \notin lost BY <1>1, <3>1 DEF Loops!Numbered, h
    <3> QED BY <3>1, <3>2, <3>3
  <2>2. Len(batch') <= Len(delivered) BY <1>4, <1>5 DEF d
  <2> QED BY <1>1, <1>2, <1>7, <2>1, <2>2 DEF Loops!Numbered
<1>13. Loops!Counted'
  <2>1. \A K : /\ Loops!Cardinality(Loops!HadOf(K)) = Cardinality(Kept(K, h))
               /\ Loops!Cardinality(Loops!HadOf(K))' = Cardinality(Kept(K, h + 1))
    <3>1. \A K : Loops!HadOf(K) = Kept(K, h) BY DEF Loops!HadOf, Kept, h
    <3>2. \A K : Loops!HadOf(K)' = Kept(K, h + 1) BY <1>2, <1>7 DEF Loops!HadOf, Kept
    <3>3. \A K : Loops!Cardinality(Kept(K, h)) = Cardinality(Kept(K, h)) BY LoopsCardinality
    <3>4. \A K : Loops!Cardinality(Kept(K, h + 1)) = Cardinality(Kept(K, h + 1)) BY LoopsCardinality
    <3> QED BY <3>1, <3>2, <3>3, <3>4
  <2>2. \A K : /\ Cardinality(Kept(K, h)) \in Nat
               /\ Cardinality(Kept(K, h + 1)) =
                    IF f.code \in K THEN Cardinality(Kept(K, h)) + 1 ELSE Cardinality(Kept(K, h))
    BY <1>3, KeptGrows
  <2>3. \A c : /\ Loops!Count(c) \in Nat
               /\ Loops!Count(c)' = IF Loops!Shows(f) /\ f.code = c THEN Loops!Count(c) + 1 ELSE Loops!Count(c)
    <3> TAKE c
    <3> DEFINE S == WithCode(shown, c)
               T == WithCode(Append(shown, f), c)
    <3>1. Cardinality(S) \in Nat /\ Cardinality(T) = IF f.code = c THEN Cardinality(S) + 1 ELSE Cardinality(S)
      <4>1. f \in [n : Nat, code : Loops!Codes] /\ shown \in Loops!Frames BY <1>0, <1>1
      <4> QED BY <4>1, CountIs
    <3>2. Loops!Count(c) = Loops!Cardinality(S) BY DEF Loops!Count, WithCode
    <3>3. Loops!Count(c)' = IF Loops!Shows(f) THEN Loops!Cardinality(T) ELSE Loops!Cardinality(S)
      BY <1>2 DEF Loops!Count, WithCode
    <3>4. Loops!Cardinality(S) = Cardinality(S) /\ Loops!Cardinality(T) = Cardinality(T) BY LoopsCardinality
    <3> HIDE DEF S, T
    <3> QED BY <3>1, <3>2, <3>3, <3>4
  <2>4. CASE program = "diagsip"
    <3>1. Len(shown) = Loops!Least(Cardinality(Kept(Loops!Wanted, h)), Limit) /\ Len(shown) < Limit
      BY <1>1, <1>2, <2>1, <2>4 DEF Loops!Counted
    <3>2. Loops!Shows(f) <=> f.code \in Loops!Wanted BY <2>4 DEF Loops!Shows, Loops!diagsip
    <3>3. Len(shown') = IF f.code \in Loops!Wanted THEN Len(shown) + 1 ELSE Len(shown) BY <1>2, <1>6, <3>2 DEF k
    <3>4. Len(shown) = Cardinality(Kept(Loops!Wanted, h)) BY <3>1 DEF Loops!Least
    <3>5. Len(shown') = Cardinality(Kept(Loops!Wanted, h + 1)) BY <2>2, <3>3, <3>4
    <3>6. Len(shown') <= Limit /\ Len(shown') \in Nat BY <1>6, <3>1, <3>3 DEF k
    <3>7. Len(shown') = Loops!Least(Cardinality(Kept(Loops!Wanted, h + 1)), Limit) BY <3>5, <3>6 DEF Loops!Least
    <3>8. pc' # "end" => Len(shown') < Limit BY <1>2, <2>4, <3>6
    <3> QED BY <1>2, <2>1, <2>4, <3>7, <3>8 DEF Loops!Counted, Loops!Least, Loops!Wanted
  <2>5. CASE program = "diagdump"
    <3> SUFFICES ASSUME NEW c \in Loops!Wanted
                 PROVE  Loops!Count(c)' = Loops!Least(Cardinality(Kept({c}, h + 1)), Limit)
      BY <1>2, <2>1, <2>5 DEF Loops!Counted, Loops!Least, Loops!Wanted
    <3>1. Loops!Count(c) = Loops!Least(Cardinality(Kept({c}, h)), Limit) BY <1>1, <2>1, <2>5 DEF Loops!Counted
    <3>2. f.code = c => (Loops!Shows(f) <=> Loops!Count(c) < Limit) BY <2>5 DEF Loops!Shows, Loops!diagdump
    <3>3. f.code \in {c} <=> f.code = c OBVIOUS
    <3> QED BY <2>2, <2>3, <3>1, <3>2, <3>3 DEF Loops!Least
  <2>6. CASE program = "diag/f3probe"
    <3> SUFFICES ASSUME NEW c \in Loops!Codes
                 PROVE  Loops!Count(c)' = Loops!Least(Cardinality(Kept({c}, h + 1)), Limit)
      BY <1>2, <2>1, <2>6 DEF Loops!Counted, Loops!Least, Loops!Wanted, Loops!Codes
    <3>1. Loops!Count(c) = Loops!Least(Cardinality(Kept({c}, h)), Limit) BY <1>1, <2>1, <2>6 DEF Loops!Counted
    <3>2. f.code = c => (Loops!Shows(f) <=> Loops!Count(c) < Limit) BY <2>6 DEF Loops!Shows, Loops!f3probe
    <3>3. f.code \in {c} <=> f.code = c OBVIOUS
    <3> QED BY <2>2, <2>3, <3>1, <3>2, <3>3 DEF Loops!Least
  <2>7. CASE program \notin {"diagsip", "diagdump", "diag/f3probe"} BY <1>2, <2>7 DEF Loops!Counted
  <2> QED BY <2>4, <2>5, <2>6, <2>7
<1>14. Loops!ShowsWhatIsDue'
  <2>1. \A i \in DOMAIN shown' : shown'[i].n \in Loops!Due /\ shown'[i] = delivered[shown'[i].n]
    BY <1>1, <1>3, <1>9 DEF Loops!ShowsWhatIsDue
  <2>2. \A i, j \in DOMAIN shown' : i < j => shown'[i].n < shown'[j].n
    <3> SUFFICES ASSUME NEW i \in DOMAIN shown', NEW j \in DOMAIN shown', i < j PROVE shown'[i].n < shown'[j].n
      OBVIOUS
    <3>1. DOMAIN shown' \in {1 .. k, 1 .. k + 1} BY <1>2, <1>6
    <3>2. i \in DOMAIN shown /\ shown'[i] = shown[i] BY <1>6, <1>9, <3>1
    <3>3. CASE j = k + 1
      <4>1. shown[i].n \in Loops!Shown BY <3>2 DEF Loops!Shown
      <4>2. shown[i].n <= h /\ shown[i].n \in Nat BY <1>1, <1>10, <4>1
      <4>3. shown'[j].n = h + 1 BY <1>3, <1>6, <1>9, <3>3
      <4> QED BY <1>3, <3>2, <4>2, <4>3
    <3>4. CASE j # k + 1
      <4>1. j \in DOMAIN shown /\ shown'[j] = shown[j] BY <1>9, <3>4
      <4> QED BY <1>1, <3>2, <4>1 DEF Loops!ShowsWhatIsDue
    <3> QED BY <3>3, <3>4
  <2>3. \A i \in Loops!Due', j \in Loops!Shown' : i < j => i \in Loops!Shown'
    BY <1>3, <1>8, <1>10, <1>11
  <2>4. CASE pc' = "end"
    <3>1. program = "diagsip" /\ Len(shown') >= Limit BY <1>2, <2>4
    <3>2. Len(shown') = Loops!Least(Loops!Cardinality(Loops!HadOf(Loops!Wanted))', Limit)
      BY <1>2, <1>13, <3>1 DEF Loops!Counted, Loops!Least, Loops!Wanted
    <3>3. Loops!Cardinality(Loops!HadOf(Loops!Wanted))' = Cardinality(Kept(Loops!Wanted, h + 1))
      <4>1. Loops!HadOf(Loops!Wanted)' = Kept(Loops!Wanted, h + 1)
        BY <1>2, <1>7 DEF Loops!HadOf, Kept, Loops!Wanted
      <4> QED BY <4>1, LoopsCardinality
    <3>4. Cardinality(Kept(Loops!Wanted, h + 1)) \in Nat BY <1>3, KeptGrows
    <3>5. Len(shown') = Limit /\ Cardinality(Kept(Loops!Wanted, h + 1)) >= Limit
      BY <3>1, <3>2, <3>3, <3>4 DEF Loops!Least
    <3>6. \A i \in Loops!Due : i <= h + 1
      <4> SUFFICES ASSUME NEW i \in Loops!Due, ~(i <= h + 1) PROVE FALSE
        OBVIOUS
      <4>1. /\ i \in DOMAIN delivered /\ i \notin lost /\ delivered[i].code \in Loops!Wanted
            /\ Cardinality(Kept(Loops!Wanted, i)) <= Limit
        BY <1>1, <3>1, DueIs DEF KindOf
      <4>2. i \in Nat /\ i - 1 \in Nat /\ h + 1 <= i - 1 /\ h + 1 \in Nat /\ (i - 1) + 1 = i BY <1>3, <1>10
      <4>3. Cardinality(Kept(Loops!Wanted, h + 1)) <= Cardinality(Kept(Loops!Wanted, i - 1))
        BY <4>2, KeptGrows
      <4>4. /\ Cardinality(Kept(Loops!Wanted, (i - 1) + 1)) = Cardinality(Kept(Loops!Wanted, i - 1)) + 1
            /\ Cardinality(Kept(Loops!Wanted, i - 1)) \in Nat
        BY <4>1, <4>2, KeptGrows
      <4> QED BY <3>4, <3>5, <4>1, <4>2, <4>3, <4>4
    <3>7. Loops!Shown' = Loops!Due' BY <1>8, <1>11, <3>6
    <3> QED BY <1>2, <1>8, <2>1, <2>2, <2>3, <3>1, <3>5, <3>7 DEF Loops!ShowsWhatIsDue
  <2>5. CASE pc' # "end"
    <3>1. pc' = "frames" BY <1>2, <2>5
    <3> QED BY <1>2, <1>8, <2>1, <2>2, <2>3, <3>1 DEF Loops!ShowsWhatIsDue
  <2> QED BY <2>4, <2>5
<1>15. pc' = "end" => program' = "diagsip" /\ Len(shown') = Limit
  <2>1. ASSUME pc' = "end" PROVE Len(shown') = Limit
    <3>1. program = "diagsip" /\ Len(shown') >= Limit BY <1>2, <2>1
    <3>2. Len(shown) < Limit /\ Len(shown') \in {Len(shown), Len(shown) + 1}
      BY <1>1, <1>2, <1>6, <3>1 DEF Loops!Counted, k
    <3> QED BY <1>6, <3>1, <3>2 DEF k
  <2> QED BY <1>2, <2>1
<1>16. Loops!TypeOK' BY <1>1, <1>2 DEF Loops!TypeOK, Loops!Over
<1>17. Loops!OnlyAlarmsLose' BY <1>1, <1>2 DEF Loops!OnlyAlarmsLose
<1> QED BY <1>1, <1>2, <1>4, <1>7, <1>9, <1>11, <1>12, <1>13, <1>14, <1>15, <1>16, <1>17 DEF Loops!IInv

LEMMA LoopsSteps ==
  ASSUME Loops!IInv, [Loops!Next]_(Loops!vars), Limit \in Nat \ {0}, MaxTime \in Nat, MaxFrames \in Nat
  PROVE  Loops!IInv'
<1>1. CASE \/ Loops!Test \/ Loops!Select \/ Loops!Arm \/ Loops!ReadFails \/ Loops!Return \/ Loops!Disarm
           \/ Loops!NoFrame \/ Loops!Sends \/ Loops!Wakes \/ Loops!Clock \/ UNCHANGED Loops!vars
  BY <1>1, QuietSteps
<1>2. CASE Loops!Read BY <1>2, ReadKeeps
<1>3. CASE Loops!Frame BY <1>3, FrameKeeps
<1>4. CASE Loops!Alarm BY <1>4, AlarmKeeps, QuietSteps
<1> QED BY <1>1, <1>2, <1>3, <1>4 DEF Loops!Next, Loops!Loop

-----------------------------------------------------------------------------
(* The programs together: the one that runs keeps its own invariant.       *)

LEMMA Starts == ASSUME Init PROVE IInv
<1> USE ConstantsAssumption DEF ConstantsAssumption
<1>1. ASSUME running = "probe" PROVE Probe!IInv
  <2>1. Probe!Init BY <1>1 DEF Init
  <2> QED BY <2>1, ProbeStarts
<1>2. ASSUME running = "touch" PROVE Screen!IInv
  <2>1. Screen!Init BY <1>2 DEF Init
  <2> QED BY <2>1, ScreenStarts
<1>3. ASSUME running = "capture" PROVE Raw!IInv
  <2>1. Raw!Init BY <1>3 DEF Init
  <2> QED BY <2>1, RawStarts
<1>4. ASSUME running = "listen" PROVE Loops!IInv
  <2>1. Loops!Init BY <1>4 DEF Init
  <2> QED BY <2>1, LoopsStart
<1> QED BY <1>1, <1>2, <1>3, <1>4 DEF IInv

LEMMA Steps == ASSUME IInv, [Next]_vars PROVE IInv'
<1> USE ConstantsAssumption DEF ConstantsAssumption
<1>1. running' = running BY DEF Next, vars
<1>2. ASSUME running = "probe" PROVE Probe!IInv'
  <2>1. [Probe!Next]_(Probe!vars)
    BY <1>2 DEF Next, vars, probeVars, stepVars, Probe!vars
  <2> QED BY <1>2, <2>1, ProbeSteps DEF IInv
<1>3. ASSUME running = "touch" PROVE Screen!IInv'
  <2>1. [Screen!Next]_(Screen!vars)
    BY <1>3 DEF Next, vars, touchVars, stepVars, Screen!vars
  <2> QED BY <1>3, <2>1, ScreenSteps DEF IInv
<1>4. ASSUME running = "capture" PROVE Raw!IInv'
  <2>1. [Raw!Next]_(Raw!vars)
    BY <1>4 DEF Next, vars, pcVars, captureVars, Raw!vars, Raw!parservars
  <2> QED BY <1>4, <2>1, RawSteps DEF IInv
<1>5. ASSUME running = "listen" PROVE Loops!IInv'
  <2>1. [Loops!Next]_(Loops!vars)
    BY <1>5 DEF Next, vars, pcVars, listenVars, Loops!vars
  <2> QED BY <1>5, <2>1, LoopsSteps DEF IInv
<1> QED BY <1>1, <1>2, <1>3, <1>4, <1>5 DEF IInv

\* Whatever a probe, the touchscreen, the capture or a listening loop has done
\* (wltouch.py, inject_touch.py, sdpraw.py, sdpwatch.py and the others), what
\* it keeps in hand accounts for what went by.
THEOREM Invariance == Spec => []IInv
<1>1. Init => IInv BY Starts
<1>2. IInv /\ [Next]_vars => IInv' BY Steps
<1> QED BY <1>1, <1>2, PTL DEF Spec

\* wltouch.py is never thrown out by the compositor, whatever this configures
\* and pings meanwhile; and the contacts of inject_touch.py arrive whole,
\* whenever the reader opened the device.
THEOREM NoProtocolErrorHolds == Spec => []NoProtocolError
<1>1. IInv => NoProtocolError
  BY DEF IInv, NoProtocolError, Probe!IInv, Screen!IInv
<1> QED BY <1>1, Invariance, PTL

\* wltouch.py and wlinfo.py: nothing the compositor sends is dropped or
\* overtaken while a callback is waited for.
THEOREM NothingIsLostHolds == Spec => []NothingIsLost
<1>1. IInv => NothingIsLost BY DEF IInv, NothingIsLost, Probe!IInv
<1> QED BY <1>1, Invariance, PTL

\* sdpraw.py with sdprawparse.py, and the programs that listen: a capture
\* that is cut off anywhere is parsed into the batches read, and what a loop
\* shows of the frames that came is what it is due, up to its limit.
THEOREM CapturesAreWholeHolds == Spec => []CapturesAreWhole
<1>1. IInv => CapturesAreWhole
  BY DEF IInv, CapturesAreWhole, Raw!IInv, Loops!IInv
<1> QED BY <1>1, Invariance, PTL
=============================================================================
