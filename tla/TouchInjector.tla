---------------------------- MODULE TouchInjector ----------------------------
(***************************************************************************)
(* scripts/waydroid/inject_touch.py: a uinput touchscreen that taps one    *)
(* place several times, and the kernel's input core behind it, which drops *)
(* an event that changes nothing and delivers at each SYN_REPORT what has  *)
(* changed; a reader opens the device some time after it was created.      *)
(***************************************************************************)
EXTENDS Integers, SequencesExt

CONSTANTS Taps, X, Y

VARIABLES
  step,     \* events emitted so far
  device,   \* "absent", "created" or "destroyed"
  opened,   \* a reader has opened it
  axes,     \* what the core last took for each code
  changed,  \* codes taken since the last SYN_REPORT
  frames    \* what the reader got: [codes, axes] for each SYN_REPORT

vars == <<step, device, opened, axes, changed, frames>>

Codes == {"ABS_MT_SLOT", "ABS_MT_TRACKING_ID", "ABS_MT_POSITION_X",
          "ABS_MT_POSITION_Y", "BTN_TOUCH", "ABS_X", "ABS_Y"}

Tap(i) ==
  << <<"ABS_MT_SLOT", 0>>, <<"ABS_MT_TRACKING_ID", 100 + i>>, <<"ABS_MT_POSITION_X", X>>,
     <<"ABS_MT_POSITION_Y", Y>>, <<"BTN_TOUCH", 1>>, <<"ABS_X", X>>, <<"ABS_Y", Y>>, <<"SYN", 0>>,
     <<"ABS_MT_SLOT", 0>>, <<"ABS_MT_TRACKING_ID", -1>>, <<"BTN_TOUCH", 0>>, <<"SYN", 0>> >>

\* The taps one after the other, of twelve events each.
Script == [k \in 1 .. 12 * Taps |-> Tap((k - 1) \div 12)[((k - 1) % 12) + 1]]

Init ==
  /\ step = 0 /\ device = "absent" /\ opened = FALSE
  /\ axes = [c \in Codes |-> IF c = "ABS_MT_TRACKING_ID" THEN -1 ELSE 0]
  /\ changed = {} /\ frames = <<>>

\* The ioctls and the description of the device, then UI_DEV_CREATE.
Create ==
  /\ device = "absent"
  /\ device' = "created"
  /\ UNCHANGED <<step, opened, axes, changed, frames>>

emit ==
  /\ device = "created" /\ step < Len(Script) /\ Script[step + 1][1] # "SYN"
  /\ step' = step + 1
  /\ LET code == Script[step + 1][1]
         value == Script[step + 1][2]
     IN  /\ axes' = [axes EXCEPT ![code] = value]
         /\ changed' = IF axes[code] = value THEN changed ELSE changed \union {code}
  /\ UNCHANGED <<device, opened, frames>>

syn ==
  /\ device = "created" /\ step < Len(Script) /\ Script[step + 1][1] = "SYN"
  /\ step' = step + 1
  /\ frames' = IF opened /\ changed # {} THEN Append(frames, [codes |-> changed, axes |-> axes]) ELSE frames
  /\ changed' = {}
  /\ UNCHANGED <<device, opened, axes>>

Destroy ==
  /\ device = "created" /\ step = Len(Script)
  /\ device' = "destroyed"
  /\ UNCHANGED <<step, opened, axes, changed, frames>>

\* udev and libinput, or nobody for as long as the taps last.
Open ==
  /\ device = "created" /\ ~opened
  /\ opened' = TRUE
  /\ UNCHANGED <<step, device, axes, changed, frames>>

\* Killed: the kernel destroys the device of a closed file.
Kill ==
  /\ device = "created"
  /\ device' = "destroyed"
  /\ UNCHANGED <<step, opened, axes, changed, frames>>

Next == Create \/ emit \/ syn \/ Destroy \/ Open \/ Kill

Spec == Init /\ [][Next]_vars

-----------------------------------------------------------------------------
\* A report of a contact at the place asked for, or of its lift.
IsDown(f) == f.axes["ABS_MT_TRACKING_ID"] # -1
IsWhole(f) ==
  /\ {"ABS_MT_TRACKING_ID", "BTN_TOUCH"} \subseteq f.codes
  /\ IsDown(f) <=> f.axes["BTN_TOUCH"] = 1
  /\ f.axes["ABS_MT_POSITION_X"] = X /\ f.axes["ABS_MT_POSITION_Y"] = Y

\* Every report a reader gets is a whole contact or a whole lift, though the
\* core drops positions that repeat, and whenever the reader comes: a contact
\* is at the place asked for and is lifted before the next, the last one too.
TapsArrive ==
  /\ \A i \in DOMAIN frames :
       IsWhole(frames[i]) /\ (i > 1 => (IsDown(frames[i]) <=> ~IsDown(frames[i - 1])))
  /\ frames # <<>> /\ step = Len(Script) => ~IsDown(Last(frames))


-----------------------------------------------------------------------------
(* What is behind it: how far the tap is, and what its events have set.    *)

Place == step % 12
InContact == Place \in 8 .. 11

AxesFollow ==
  /\ axes["ABS_MT_TRACKING_ID"] = IF Place \in 2 .. 9 THEN 100 + step \div 12 ELSE -1
  /\ axes["BTN_TOUCH"] = IF Place \in 5 .. 10 THEN 1 ELSE 0
  /\ step > 2 => axes["ABS_MT_POSITION_X"] = X
  /\ step > 3 => axes["ABS_MT_POSITION_Y"] = Y
  /\ Place \in (2 .. 7) \union {10, 11} => "ABS_MT_TRACKING_ID" \in changed
  /\ Place \in (5 .. 7) \union {11} => "BTN_TOUCH" \in changed

IInv ==
  /\ step \in 0 .. 12 * Taps
  /\ axes \in [Codes -> Int] /\ changed \subseteq Codes
  /\ frames \in Seq([codes : SUBSET Codes, axes : [Codes -> Int]])
  /\ AxesFollow
  /\ frames # <<>> => opened /\ (IsDown(Last(frames)) <=> InContact)
  /\ TapsArrive
=============================================================================
