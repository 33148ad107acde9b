------------------------------ MODULE MCObserve -----------------------------
(***************************************************************************)
(* The programs that watch, for TLC: the Wayland probes against a          *)
(* compositor and the touchscreen that taps for them, the capture, the     *)
(* listening loops and the packet sniffers, and what reads their bytes:    *)
(* frames, F3 records and DEX files.  One of them runs.                    *)
(***************************************************************************)
EXTENDS Integers, Sequences

\* The flag, the escape, and the types of F3 messages with strings and of those
\* with hashes.
MCBytes == {126, 125, 121, 146}

\* First bytes of Ethernet addresses; one that begins with the digit 4 or 6
\* makes both sniffers take the frame for an IP packet.
MCMacs == {2, 69}

CONSTANTS
  Modes, MaxConfigures, MaxPings, MaxTouches, \* the Wayland probes
  Taps, X, Y,                                 \* the touchscreen
  Lengths, MaxBatches,                        \* the capture
  Limit, MaxTime, MaxFrames                   \* the listening loops

ASSUME ConstantsAssumption ==
  /\ Modes \subseteq {"xdg", "wl", "info"}
  /\ Taps \in Nat /\ X \in Int /\ Y \in Int
  /\ Lengths \subseteq Nat \ {0}   \* an empty read is none
  /\ MaxBatches \in Nat
  /\ Limit \in Nat \ {0} /\ MaxTime \in Nat /\ MaxFrames \in Nat

VARIABLES
  running,  \* the program that runs
  mode, nextid, await, queue, configured, handled, over, out, inn, objects,
  sent, acked, mapped,
  step,
  device, opened, axes, changed, frames,
  pc, armed, lost,
  buf, count, file, disk, parser, read, parsed,
  program, left, batch, shown, pending, woken, delivered,
  packets,
  cmd, fmt, args,
  body, statics,
  counts, kept, sip

Probe == INSTANCE WaylandProbe

Screen == INSTANCE TouchInjector

Raw == INSTANCE Capture

Loops == INSTANCE Listen

Hdlc == INSTANCE DiagFrames WITH Bytes <- MCBytes, MaxBytes <- 4

F3 == INSTANCE F3Records WITH ArgLimit <- 2, MaxTokens <- 4, MaxArgs <- 3

Dex == INSTANCE DexCode WITH MaxInstructions <- 3, MaxFields <- 3

Sniff == INSTANCE Sniffers WITH MaxPackets <- 2, Macs <- MCMacs

probeVars == <<mode, nextid, await, queue, configured, handled, over, out,
               inn, objects, sent, acked, mapped>>
stepVars == <<step>>
touchVars == <<device, opened, axes, changed, frames>>
pcVars == <<pc, armed, lost>>
captureVars == <<buf, count, file, disk, parser, read, parsed>>
listenVars == <<program, left, batch, shown, pending, woken, delivered>>
packetsVars == <<packets>>
recordsVars == <<cmd, fmt, args>>
dexVars == <<body, statics>>
sniffVars == <<counts, kept, sip>>
vars == <<running, probeVars, stepVars, touchVars, pcVars, captureVars,
          listenVars, packetsVars, recordsVars, dexVars, sniffVars>>

\* What a program that does not run leaves unused.
Unused == "unused"
NoProbe ==
  /\ mode = Unused /\ nextid = Unused /\ await = Unused /\ queue = Unused
  /\ configured = Unused /\ handled = Unused /\ over = Unused /\ out = Unused
  /\ inn = Unused /\ objects = Unused /\ sent = Unused /\ acked = Unused
  /\ mapped = Unused
NoStep == step = Unused
NoTouch ==
  /\ device = Unused /\ opened = Unused /\ axes = Unused /\ changed = Unused
  /\ frames = Unused
NoPc == pc = Unused /\ armed = Unused /\ lost = Unused
NoCapture ==
  /\ buf = Unused /\ count = Unused /\ file = Unused /\ disk = Unused
  /\ parser = Unused /\ read = Unused /\ parsed = Unused
NoListen ==
  /\ program = Unused /\ left = Unused /\ batch = Unused /\ shown = Unused
  /\ pending = Unused /\ woken = Unused /\ delivered = Unused
NoPackets == packets = Unused
NoRecords == cmd = Unused /\ fmt = Unused /\ args = Unused
NoDex == body = Unused /\ statics = Unused
NoSniff == counts = Unused /\ kept = Unused /\ sip = Unused

Init ==
  \/ running = "probe" /\ Probe!Init /\ NoTouch /\ NoPc /\ NoCapture
       /\ NoListen /\ NoPackets /\ NoRecords /\ NoDex /\ NoSniff
  \/ running = "touch" /\ Screen!Init /\ NoProbe /\ NoPc /\ NoCapture
       /\ NoListen /\ NoPackets /\ NoRecords /\ NoDex /\ NoSniff
  \/ running = "capture" /\ Raw!Init /\ NoProbe /\ NoStep /\ NoTouch
       /\ NoListen /\ NoPackets /\ NoRecords /\ NoDex /\ NoSniff
  \/ running = "listen" /\ Loops!Init /\ NoProbe /\ NoStep /\ NoTouch
       /\ NoCapture /\ NoPackets /\ NoRecords /\ NoDex /\ NoSniff
  \/ running = "framing" /\ Hdlc!Init /\ NoProbe /\ NoStep /\ NoTouch /\ NoPc
       /\ NoCapture /\ NoListen /\ NoRecords /\ NoDex /\ NoSniff
  \/ running = "records" /\ F3!Init /\ NoProbe /\ NoStep /\ NoTouch /\ NoPc
       /\ NoCapture /\ NoListen /\ NoPackets /\ NoDex /\ NoSniff
  \/ running = "dex" /\ Dex!Init /\ NoProbe /\ NoStep /\ NoTouch /\ NoPc
       /\ NoCapture /\ NoListen /\ NoPackets /\ NoRecords /\ NoSniff
  \/ running = "sniff" /\ Sniff!Init /\ NoProbe /\ NoStep /\ NoTouch /\ NoPc
       /\ NoCapture /\ NoListen /\ NoRecords /\ NoDex

Next ==
  \/ /\ running = "probe" /\ Probe!Next
     /\ UNCHANGED <<running, touchVars, pcVars, captureVars, listenVars,
                    packetsVars, recordsVars, dexVars, sniffVars>>
  \/ /\ running = "touch" /\ Screen!Next
     /\ UNCHANGED <<running, probeVars, pcVars, captureVars, listenVars,
                    packetsVars, recordsVars, dexVars, sniffVars>>
  \/ /\ running = "capture" /\ Raw!Next
     /\ UNCHANGED <<running, probeVars, stepVars, touchVars, listenVars,
                    packetsVars, recordsVars, dexVars, sniffVars>>
  \/ /\ running = "listen" /\ Loops!Next
     /\ UNCHANGED <<running, probeVars, stepVars, touchVars, captureVars,
                    packetsVars, recordsVars, dexVars, sniffVars>>
  \/ /\ running = "framing" /\ Hdlc!Next
     /\ UNCHANGED <<running, probeVars, stepVars, touchVars, pcVars,
                    captureVars, listenVars, recordsVars, dexVars, sniffVars>>
  \/ /\ running = "records" /\ F3!Next
     /\ UNCHANGED <<running, probeVars, stepVars, touchVars, pcVars,
                    captureVars, listenVars, packetsVars, dexVars, sniffVars>>
  \/ /\ running = "dex" /\ Dex!Next
     /\ UNCHANGED <<running, probeVars, stepVars, touchVars, pcVars,
                    captureVars, listenVars, packetsVars, recordsVars,
                    sniffVars>>
  \/ /\ running = "sniff" /\ Sniff!Next
     /\ UNCHANGED <<running, probeVars, stepVars, touchVars, pcVars,
                    captureVars, listenVars, recordsVars, dexVars>>

Spec == Init /\ [][Next]_vars

\* The probe runs on, and the compositor serves requests and configures a
\* toplevel it was asked for.
Goes(A) ==
  /\ running = "probe" /\ A
  /\ UNCHANGED <<running, touchVars, pcVars, captureVars, listenVars,
                 packetsVars, recordsVars, dexVars, sniffVars>>

\* A listening program runs on, a timer that was set runs off, and time passes.
Listens(A) ==
  /\ running = "listen" /\ A
  /\ UNCHANGED <<running, probeVars, stepVars, touchVars, captureVars,
                 packetsVars, recordsVars, dexVars, sniffVars>>

FairSpec ==
  /\ Spec
  /\ WF_vars(Goes(Probe!Request)) /\ WF_vars(Goes(Probe!Checkpoint))
  /\ WF_vars(Goes(Probe!Loop)) /\ WF_vars(Goes(Probe!Serve))
  /\ WF_vars(Goes(Probe!Configure))
  /\ WF_vars(Listens(Loops!Loop)) /\ WF_vars(Listens(Loops!Alarm))
  /\ WF_vars(Listens(Loops!Clock))

-----------------------------------------------------------------------------
\* wltouch.py: the compositor never has to end the connection: every id is new
\* and the next one, and no buffer comes before its configure.  (wlinfo.py
\* gives an id twice.)  inject_touch.py: whoever reads the touchscreen, and
\* from whenever on, gets whole contacts at the place asked for, each lifted
\* before the next.
NoProtocolError ==
  /\ running = "probe" /\ mode # "info" => Probe!NoProtocolError
  /\ running = "touch" => Screen!TapsArrive

\* wltouch.py: handled, queued and still in the socket, in this order, are all
\* events of the compositor as they were sent.
NothingIsLost == running = "probe" => Probe!NothingIsLost

\* sdpraw.py, sdprawparse.py: whenever a capture is cut off, the parser gets
\* whole batches in the order they were read, and none that was lost; one that
\* was not killed leaves all it read and did not lose, and nothing after it
\* ("so no signal lands mid-write").  The programs that print as they listen
\* show what is due of the frames that came, in order and up to their limits,
\* and only a timer can take a batch away.
CapturesAreWhole ==
  /\ running = "capture" => Raw!ParsedAreRead /\ Raw!NothingIsTorn
  /\ running = "listen" => Loops!ShowsWhatIsDue /\ Loops!OnlyAlarmsLose

\* What is encoded is decoded by every copy of the decoder and of the loop over
\* a batch, find_frame() returns the first packet that starts with the prefix,
\* and both searches for text agree; of the F3 messages in the packets, the
\* arguments, names and hashes are each record's own.
FramesDecode ==
  /\ running = "framing" => Hdlc!ReadersAgree /\ Hdlc!FindsTheFirst /\ Hdlc!TextsAgree
  /\ running = "records" => F3!MessagesAreRead /\ F3!HashesAreRead

\* hidl-from-apk.py: instructions are told from operands and payloads, the code
\* of a method is the constant that is in the register when transact() is
\* called, offsets belong to their fields, and enums have their values.
CodeIsFound ==
  running = "dex" => Dex!WalksInstructions /\ Dex!CodeIsTheConstant
                     /\ Dex!OffsetsAreBefore /\ Dex!EnumsAreExact

\* imssniff.py: no plaintext SIP on the modem's interfaces goes unnoticed that
\* is on the SIP ports, on rmnet_data2 or begins with a method of its list,
\* whatever the options in its headers, and what is shown of it is its text.
\* sipsniff.py prints what is on 5060 or begins with a method of its own list.
PlaintextIsSeen == running = "sniff" => Sniff!PlaintextIsSeen /\ Sniff!SnifferIsExact

\* wltouch.py: the surface gets its buffer although its configure comes while
\* the client waits for a callback.  A listening program ends when its time is
\* over, unless it is one that sleeps in a bare read behind its select().
Progresses ==
  /\ <>(running # "probe" \/ mapped \/ over # "no")
  /\ \/ <>(running # "listen" \/ pc \in {"end", "died"})
     \/ <>[](running = "listen" /\ Loops!Stuck)

-----------------------------------------------------------------------------
\* What is behind the properties of the probes, the touchscreen, the capture
\* and the listening loops.
IInv ==
  /\ running = "probe" => Probe!IInv
  /\ running = "touch" => Screen!IInv
  /\ running = "capture" => Raw!IInv
  /\ running = "listen" => Loops!IInv
=============================================================================
