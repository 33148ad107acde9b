# Verification of karatep-port

TLA+ models of the scripts in `src/scripts`, the model-checking runs over
them, and machine-checked proofs about seventeen of the modules. The scripts
build, install, configure and examine a Sailfish OS port for one phone. They are
shell and Python programs that are run by hand, talk to a phone, a modem or a
compositor that may be late, silent or rebooting, and change things that are
expensive to get wrong: a source tree full of unpublished patches, the boot
partition, the modem's own storage, the carrier configuration.

Nearly every program here is sequential. What makes them hard is the other
side: answers that come late and carry no tag of their request, signals and
kills between any two commands, a step that fails without anybody looking at
its status, files left by an earlier run, and the order in which an operator
runs the scripts. The models keep all of that and abstract the data.

Contents: [components](#components), [modules](#modules), [abstract
specifications](#abstract-specifications), [runs](#runs),
[fairness](#fairness), [proofs](#proofs), [disagreements with the
documents](#disagreements), [what is not modelled](#not-modelled),
[plan](#plan).

## Components

**State** is what outlives a command, **operations** are what the actions
model, **correct** is what the properties say.

### Building

*LineageOS recovery build* — `build-los-recovery.sh` builds a recovery from
the unpatched tree: the projects the hybris patch series touch are checked out
at the manifest revision, built, archived, and put back by an EXIT trap.
State: the heads and local changes of each project, the state file with the
recorded heads, the archive. It shares the tree with the developer, who
commits between runs, and with every other build. Hard: a kill (no trap), a
checkout that git refuses, and the next run over what is left. Correct: no
patched head is ever lost; success means the tree is home; nothing is
archived from a patched tree.

*Build pipeline* — `build-hal.sh`, `build-hal-packages.sh`,
`install-clean-updater.sh`, `build-image.sh`, `stage-boot-img.sh`,
`sign-installer-zip.sh` pass artefacts along through `out/`, a package
repository and an image directory. There is no dependency tracking: the order
is the operator's. Hard: guards that look at another file than the one that
ships, and files left from an earlier build. Correct: an image reported good
holds the clean updater and, when the documented scripts are used, the
modules of the kernel in `out/`; the boot image is not older than the modules.

### Installing

*Network installer* — `flash.sh` live-boots a recovery over fastboot, bounces
the phone if it went on into an installed system, serves the images over HTTP
and drives a list of commands over telnet. State on the host: its address,
the server, the outcome; on the phone: mode, flag, mounts, rootfs, staged
image, boot partition. Hard: every command can fail with nobody reading its
status, the address changes over a bounce, a dead run leaves a server, a
mount, a flag or half a tree behind. Correct: boot is written only over a
tree that passed the check; success was read back; a repeated run recovers.

*Zip installer* — `update-binary`, run by the recovery; mount, unzip and rm
unchecked, tar and dd checked, no read-back. Same promise about the order.

*Debug shell client* — `devshell.py`, a command between two markers over a
telnet shell that echoes what is typed. Hard: chunks of any size, silences,
echoes of the markers. Correct: a return at the end marker has the output.

### The modem's diagnostics port

*DIAG client* — `diagefs.py`: requests and replies over `/dev/diag`, HDLC
framing, EFS file reads in blocks. A reply names its command and not its
request; each is waited for four seconds. *EFS item writer* — `efswrite.py`.
*EFS listings* — `diagwalk.py`, `diagls2.py`, `diagcat.py`. *Subscription
comparison* — `subdiff.py`. *DIAG capture* — `sdpraw.py` with
`sdprawparse.py`, which also raises the log masks. *F3 message masks* —
`diag/f3probe.py`, `qmi/f3probe.py` and `diagpeek.py --raise` read the ranges
of subsystems, raise their levels and listen; the first lowers them again.
*Listening loops* — those three, `sdpwatch.py`, `sdpdump.py`, `diagsip.py`,
`diagdump.py`. Each is a client of the same channel; the port has one client
at a time. State: the modem's queue, the replies not yet read, the EFS, open
descriptors; in the client, its position and what it has read. Hard: a late
answer taken by the next request with the same command; a read that ends early
and looks like a short file; an alarm at any instruction; a read that the
driver never wakes. Correct: an item is changed only towards the new value and
keeps its length; a listing invents nothing; a capture holds whole batches in
order and a listener shows what is due; masks that were raised come down; what
is encoded decodes to itself.

*Decoders* — eight copies of the HDLC decoder and of the loop over a batch;
`f3parse.py` and `f3probe.py` for F3 records; `hidl-from-apk.py`, which
recovers transaction codes, field offsets and enum values from the
instructions of a DEX file. There is no other actor. Hard: the copies differ,
lengths come from the data, a conversion may or may not consume an argument.
Correct: what was encoded is what is read.

*IMS sniffers* — `imssniff.py`, `sipsniff.py` look for SIP in packets of raw
IP and of Ethernet. Hard: header lengths vary, and each program knows other
methods. Correct: plaintext SIP of a method a program knows is seen.

### QMI services

*QMI client* — `qmiims.py`: requests over the IPC router, matched by message
and transaction id. *QMI settings* — `setprovvolte.py`, `smsdomain.py` set a
flag whose tag is unknown by trying the plausible ones and reading back. *QMI
sweeps and probes* — `qmiims.py`'s get, set and sweep, `wmsprobe.py`,
`bindprobe.py`. Hard: a call that timed out may still be carried out, and
answered while another one waits; an answer may be longer than the buffer.
Correct: a result is credited to the request that caused it; what a read-back
shows was the value at that time; with every answer in time, what is said is
true.

### Experiments on the phone

*Experiments with a restoring trap* — `cfgdial.sh`, `sipext.sh`,
`codeclist.sh`, `incodec.sh`, `f3reg.sh`, `f3in.sh` swap a plugin, a
preference or an EFS item, place calls, capture, and put everything back from
a trap on EXIT, INT and TERM. The trap does not exit, so after a signal the
body goes on behind it. Hard: signals anywhere, in restore() too; background
jobs whose pid is not stored yet. Correct: when the shell is gone, the phone
is as it was, but for a restoring command that itself failed. *Config swap* —
`cfgswap.sh` keeps the old item in a file and has no trap; what a refused
length means depends on `efswrite.py`'s own read.

### Carrier configurations

*Staging and selection* — `stage-rjil.sh`, `stage-retargeted.sh`,
`restore-row.sh` refill the directory qcril reads and restart rild; qcril's
database outlives that. *Repacking* — `patch-mbn-ims.sh`,
`mbn-import-items.sh`, `mbn-set-regonmode.sh` extract, edit, bump three copies
of a version, pack, read back. *Byte editors* — `patchitem.py`, `retarget.py`.
*Listings* — `mbnitems.py`, whose walk over a config's records feeds the
others. *NV comparison* — `nvsweep.sh`. *Batch alignment* — `batchalign.py`
and `lastalign.py` overwrite items after appending the originals to a file.
Hard: stale rows, versions the modem already runs, an input replaced before it
is verified, four version bytes that also occur elsewhere, kills with the
backup still in a buffer. Correct: what was reported as written is in the file
and differs nowhere else; the last edit outranks what the modem runs; every
changed item's original is on record.

### Waydroid

*Wayland probes* — `wltouch.py`, `wlinfo.py` speak the wire protocol with no
library. Hard: events that arrive while the client waits for a callback.
Correct: no protocol error, no event lost or overtaken, the surface maps.
*Virtual touchscreen* — `inject_touch.py` taps through uinput, behind an input
core that drops what does not change. Correct: a reader gets taps whole.
*Installers* — `install.sh` puts preserved images back after a reflash,
`install-hwc-overlay.sh` replaces a library through an overlay that an earlier
session may have merged. Correct: a first run loses no image; a library
installed is the one the next session takes.

`PROJECT.json` lists the remaining components, the ones left out among them,
and the hazards of the code line by line with the properties aimed at each.

## Modules

| module | models | how state and actions correspond |
|---|---|---|
| `LosRecovery` | `build-los-recovery.sh` | `head`, `own`, `dirty`: git; `stateFile`: `$STATE`, a line per project; one action per command and loop iteration, with its failure; `EnterTrap` is every exit once the trap is set |
| `Flash` | `flash.sh` | `pc` names the command that is next; host, phone and disk variables; each command that can fail has a branch that costs one of `MaxFaults`, `Die` is `die` with the trap |
| `ZipInstall` | `update-binary` | one action per command; with `/data` unmounted the tree lands in `inMemory` |
| `BuildPipeline` | the six build scripts | a revision stands for a kernel source; `ByHand` adds the single steps an operator can also run |
| `DevShell` | `devshell.py`, `run()` | `sent`/`received` are lines, delivered in chunks; `Result` is what `run()` cuts out |
| `DiagChannel` | `diagefs.py`, transport; the modem's EFS from its use | `Ask`, the modem's handlers, delivery in order, `timeouts` for an answer after its deadline |
| `EfsRead` | `read_file()` | open, block, close; each client conjoins what it does with the result, so that it runs in line |
| `EfsWrite` | `efswrite.py` | read, the three refusals, chunks, read-back |
| `EfsWalk` | `diagwalk.py` | the recursion as a stack of directories |
| `EfsDiff` | `subdiff.py` | reads of the two twins and the comparison |
| `MsgMasks` | both `f3probe.py`, `diagpeek.py --raise`: the message masks | `todo` is the requests left, `reports` pairs each with what was taken for its answer, `mask` is the modem's |
| `Listen` | the loops of seven listeners | one program per behaviour; `armed` and `left` are its timer and its time, `woken` the driver's word, `lost` what an alarm took |
| `LogMasks` | `sdpraw.py`, raising masks | one request per equipment id, then the message masks |
| `Capture` | `sdpraw.py`, the loop; `sdprawparse.py`, `batches()` | arm, read, disarm, header, body; `Alarm` fires anywhere between arm and disarm; when the program is gone a parser reads header and body by turns from what is on disk |
| `DiagFrames` | CRC, HDLC, all decoders and batch loops, `find_frame`, the text searches | a packet grows; an exclusive or flips the bits of a number one by one |
| `F3Records` | `f3parse.py`, `f3probe.py`'s `decode()` | a message grows; a packet is a sequence of cells, a conversion is one |
| `DexCode` | `hidl-from-apk.py` | a file grows by an instruction or a static field |
| `Sniffers` | `imssniff.py`, `sipsniff.py` | packets are sequences of bytes; what each program counted, kept and printed of them |
| `Experiment` | the six scripts | a script is a sequence of commands; `stack` holds the body and the restores inside it; a signal pushes one |
| `ConfigSwap` | `cfgswap.sh` over several runs | the item and the backup file outlive a run |
| `QmiClient` | `Imss.call()` | transaction ids, one call at a time, late and lost answers |
| `QmiSetting` | `setprovvolte.py`, `smsdomain.py` | what a tag means to the modem is chosen at the start |
| `QmiSweep` | `qmiims.py` get, set and sweep, `wmsprobe.py` | what each message answers is chosen at the start; `parse_tlvs` cuts an answer where the buffer ends |
| `QmiProbe` | `bindprobe.py` | `todo` is the list of probes; what the modem accepts and who binds is chosen at the start |
| `WaylandProbe` | `wltouch.py`, `wlinfo.py` | two streams; a program is a sequence of requests and checkpoints, then the event loop; the compositor is modelled from the protocol the client implements |
| `TouchInjector` | `inject_touch.py` | `step` counts the events of the script; `axes` and `changed` are the input core's |
| `WaydroidSetup` | the two installers | a session merges the overlay and leaves alone what is there |
| `McfgStage` | the three staging scripts and qcril's pick | `table` is qcril's database, rebuilt at boot only |
| `McfgEdit` | the three repackers and the version gate | `disk` is the files, `out` the packed config; the packer may lose an item |
| `McfgRaw` | `patchitem.py`, `retarget.py` | payload of eleven bytes, three version copies, a field |
| `McfgListings` | `mbnitems.py`'s walk, what its readers take from it, `nvsweep.sh`'s classification | a config grows by a record and is laid out as bytes |
| `BatchAlign` | `batchalign.py`, `lastalign.py` over several runs | `aligner` is the program, `saved` on disk, `buffer` in the process |

`PROJECT.json`'s `map` gives the lines of every definition. Definitions called
"Faulty variant" are not used by any action: each is a plausible bug, and the
project records which property it breaks when it replaces the definition it
varies. `MCInstall_proofs`, `MCConfigs_proofs`, `MCExperiments_proofs`,
`MCModem_proofs`, `MCModemInTime_proofs` (which extends it) and
`MCObserve_proofs` hold the theorems, each about the module it is named for;
those about `LosRecovery` and `Flash` are at their ends (see
[proofs](#proofs)).

The actions that stand for a person or a device are named for it: `Commit`,
`Edit` and `RestoreByHand` in `LosRecovery`, `EnterFastboot`, `LinkMoves` and
`KillOrphan` in `Flash`, `Modem...` in the QMI and DIAG modules, `Serve`,
`Configure`, `Ping`, `Touch` in `WaylandProbe`, `Sends`, `Wakes` and `Clock`
in `Listen`, `Open` in `TouchInjector`, `Select` and `Boot` in `McfgStage`.

### The MC modules

`LosRecovery` and `Flash` are checked as they are. The other programs are
instances in five modules, one per family, whose constants the `.cfg` files
set:

- `MCModem`: what asks the modem (the EFS writer, the comparison, the walk, log
  masks, message masks, settings, `bindprobe.py`, sweeps);
- `MCObserve`: what watches (Wayland probes, touchscreen, capture, listening
  loops, framing, F3 records, DEX code, sniffers);
- `MCInstall`: what brings the system onto the phone (build scripts with and
  without hand-run steps, zip installer, Waydroid installers, debug shell);
- `MCConfigs`: carrier configs and items (staging, repacking, byte edits, both
  aligners undisturbed and disturbed, the NV comparison, the listing);
- `MCExperiments`: the six experiments and the config swap.

The variable `running` says which program a behaviour is about, its instance's
next-state relation drives the variables, and those of the others hold the
value `Unused`. That is a disjoint union of state machines, not an
interleaving, and it is what the code allows: the diagnostics port, a QMI
client, a capture and an installer each have a single user. Where two actors
do interleave (script and modem, script and phone, client and compositor,
shell and signal), they are both inside one module. Properties of the family
modules name the program they are about and the module's own definition;
nothing is restated.

## Abstract specifications

- `ParkedTree`: a project may be away from the developer's head only while
  that head is on record. `LosRecovery` implements it (`ParkedSpec`, with
  `away` and `onRecord` computed from heads and state file); checked and
  proved.
- `InstallOrder`: the boot partition changes only over a tree the installer
  accepted, and never together with the tree. `Flash` implements it with "has
  the five directories" (`OrderSpec`, checked and proved), `ZipInstall` with
  "was extracted whole", over the tree under `/data` wherever that is
  (`OrderSpec` of `MCInstall`, checked and proved).
- `ItemUpdate`: an item changes unit by unit towards the new value, keeps its
  length, and success means it begins with the new value. `EfsWrite`
  implements it over the modem's copy (`UpdateSpec`, checked and proved).

## Runs

Twelve, seven that pass and five that end in a violation the documents rule
out. States are distinct states.

| run | states | what it shows |
|---|---|---|
| `los` | 68 k | `LosRecovery` over three projects: heads are never lost, success means home, the archive is clean, the inductive invariant of the proofs holds, the script implements `ParkedTree`, and every run that is not killed comes home or fails with its record kept |
| `los_rerun` | – | a run started over a left-over state file loses heads |
| `flash` | 54 k | `Flash` from an installed or empty phone: order, read-back, the server's life, a fault-free run succeeds, repeated runs succeed in the end, the inductive invariant |
| `flash_extracted` | – | a download cut after the five directories exist is flashed over |
| `modem` | 1.12 M | everything that asks the modem: EFS clients, masks, QMI settings, sweeps and probes, with late, lost and failing answers |
| `efswrite_size` | – | a value of another length is written when a block is late |
| `experiments` | 99 k | the six experiments and `cfgswap.sh` |
| `swap_stale` | – | a rollback writes an earlier run's backup |
| `configs` | 2.17 M | staging, repacking, byte edits, both aligners, the NV comparison, the listing |
| `observe` | 357 k | Wayland probes and touchscreen, capture and listening loops, sniffers, decoders |
| `install` | 29 k | build scripts, zip installer, Waydroid installers, debug shell |
| `f3_render` | – | an integer behind a `%s` is printed with another argument's value |

### What the properties say

*Recovery build.* `Recoverable`: at every instant each project is where the
developer left it or that commit is on record. `SuccessMeansHome`,
`ParkedSpec`, `RunBringsTreeHome` (once the trap is armed a run that is not
killed ends with the tree home, or with a refusal, status 1 and the record
kept). `IInv` contains these, the type invariant and `ArchivedFromParkedTree`:
both halves of the archived pair come from a tree without patches.

*Network installer.* `OkIsReadBack`, `OrderSpec`, `FaultFreeRunSucceeds`
(whatever address the link comes back with), `RetriesInstall` (whatever failed
runs left behind, repeating succeeds). `IInv` contains the type invariant,
`OkIsReadBack` and what implies `ServerDiesWithItsRun` and
`FaultFreeRunSucceeds`.

*What asks the modem.* `UndisturbedIsExact`: with no fault the writer writes or
refuses, the comparison is exact, the walk complete, and a listener has raised
every mask. `InTimeIsRight`: with errors but no late answer every descriptor is
closed, no item without a twin is hidden, nothing is listed that is not there,
the reports of both kinds of masks are exact, "unchanged" is true, the binder
is found, a sweep is complete. `UpdateSpec`: whatever happens, late answers
too, an item changes towards the new value only. `MasksComeDown`: a probe that
comes to its end has lowered what it raised, late answers or not, and never
touched a mask outside its ranges. `AnswersAreTheirOwn` holds with late and
lost answers, because a QMI reply carries its transaction: no result is
credited to another request, a read-back shows a value the setting had while it
was asked, and what a sweep lists was answered. On the diagnostics port late
answers do break the first two, because nothing in a reply says which request
it answers; see the disagreements.

*What watches.* `NoProtocolError`: the compositor never has a reason to
disconnect, and a reader of the touchscreen gets whole contacts and lifts,
whenever it opened the device. `NothingIsLost`: no event is lost or overtaken
by the wait for a callback. `CapturesAreWhole`: the parser gets back the
batches that were read, none torn; a listener shows what is due up to its
limit, and only alarms lose frames. `FramesDecode`, `CodeIsFound`,
`PlaintextIsSeen`: the decoders against reference definitions over all small
inputs, and the copies against each other. `PlaintextIsSeen` says what
`imssniff.py` may leave unseen: a method that is not in its list, off the SIP
ports and not on `rmnet_data2`; and of `sipsniff.py`, whose list is shorter,
what it prints. `Progresses`: a probe's surface maps
or the program ends; a listener ends unless it sleeps for ever in a bare read
behind `select()` (`Stuck`).

*Experiments.* `RestoredAtEnd`, `RestoresAlone` (the script's own capture is
stopped before anything is put back), `DialsOnIdleLine`, `Ends`;
`SwapIsRecoverable` for the swap: an item that was read whole can be put back
from the file at any point; one that was read in part is changed only if
`efswrite.py`'s own read is cut to the same length (`cut`), because a prefix is
otherwise refused.

*Configurations.* `RestoreAfterRebootPicksRow`; `WrittenIsAsked` (what a
repacker or a byte editor reports as written is in the file and nothing else
differs); `LatestOutranks`; `Reversible` and `KeepsRecords` for the aligners;
`ReportsDisagreement` (the comparison names every disagreement, the listing
every item).

*Installing.* `ImageIsFromThisBuild` (with the boot image not older than the
modules), `OrderSpec` for the zip, `EndMeansAll` for the shell,
`FirstRunKeepsImages` and `InstalledIsTaken` for Waydroid: a library that was
installed whole is what the next session runs with, also when the old session
could not be stopped, unless a session started, and merged the old library,
between the removal of the merged copy and the move (`early`).

The modules define these as named parts; a family module conjoins the parts
that ask the same question of several programs. `TypeOK` is stated in every
module with state.

### Bounds, and why they are enough

- `los`: three projects, so that parking and restoring can each stop at the
  first, at a middle and at the last one; two kills, so that a kill can hit a
  later run as well; two local changes or commits, so that one refused
  checkout can be followed by a second. `los_rerun` needs two projects and one
  kill.
- `flash`: three faults are one more than the longest chain the script itself
  survives (a bounce that goes wrong, then a bad transfer, then a bad write);
  one kill leaves the orphaned server; two addresses tell a stale one apart.
- `modem`: items of up to two blocks with a rest, reads and writes in chunks
  that do not divide the item, two late answers and two errors (one of each
  can hide the other; one error for the message masks), a tree with a
  directory between two files and a file above the size limit; two ranges of
  subsystems, one of them longer than a slice, and lists of ranges that
  overlap or come in another order; for QMI two late answers and one lost,
  every meaning of the tags, every binder, answers whose TLVs are reordered,
  short, or cut by the buffer. `TxnLimit` is above what these programs send.
- `experiments`: two signals, so that one can come while `restore()` runs for
  another; one failing command, anywhere. The swap: three runs, so that a
  backup can be older than the previous run.
- `observe`: two configures and a ping that can come at any moment, two
  touches for order; three taps, so that one lies between two; three batches,
  and three frames, of a code one more than is shown, around alarms. The codec
  over every packet of up to four of the bytes that matter: flag, escape, what
  an escaped escape becomes, and a plain one that is an F3 record's type. F3
  messages of four cells and three arguments, one above their limit. DEX
  methods of three instructions (a constant, another over it, a use) and three
  fields. Every two packets of the kinds the sniffers tell apart (interface,
  link, version, extension header, protocol, port, options, method and length
  of the text), of which one is kept.
- `configs`: versions up to 3, so that chains of edits reach the refusal at
  the last one; bytes 0 to 2 in the free places of the payload, so that every
  accidental occurrence of the version can arise; three items without and two
  with disturbance; three configs tell "all", "several" and "one" apart; three
  records, one before and one behind the one that ends a walk early.
- `install`: three revisions of the kernel (two with hand-run steps and two
  failures), four failures of the zip installer over any number of attempts,
  two runs of each Waydroid installer, because the second one finds what the
  first left, five lines of output in every division into chunks.

Deadlock is checked for `los` and `los_rerun`, whose developer can always
start another run. The others turn it off: a program ends, an installation is
done and nobody repeats it, or a bound is reached.

`los` uses no symmetry, because it checks liveness; `flash_extracted` uses it
for the addresses, which only its invariant sees.

## Fairness

- `LosRecovery`: weak fairness of the script's steps. Bash runs the next
  command; git and make return. Nobody has to start, edit, interrupt or kill.
- `Flash`: weak fairness of the script, of the operator repeating a failed
  run, and of the operator putting a phone that is off into fastboot. Strong
  fairness of `KillOrphan`: the script tells the operator that the port is in
  use, and after enough of those the old server is killed; with weak fairness
  it would not have to happen, because a further attempt disables it while
  it runs. Without the operator no retry can succeed, and `RetriesInstall`
  is about retries.
- `Experiment`: weak fairness of the shell and of the capture, which has a
  deadline of its own. The logcat job has none: that is why `Ends` is worth
  checking for a script that waits.
- `WaylandProbe`: weak fairness of the client and of the compositor serving
  requests and configuring a toplevel, both of which the protocol demands;
  none of pings, touches or further configures.
- `Listen`: weak fairness of the loop, of a timer that was armed, and of the
  clock. Nothing about the modem, which may be silent, and nothing about the
  driver's wake-ups: that is why a bare read may last for ever.

No other module states fairness and no other property needs it.

## Proofs

The following theorems hold for any sets of projects, commits and addresses,
any items, values, arguments, lists of ranges and messages, any numbers of
items, runs, taps, batches and frames, and any bounds on faults, signals,
revisions and late or lost answers.

| theorem | states |
|---|---|
| `LosRecovery!Invariance` | `Spec => []IInv` |
| `TypeCorrect`, `HeadsAreNeverLost`, `SuccessIsHome`, `ArchiveIsClean` | `TypeOK`, `Recoverable`, `SuccessMeansHome`, `ArchivedFromParkedTree` |
| `LeaseIsKept` | `Spec => ParkedSpec` |
| `Flash!Invariance`, `TypeCorrect` | `Spec => []IInv`, `[]TypeOK` |
| `SuccessIsReadBack` | `OkIsReadBack` |
| `ServerIsReaped` | `ServerDiesWithItsRun` |
| `NoFaultNoFailure` | `FaultFreeRunSucceeds` |
| `OrderIsKept` | `Spec => OrderSpec` |
| `MCInstall_proofs!Invariance` | `Spec => []IInv` |
| `ImageBelongs` | `ImageIsFromThisBuild` |
| `OrderIsKept` | `Spec => OrderSpec`: the zip installer implements `InstallOrder` |
| `EndIsAllPrinted` | `EndMeansAll` |
| `ImagesAreKept`, `NewLibraryIsTaken` | `FirstRunKeepsImages`, `InstalledIsTaken` |
| `MCConfigs_proofs!Invariance`, `TypeCorrect` | `Spec => []IInv`, `[]TypeOK` |
| `RestorePicksRow` | `RestoreAfterRebootPicksRow` |
| `WrittenIsWhatWasAsked` | `WrittenIsAsked` |
| `LatestIsLoaded` | `LatestOutranks` |
| `OriginalsAreKept`, `RecordsAreKept` | `Reversible`, `KeepsRecords` |
| `MCExperiments_proofs!Invariance` | `Spec => []IInv` |
| `PhoneIsRestored` | `RestoredAtEnd` |
| `RestoresOnItsOwn` | `RestoresAlone` |
| `LineIsIdle` | `DialsOnIdleLine` |
| `SwapCanBeUndone` | `SwapIsRecoverable` |
| `MCModem_proofs!Invariance` | `Spec => []IInv` |
| `WriteIsUpdate` | `Spec => UpdateSpec`: the item writer implements `ItemUpdate` |
| `OwnAnswers` | `AnswersAreTheirOwn` |
| `ProbeComesDown` | `MasksComeDown` |
| `MCModemInTime_proofs!InTimeHolds` | `Spec => []InTimeIsRight` |
| `MCObserve_proofs!Invariance` | `Spec => []IInv` |
| `NoProtocolErrorHolds`, `NothingIsLostHolds`, `CapturesAreWholeHolds` | `NoProtocolError`, `NothingIsLost`, `CapturesAreWhole` |

The properties on the right are those the runs check, in the same words.

Assumptions: `ConstantsAssumption` of each module. In `LosRecovery` it says
that the manifest's revision is a commit and the marker for "no line" is none,
in `Flash` that the link has some address; bounds are naturals, and where
revisions are counted there is at least one. In `MCModem` items, values and
the list of messages are sequences, the marker for "no value" is no value to
write, an argument is a list of pairs of naturals, an answer a list of TLVs,
and at least one transaction id exists; `subdiff.py` found some item, every
name a directory lists is a file or a directory, none is both, and there is a
root; no equipment id is the marker `sdpraw.py`'s model uses for all messages;
and no setter of `bindprobe.py` is one of its internal ids or 0x90, as its two
lists are. In `MCObserve` the modes are the three
there are, a read that returns something returns at least a byte, a limit is at
least one, and taps, times and numbers of frames are naturals. `LosRecovery`
also needs
`Disciplined`: no run starts over a left-over state file. That is not for
convenience: without it the theorem is false, as `los_rerun` shows. What else
a property needs is in its statement, where the runs use it as well:
`Reversible` is about aligners whose reads are whole and that nobody kills.

In a family module the invariant says of each program: while it is the one
that is running, its module's `IInv` holds. `OwnSteps` lemmas say that the
running program never changes and that each step of the family is a step of
that program's module; for every module there is a lemma that its start
establishes `IInv`, one or more that its steps keep it, and one that `IInv`
implies the property.

The inductive invariant of `LosRecovery`. `Recoverable` alone is not
inductive: `Truncate` empties the record, so nothing may be away then
(`HomeBeforeTrap`); parking moves a head, so its line must be there and right
(`RecordGrows` while recording, `RecordComplete` from the trap on); a line kept
from an earlier run must still be about the commit the developer left
(`RecordIsTrue`). `SuccessMeansHome` needs to know how far `restore()` is
(`RestoreProgress`), and `ArchivedFromParkedTree` needs `ParkProgress` and
`BuiltFromParkedTree`. The proof treats types first (`TypeKept`), then the
facts (`FactsKept`), one step per action. `LeaseIsKept` follows from the
invariant before and after a step: a step moves one head, rewrites the record,
or is invisible to `ParkedTree`.

The inductive invariant of `Flash`. Writing boot is three commands away from
the check of the tree; `CheckedTree` carries its result to the write,
`StagedImage` that there is something to write, `CheckedBoot` the read-back's
result to the end, and `OkRests` keeps a result from being about a phone that
another run is changing. `OursRuns` and `OrphanOfAKill` say whose the HTTP
server is: "no server while idle" alone would not survive a kill.
`NothingFailed` says, as long as nothing went wrong, what each command finds:
the phone in the mode the script takes it to be in, its present address, the
server, and what the command before left; it excludes every die.

Experiments. A restore may be interrupted by another signal, and be on the
stack several times, each at its own command. `ExitRestores` says that
whatever is not as it was will be put back by a command that some `restore()`
on the stack still has before it, or the last attempt at it failed;
`NextUndoes` that a call, a job whose pid is not stored yet and being offline
last one command of whoever began them, unless undoing them failed;
`OnlyWhatIsRestored` that nothing else is disturbed; `NothingBeforeTrap` that
the phone is untouched until the trap is set, because a signal before that
ends the shell without a restore; `PassedKills` that a restore that is past
its kills has no capture beside it. `ConfigSwap`: `ReadFirst`, what each
outcome of the read leaves in item and file, and that a prefix in the file is
written only over an item of which no more was read.

The item writer. The channel answers in order but a reply names no request, so
the invariant counts: `OneAtATime` says that at most one open and one write
and, before the write, one read are under way, on the way there or back. A
reply to one of them is then the reply to the present one, late or not, as
long as a client that gave up on one sends no other of the kind.
`DescriptorsInUse` says what descriptors those requests name, `ReadIsBegin`
that what was read before the write is how the item begins, as far as the
replies under way say so too, and `WrittenBegins` that the item begins with
the part of the value that was acknowledged or is about to be. After the write
the read-back may give up and reads may pile up; nothing is written then, and
`Stages` says so. The refinement follows step by step from the invariant: only
the modem's write changes the item, with one part of the value, at an offset
inside it.

Message masks. `MasksComeDown` is about the moment the last request was
carried out. Its strengthening speaks of the requests under way: once the
lowering began, each mask that was asked for is down, or will be by a request
still in the modem's queue with nothing behind it that raises it (`Down`), or
its request is not sent yet (`Unsent`).

Answers in time. `InTimeIsRight` speaks of what a program has collected, so
each program's `InTime` ties that to what it has asked: unless a receive timed
out, at most one request is under way, it is the one the program's present
step sends, and a reply that waits is the reply to it. Then a twin of which
`subdiff.py` holds anything is there; `diagwalk.py` is in a directory that is
there, at an entry of it, holds the first blocks of the file it reads, and each
line it printed is right; of the masks `sdpraw.py` has asked for, what it noted
is raised and the rest was refused; the levels `diag/f3probe.py` holds are those
of the range it is at; what `setprovvolte.py`, `bindprobe.py` and the sweep have
noted is what the modem said to each try so far. `efswrite.py` accounts for each
descriptor the modem opened: it is closed, or the one in use. A receive that times out ends the promise
for the rest of the run, which is how the properties are stated.

Wayland probes. The two streams and the queue are accounted for as a whole:
`StreamsOK` says what may be in each of them, `OneSync` that at most one
callback is under way, as a request or as an event, and that it is the one
waited for; `IdsFollow` that the ids in the requests on their way continue
those the compositor has seen, one by one; `AcksGoFirst` that an
acknowledgement is of a configure that was sent, and that a buffer on its way
has one ahead of it or accepted already.
`NothingIsLost` had to say where each event is: those handled are the first
ones, those queued the next, those in the socket the rest.

Touchscreen. `AxesFollow`: between two events of a tap, which value each axis
has in the input core and which of them changed since the last report, as a
function of how far the tap is (`Place`); a report is then whole, whatever was
there when the reader opened the device.

Capture. `FileIsRow`: every cell of the file is the time, the length or the
data of the batch whose header precedes it, and a header without its body is
the last thing there; `AllAccounted`: each batch is in the file, in hand or
lost; `AlarmsAreEarly`: no alarm is armed once a header is begun, so none
comes between a header and its body. `ParserFollows`: the parser is at the
begin of a batch or behind a header, and what it has returned are the batches
before that.

Listening loops. `Numbered` ties the batch in hand to the frames that came;
`Counted` says that of what is limited as many have been shown as came, up to
the limit; shown is then what is due among the frames the loop has had, which
at the end of a batch are all.

QMI. `IdsAreFresh` (only what belongs to the pending call has its id: ids
count up, and one that does not fit its two bytes is an exception), `AnswersTheCall` (a reply
with that id says what that call did, or for a read-back a value the setting
had since), `CallIsAwaited` (the pending call is of the program's present
step), `WriteComesFirst` for a sweep that sets before it gets.

The others, each with what its property forgets. `BatchAlign`: `HeldIsRead`
(the value in hand was read of this item), `NothingGrows` (a longer donor
value does not get past the comparison of lengths) and `RecordedFirst` (the
write has its record). `McfgStage`: `OnlyRestored` says what is staged, in
qcril's table and picked while only `restore-row.sh` has staged since the
boot; the copy loop needs `StagedSince`. `McfgEdit`: `Extracted` says that
the working directory lists the items it has, `Ahead` that the version in hand
is above the one the modem runs before it replaces the latest config. `McfgRaw`: `VersionStands`, the three copies stay at
their places whatever else is replaced, and `StepByStep`, how many of them are
bumped. `BuildPipeline`: `BootIInv` (the boot image carries a revision that is
not older than the packaged modules, at each step of the scripts) and
`CleanIsPackaged`. `ZipInstall`: `CheckedTree` carries tar's status to dd.
`DevShell`: `EndIsAll`, what of the received lines the end marker implies.
`WaydroidSetup`: `ImagesKept` says where the images are at each step of a
first run, `MergedIsNew` that nothing is merged between the removal of the
merged copy and the move unless a session starts then (`early`), and that
otherwise only the new library can have been merged after a whole install.

Only model-checked: all liveness (`RunBringsTreeHome`, `RetriesInstall`,
`Ends`, `Progresses`), which the prover does not reach; `TypeOK` and
`UndisturbedIsExact` of `MCModem`; `ReportsDisagreement` of
`MCConfigs`; `FramesDecode`, `CodeIsFound` and `PlaintextIsSeen` of
`MCObserve`. `McfgListings`, `DiagFrames`, `F3Records`, `DexCode` and
`Sniffers` compute over data by folds, whose results for every input need an
induction the prover lacks.

## Disagreements

Five are shown by a run of their own:

1. **A second run over a left-over state file loses heads** (`los_rerun`).
   `build-los-recovery.sh:64` truncates the record of a run that was killed
   while parked, and lines 65-67 record what is checked out, the manifest
   revision. `docs/los-recovery.md:55` says restoring is still correct if
   parking died half-way.
2. **Boot is flashed over an incomplete root file system**
   (`flash_extracted`). The status of `wget | tar` (`flash.sh:284`) is ignored
   and only five directory names are compared; `flash.sh:13` says it refuses
   unless the rootfs extracted correctly.
3. **A value of another size is written** (`efswrite_size`). `read_file()`
   (`diagefs.py:230`) returns a prefix when a block does not come in time, and
   `efswrite.py:66` compares lengths with that;
   `docs/rca/volte-registration-change-is-test-mode.md:2803` says it refuses
   another size.
4. **A rollback restores another run's value** (`swap_stale`). A failed read
   leaves an old backup file, which passes the test at `cfgswap.sh:47`; line
   27 says the value is the one read back before the write.
5. **An integer is printed with another's value** (`f3_render`). `render()`
   (`f3parse.py:163`) leaves a `%s` alone and takes no argument for it,
   although the record has one; lines 25-26 say that integer arguments are
   exact.

Others were met while modelling. The modules do what the code does; the
properties that the documents suggest are stated with the condition under
which they hold, or not at all:

- `update-binary` reports success when mount failed and everything went to the
  recovery's memory, and when unzip wrote half a boot image.
- `subdiff.py` counts two items whose reads fail as an identical pair;
  `TwinlessIsShown` and `FaultFreeIsExact` say what remains true.
- `sdpraw.py` credits a late success to the next equipment id; the report is
  exact only while answers come in time (`ReportIsExact`).
- `diagefs.py:102` says a command code "is the first byte and is never an
  escaped value"; `sdpraw.py` waits for 0x7D, the escape byte, which is found
  because it is compared with itself.
- `setprovvolte.py` says "provisioning unchanged" after timeouts as well, when
  a set may still have been applied, and it tries tags that may be other
  flags; `UnchangedWhenSaid` holds when every answer came in time.
- `bindprobe.py` retries the failing ids with a selector, and that list
  contains the setter 0x8f.
- A QMI sweep over all ids reaches the two bytes of the transaction id; the
  pack of 65536 raises.
- `wltouch.py` announces in xdg mode that the surface is mapped before it has
  attached a buffer, and `wlinfo.py` gives one id twice, which is why
  `NoProtocolError` leaves that mode out.
- A second run of `waydroid/install.sh` removes what the first one restored;
  `FirstRunKeepsImages` is about the first.
- Removing the library from the overlay does not bring the stock one back
  (`install-hwc-overlay.sh:7`): the copy a session merged stays.
- `build-image.sh` skips its guard when there is no clean updater to compare
  with, and takes any rootfs younger than thirty minutes for the one it made;
  `ImageIsFromThisBuild` says what its guard does ensure.
- `stage-rjil.sh` goes on to restart rild when its embedded program stopped
  half way.
- `devshell.py` takes a silence for the end when the echoed marker has come;
  `EndMeansAll` is about returns at the end marker.
- `nvsweep.sh` has a list "UNANIMOUS" that no item can enter: values that all
  agree and differ from the modem's are in the list tested before.
- `batchalign.py` buffers its backup while it writes; a kill in between loses
  originals. `Reversible` is about runs that are not killed, `KeepsRecords`
  about all. Neither aligner looks at the errno of a write answer: only the
  read-back tells.
- `lastalign.py` blanks its first item with the length it read, and reads it
  back in any case; a failing read-back is an exception.
- A tick that falls outside a read ends `diag/f3probe.py` with its masks
  raised; `MasksComeDown` is about a probe that comes to its end.
  `qmi/f3probe.py` and `diagpeek.py` never lower theirs.
- `diagsip.py` and `diagdump.py` sleep in a bare read behind `select()`, which
  returns when the driver was merely woken (`sdpwatch.py:51-54` says so);
  `Ends` names that state.
- F3 records with a hash are left out of `f3parse.py`'s count and collection,
  and `parse_qsr` is never called. The header comment and the docstring of the
  file contradict each other about them.
- `hidl-from-apk.py` follows `const/4`, `const/16` and `const`, but no
  `high16` and no moves; it keeps a constant over a field it has already seen,
  reads chars as signed, and shows the zeros that a DEX file omits at the end
  of its static values as missing.
- `mbnlist.py` takes a record's length not to count its own four bytes,
  `mbnitems.py` to count them.
- An item with an empty value ends `mbnitems.py` half way, and what reads its
  output sees a shorter config.
- `imssniff.py:84-85` says that it keeps anything that parses as SIP on any
  port: its list (93-96) has no NOTIFY, CANCEL, UPDATE, PRACK, INFO or REFER,
  which `f3parse.py:45-47` has. Off ports 5060 and 5061, and on another
  interface than `rmnet_data2`, these go unnoticed. `sipsniff.py:75` knows only
  replies and REGISTER off port 5060, and no 5061. `PlaintextIsSeen` is about
  the rest.
- Neither sniffer looks behind an extension header of IPv6, and both take an
  Ethernet frame whose first nibble is 4 or 6 for IP.
- `efswrite.py:66` refuses the prefix in `cfgswap.sh`'s backup only if its own
  read is longer than that; two reads cut to one length write it over the item's
  head, and the header's "reversible by construction" does not hold for such a
  run.
- `install-hwc-overlay.sh:22-23` goes on when the session or the container
  could not be stopped, and nothing keeps one from starting between the `rm`
  and the `mv`; lines 54-56 tell the user to look for that. `InstalledIsTaken`
  has it as its exception.
- `wlinfo.py:151-160` does not look at errors in its second wait; the program
  ends when the connection is closed behind one.

## Not modelled

- Printing, formatting, logging, options and help texts, everywhere.
- Of the decoders: the census and `--find` of `f3parse.py`, the QSR tables, the
  printing of SIP and SDP, the string, type and class tables of a DEX file and
  the layout of the listing. They are formatting of what the modelled parts
  return.
- `mbnlist.py`, `codeccmp.sh`, `jiodiff.sh`: printed comparisons of what
  `McfgListings` has.
- NV and EFS readers: `read_file()` or one request, and formatting. Status
  reports over D-Bus and logcat: read-only. ELF readers and the boot splash: no
  state and no other actor, their content is a byte format.
- The bearer keeper (`imskeeper.sh`, `imsbearer.sh`): two loops of D-Bus calls
  with sleeps. What keeps or tears the bearer down is ofono and the modem, of
  which the scripts say too little to model either.
- Package builds and SDK wrappers: command sequences around external builds.
- Of the modelled scripts: `MBN_MINOR`, the set-up of mbn-mcfg-tools and its
  own check in the repackers; waiting and sleeping in the experiments; option
  parsing and the download progress in `flash.sh`.
- Bytes: an EFS item is a sequence of units, an image is whole, cut or absent,
  a message is a record of what the program looks at; of a SIP text that is
  which program knows its method. `f3parse.py` and `f3probe.py` are compared up
  to formatting: `%%`, and the base in which `render()` prints `%x`, are left
  out.
- The modem, the phone, qcril, the compositor, git, mic and Waydroid are
  modelled from how the scripts use them; what the scripts do not rely on is
  left open.

## Plan

Done: the recovery build and its abstract specification (1), the installers
(2), the diagnostics port (3), experiments, QMI, Wayland and Waydroid (4),
carrier configs and the build pipeline (5), message masks, listening loops,
decoders, sniffers, the touchscreen, `lastalign.py` and the listing (6), and
the theorems above (7). What is left, the most useful first:

1. `UndisturbedIsExact` of `MCModem`: it is about whole runs without an error,
   so the invariants of `MCModemInTime_proofs` have to be strengthened by what
   the fault-free modem answers.
2. The bearer keeper, the call that tears the bearer down and `imsbearer.sh`
   that wants it down, as one liveness model, once it is written down what
   ofono does.
3. `mbnlist.py` beside `mbnitems.py` over the same configs; the order of the
   fingerprint packages' Android-side and Sailfish-side steps.
