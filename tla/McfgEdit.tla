------------------------------- MODULE McfgEdit -------------------------------
(***************************************************************************)
(* Editing a carrier config on the workstation and loading it into the     *)
(* modem: scripts/patch-mbn-ims.sh, mbn-import-items.sh and                *)
(* mbn-set-regonmode.sh.  Each extracts a config, edits it, bumps the      *)
(* three copies of its minor version, packs it and reads the result back.  *)
(* qcril loads a staged config only if its version differs from the active *)
(* one's, silently; the scripts therefore ask to be fed their own previous *)
(* output, which is the discipline of this module (InputIsLatest).         *)
(***************************************************************************)
EXTENDS Naturals

CONSTANT MaxMinor      \* the largest minor version, 0xff

Paths == {"stock", "a", "b"}
Items == {"ims_flags", "profile", "reg_config"}
None == "none"
Values == {"off", "on", "oncall", "poweron", "ims_apn", None}
Copies == {"meta", "trailer1", "trailer2"}

(* A packed config: what its items say and its three minor versions.       *)
Config == [items : [Items -> Values], minor : [Copies -> 0..MaxMinor]]
NoConfig == [items |-> [i \in Items |-> None], minor |-> [c \in Copies |-> 0]]
Stock == [items |-> [ims_flags |-> "off", profile |-> None, reg_config |-> None],
          minor |-> [c \in Copies |-> 0]]
DonorItems == [ims_flags |-> "on", profile |-> "ims_apn", reg_config |-> "oncall"]

(* What a script is asked for: the flags with or without the donor's       *)
(* profile, some of the donor's items, or a registration mode.             *)
Requests == [tool : {"patch"}, want : {{}, {"profile"}}]
            \union [tool : {"import"}, want : SUBSET {"profile", "reg_config"} \ {{}}]
            \union [tool : {"regonmode"}, want : {{"poweron"}, {"oncall"}}]

VARIABLES
  disk,       \* the config at each path, NoConfig if there is none
  active,     \* the config the modem runs
  pc, request, out,
  files,      \* items under files/ of the working directory
  entries,    \* items the working directory's nv_items lists
  minor,      \* the version copies of the working directory's meta
  asked,      \* the items the running script has set
  latest,     \* history: the path last reported as written
  wrote       \* history: items and values promised for each path

vars == <<disk, active, pc, request, out, files, entries, minor, asked,
          latest, wrote>>
work == <<files, entries, minor, asked>>

NoPromise == [i \in {} |-> None]

TypeOK ==
  /\ disk \in [Paths -> Config]
  /\ active \in Config
  /\ pc \in {"idle", "edit", "bump", "pack", "verify"}
  /\ request \in Requests
  /\ out \in Paths \ {"stock"}
  /\ files \in [Items -> Values]
  /\ entries \subseteq Items
  /\ minor \in [Copies -> 0..MaxMinor]
  /\ asked \subseteq entries
  /\ latest \in Paths
  /\ wrote \in [Paths -> UNION {[S -> Values] : S \in SUBSET Items}]

Init ==
  /\ disk = [p \in Paths |-> IF p = "stock" THEN Stock ELSE NoConfig]
  /\ active = Stock
  /\ pc = "idle" /\ request = [tool |-> "patch", want |-> {}] /\ out = "a"
  /\ files = Stock.items /\ entries = {} /\ minor = Stock.minor /\ asked = {}
  /\ latest = "stock" /\ wrote = [p \in Paths |-> NoPromise]

(* The discipline the scripts state: "feed it the previous output".        *)
InputIsLatest(in) == in = latest

(* Check the input and extract it into a fresh working directory.          *)
Extract(in, o, r) ==
  /\ pc = "idle" /\ InputIsLatest(in)
  /\ request' = r /\ out' = o
  /\ files' = disk[in].items
  /\ entries' = {i \in Items : disk[in].items[i] # None}
  /\ minor' = disk[in].minor
  /\ asked' = {}
  /\ pc' = "edit"
  /\ UNCHANGED <<disk, active, latest, wrote>>

(* The item data the donor has, under files/ and in nv_items.              *)
AddFromDonor(new) ==
  /\ files' = [i \in Items |-> IF i \in new THEN DonorItems[i] ELSE files[i]]
  /\ entries' = entries \union new

(* patch-mbn-ims.sh: a profile the target already has is not overwritten,  *)
(* flags the config does not carry are not guessed.                        *)
EditPatch ==
  LET new == request.want IN
  /\ pc = "edit" /\ request.tool = "patch"
  /\ files["profile"] = None \/ new = {}
  /\ files["ims_flags"] # None
  /\ files' = [i \in Items |-> IF i = "ims_flags" THEN "on"
                               ELSE IF i \in new THEN DonorItems[i] ELSE files[i]]
  /\ entries' = entries \union new
  /\ asked' = {"ims_flags"} \union new
  /\ pc' = "bump"
  /\ UNCHANGED <<disk, active, request, out, minor, latest, wrote>>

(* mbn-import-items.sh: items the target has are left alone.               *)
EditImport ==
  LET new == request.want \ entries IN
  /\ pc = "edit" /\ request.tool = "import"
  /\ AddFromDonor(new)
  /\ asked' = new
  /\ pc' = "bump"
  /\ UNCHANGED <<disk, active, request, out, minor, latest, wrote>>

(* mbn-set-regonmode.sh: only where the config carries the item.           *)
EditRegOnMode ==
  /\ pc = "edit" /\ request.tool = "regonmode"
  /\ files["reg_config"] # None
  /\ \E mode \in request.want : files' = [files EXCEPT !["reg_config"] = mode]
  /\ asked' = {"reg_config"}
  /\ pc' = "bump"
  /\ UNCHANGED <<disk, active, request, out, entries, minor, latest, wrote>>

\* Faulty variant: the minor version wraps around.
BumpWraps ==
  /\ pc = "bump"
  /\ minor' = [c \in Copies |-> (minor[c] + 1) % (MaxMinor + 1)]
  /\ pc' = "pack"
  /\ UNCHANGED <<disk, active, request, out, files, entries, asked, latest, wrote>>

(* Each of the three copies is refused at 0xff and raised by one.          *)
Bump ==
  /\ pc = "bump"
  /\ \A c \in Copies : minor[c] # MaxMinor
  /\ minor' = [c \in Copies |-> minor[c] + 1]
  /\ pc' = "pack"
  /\ UNCHANGED <<disk, active, request, out, files, entries, asked, latest, wrote>>

(* mbn-tool writes $OUT from the entries of nv_items; a file without entry *)
(* is dropped.  An item the packer loses all the same is what the read     *)
(* back is for: at most one, and any one, may be lost here.                *)
Pack ==
  /\ pc = "pack"
  /\ \E lost \in {{}} \union {{i} : i \in Items} :
       disk' = [disk EXCEPT ![out] =
                 [items |-> [i \in Items |-> IF i \in entries \ lost THEN files[i] ELSE None],
                  minor |-> minor]]
  /\ wrote' = [wrote EXCEPT ![out] = NoPromise]
  /\ pc' = "verify"
  /\ UNCHANGED <<active, request, out, work, latest>>

\* Faulty variant: the flags alone are read back.
ReadBackFlags == "ims_flags" \in asked => disk[out].items["ims_flags"] = files["ims_flags"]

(* The items set are read back out of $OUT and compared, the versions too  *)
(* except by mbn-set-regonmode.sh.                                         *)
ReadBackItems == \A i \in asked : disk[out].items[i] = files[i]
ReadBackVersion == disk[out].minor = minor
ReadBack == ReadBackItems /\ (request.tool # "regonmode" => ReadBackVersion)

Cleanup ==
  /\ pc' = "idle" /\ request' = [tool |-> "patch", want |-> {}] /\ out' = "a"
  /\ files' = Stock.items /\ entries' = {} /\ minor' = Stock.minor /\ asked' = {}

Verify ==
  /\ pc = "verify"
  /\ ReadBack
  /\ wrote' = [wrote EXCEPT ![out] = [i \in asked |-> files[i]]]
  /\ latest' = out
  /\ Cleanup
  /\ UNCHANGED <<disk, active>>

(* A refusal at any step, or the operator's interrupt: the trap removes    *)
(* the working directory; $OUT stays as the packer left it.                *)
Fail ==
  /\ pc # "idle"
  /\ Cleanup
  /\ UNCHANGED <<disk, active, latest, wrote>>

(* External: the config last written is staged; qcril loads it unless its  *)
(* version is the active one's.                                            *)
Load ==
  /\ pc = "idle"
  /\ disk[latest].minor["meta"] # active.minor["meta"]
  /\ active' = disk[latest]
  /\ UNCHANGED <<disk, pc, request, out, work, latest, wrote>>

Next ==
  \/ \E in \in Paths, o \in Paths \ {"stock"}, r \in Requests : Extract(in, o, r)
  \/ EditPatch
  \/ EditImport
  \/ EditRegOnMode
  \/ Bump
  \/ Pack
  \/ Verify
  \/ Fail
  \/ Load

Spec == Init /\ [][Next]_vars

(* What a script reported as written is in the file: every item it set     *)
(* survived the pack with its value, and the three copies of the version,  *)
(* which must agree (patch-mbn-ims.sh:112), do.                            *)
WrittenIsIntended ==
  \A p \in Paths :
    /\ \A i \in DOMAIN wrote[p] : disk[p].items[i] = wrote[p][i]
    /\ \A c, d \in Copies : disk[p].minor[c] = disk[p].minor[d]

(* While the scripts are fed their own output no edit is silently ignored: *)
(* the last written config outranks the one the modem runs, unless it is   *)
(* that very config (patch-mbn-ims.sh:114-117).                            *)
LatestOutranks ==
  \/ disk[latest].minor["meta"] > active.minor["meta"]
  \/ disk[latest] = active

-----------------------------------------------------------------------------
(* The inductive invariant (MCConfigs_proofs).                             *)

(* A working directory lists the items it has until one is edited, and its *)
(* three version copies, like those of every config, agree.                *)
Extracted ==
  /\ pc = "edit" => entries = {i \in Items : files[i] # None}
  /\ \A c, d \in Copies : minor[c] = minor[d]

(* What is being edited does not fall behind the config the modem runs,    *)
(* and is ahead of it once its version is raised, before it can replace    *)
(* the latest one.                                                         *)
Ahead ==
  /\ pc \in {"edit", "bump"} => minor["meta"] >= active.minor["meta"]
  /\ pc \in {"pack", "verify"} => minor["meta"] > active.minor["meta"]
  /\ pc = "verify" => disk[out].minor = minor

IInv == TypeOK /\ Extracted /\ Ahead /\ WrittenIsIntended /\ LatestOutranks
=============================================================================
