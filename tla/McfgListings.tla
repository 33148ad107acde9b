---------------------------- MODULE McfgListings ----------------------------
(***************************************************************************)
(* What is read out of carrier configs.  scripts/mcfg/mbnitems.py, the     *)
(* listing of a config's items, and what reads it: the donor values of     *)
(* batchalign.py and lastalign.py and the comparison of jiodiff.sh; the    *)
(* state is a config (its records, then padding) that grows record by      *)
(* record.  And scripts/qmi/nvsweep.sh, which compares the values that the *)
(* configs list for one item with the modem's.                             *)
(***************************************************************************)
EXTENDS Integers, SequencesExt, FiniteSetsExt

CONSTANTS
  MaxRecords,
  Configs     \* the carrier configs of nvsweep.sh (eight in the script)

VARIABLES
  config,     \* records [kind, path, blob]
  live,       \* what the modem answers, NoValue if it does not
  vals,       \* what each config says, NoValue if it lacks the item
  listed      \* the list the item was put in

Paths == {<<97>>, <<98, 99>>}
Blobs == {<<7>>, <<7, 1>>, <<7, 0, 2>>, <<>>}
NoItem == [kind |-> "other", path |-> <<>>, blob |-> <<>>]

Init == config = <<>>

AddRecord ==
  /\ Len(config) < MaxRecords
  /\ \E r \in [kind : {"item"}, path : Paths, blob : Blobs]
              \union {NoItem, [NoItem EXCEPT !.kind = "tiny"], [NoItem EXCEPT !.kind = "nameless"]} :
       config' = Append(config, r)

Next == AddRecord

-----------------------------------------------------------------------------
(* As the vendor packs them: four bytes of length, counting themselves, a  *)
(* body, and behind the last record zeros.                                 *)

Named(path) == path \o <<0, 0>>

BodyOf(r) ==
  CASE r.kind = "item" -> <<2, 25, 0, 0, 0, 0, Len(Named(r.path)), 0>> \o Named(r.path)
                            \o <<0, 0, Len(r.blob), 0>> \o r.blob \o <<0>>
    [] r.kind = "nameless" -> <<2, 25, 0, 0, 0, 0, 1, 0, 97, 0, 0, 1, 0, 7>>
    [] r.kind = "other" -> <<1, 25, 2, 25, 0, 0, 1, 0, 0, 0, 0, 1, 0, 9>>
    [] r.kind = "tiny" -> <<2, 25>>

Payload == FlattenSeq([i \in DOMAIN config |->
             <<4 + Len(BodyOf(config[i])), 0, 0, 0>> \o BodyOf(config[i])]) \o [i \in 1 .. 8 |-> 0]

From(s, n) == SubSeq(s, n, Len(s))
Word(s, n) == s[n] + 256 * s[n + 1]

Steps(buf, off) == Word(buf, off)

\* A body's item as {<<path, blob>>}, or nothing.
Item(body) ==
  IF Len(body) < 8 \/ SubSeq(body, 1, 2) # <<2, 25>> THEN {}
  ELSE LET end == 8 + Word(body, 7)
           path == SubSeq(body, 9, Min({end, Len(body)}))
           rest == From(body, end + 1)
       IN  IF 0 \notin ToSet(path) \/ Len(rest) < 5 THEN {}
           ELSE {<<SubSeq(path, 1, SelectInSeq(path, LAMBDA c : c = 0) - 1),
                   SubSeq(rest, 5, 4 + Word(rest, 3))>>}

\* A length that is too small or too large ends the walk; of items with one
\* name the last counts.
items(buf) ==
  FoldLeft(LAMBDA s, off :
      IF s.over \/ off # s.next THEN s
      ELSE LET ln == Steps(buf, off)
           IN  IF off + 5 > Len(buf) \/ ln < 6 \/ off + ln > Len(buf) + 1 THEN [s EXCEPT !.over = TRUE]
               ELSE LET found == Item(SubSeq(buf, off + 4, off + ln - 1))
                    IN  [s EXCEPT !.next = off + ln,
                                  !.out = {p \in s.out : \A q \in found : p[1] # q[1]} \union found],
    [next |-> 1, out |-> {}, over |-> FALSE], [i \in DOMAIN buf |-> i]).out

\* The lines printed, <<name, value without its tag>>, in the order of the
\* names: an item without a tag is an exception, and ends the listing.
Before(p, q) == \/ IsStrictPrefix(p, q)
                \/ \E k \in DOMAIN p \intersect DOMAIN q :
                     SubSeq(p, 1, k - 1) = SubSeq(q, 1, k - 1) /\ p[k] < q[k]

listing(got) ==
  LET printed == {p \in got : \A q \in got : q[2] = <<>> => Before(p[1], q[1])}
  IN  {<<p[1], Tail(p[2])>> : p \in printed}

\* What is read out of the lines: the last field of those with a value.
donor_values(lines) == {p \in lines : p[2] # <<>>}

-----------------------------------------------------------------------------
\* The last record of a name decides; records of other kinds and what stands
\* behind the last are passed over.
InConfig ==
  {<<config[i].path, config[i].blob>> :
     i \in {j \in DOMAIN config : /\ config[j].kind = "item"
              /\ \A k \in j + 1 .. Len(config) : config[k].kind = "item" => config[k].path # config[j].path}}

\* mbnitems.py lists every item of a config and nothing else, whatever other
\* records stand between them, and the programs that read its lines take for
\* a donor's value only what the config says, and miss none but empty ones and
\* what comes, in the order of names, from an item without a tag.
ListsTheConfig ==
  /\ items(Payload) = InConfig
  /\ \A values \in {donor_values(listing(items(Payload)))} :
       /\ \A v \in values : \E p \in InConfig : p[1] = v[1] /\ p[2] # <<>> /\ Tail(p[2]) = v[2]
       /\ (\A p \in InConfig : p[2] # <<>>) =>
            {v[1] : v \in values} = {p[1] : p \in {q \in InConfig : Len(q[2]) > 1}}
-----------------------------------------------------------------------------
(* nvsweep.sh: every IMS item of the carrier configs is read from the modem*)
(* and compared with what the configs say; the disagreements are sorted    *)
(* into lists.  A value is a string of digits; the modem pads with zeros,  *)
(* so values are compared up to trailing zeros.                            *)

Strings == UNION {[1..n -> 0..1] : n \in 1..2}
NoValue == <<>>

(* Any one item some config has.                                           *)
SweepInit ==
  /\ live \in Strings \union {NoValue}
  /\ vals \in [Configs -> Strings \union {NoValue}]
  /\ \E c \in Configs : vals[c] # NoValue
  /\ listed = "unread"

\* Faulty variant: the padding is not allowed for.
SameExact(v, w) == v = w

(* Equal on the shorter's length, and the rest of either all zeros.        *)
Same(v, w) ==
  LET n == IF Len(v) < Len(w) THEN Len(v) ELSE Len(w) IN
  /\ SubSeq(v, 1, n) = SubSeq(w, 1, n)
  /\ \A i \in (n + 1)..Len(v) : v[i] = 0
  /\ \A i \in (n + 1)..Len(w) : w[i] = 0

having == {c \in Configs : vals[c] # NoValue}
agree == {c \in having : Same(vals[c], live)}
distinct == {vals[c] : c \in having}

(* The order of the tests is the script's.                                 *)
List ==
  IF live = NoValue THEN "missing"
  ELSE IF agree = {} THEN "orphan"
  ELSE IF Cardinality(distinct) > 1 /\ Cardinality(agree) * 2 < Cardinality(having)
       THEN "minority"
  ELSE IF Cardinality(distinct) = 1 /\ agree # having THEN "unanimous"
  ELSE "unlisted"

Classify ==
  /\ listed = "unread"
  /\ listed' = List
  /\ UNCHANGED <<live, vals>>

SweepNext == Classify

(* A value without its padding.                                            *)
Unpadded(v) == SubSeq(v, 1, Max({0} \union {i \in DOMAIN v : v[i] # 0}))

(* An item whose live value every config that has it repeats, up to the    *)
(* modem's padding, is not reported as a disagreement, and one that no     *)
(* config repeats is never passed over.                                    *)
ReportsDisagreement ==
  listed \notin {"unread", "missing"} =>
    /\ (\A c \in having : Unpadded(vals[c]) = Unpadded(live)) => listed = "unlisted"
    /\ (\A c \in having : Unpadded(vals[c]) # Unpadded(live)) => listed # "unlisted"
=============================================================================
