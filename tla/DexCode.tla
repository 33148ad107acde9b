------------------------------- MODULE DexCode ------------------------------
(***************************************************************************)
(* scripts/hidl-from-apk.py: what it reads out of a DEX file.  A method    *)
(* body is a sequence of 16-bit units, class data and static values are    *)
(* sequences of bytes; offsets count from 1.  The state is a file that     *)
(* grows by an instruction or by a static field.                           *)
(***************************************************************************)
EXTENDS Integers, SequencesExt, FiniteSetsExt

CONSTANTS MaxInstructions, MaxFields

VARIABLES
  body,    \* a method body: instructions [units, kind]
  statics  \* static fields: [idx, value], an int

-----------------------------------------------------------------------------
(* Class data and static values.                                           *)

\* <<value, where it ends>>
uleb128(b, o) ==
  LET n == CHOOSE k \in 1 .. 5 : b[o + k - 1] < 128 /\ \A j \in 1 .. k - 1 : b[o + j - 1] >= 128
  IN  <<FoldLeft(LAMBDA r, k : r + (b[o + k - 1] % 128) * 128 ^ (k - 1), 0, [k \in 1 .. n |-> k]), o + n>>

\* A list of n indices, each written as its distance from the one before.
Indices(b, off, n, numbers) ==
  FoldLeft(LAMBDA s, i :
             LET diff == uleb128(b, s.o)
                 acc == uleb128(b, diff[2])
                 idx == s.idx + diff[1]
             IN  IF numbers = 2 THEN [o |-> acc[2], idx |-> idx, out |-> Append(s.out, idx)]
                 ELSE LET code == uleb128(b, acc[2])
                      IN  [o |-> code[2], idx |-> idx, out |-> Append(s.out, <<idx, code[1]>>)],
           [o |-> off, idx |-> 0, out |-> <<>>], [i \in 1 .. n |-> i])

class_data(b, off) ==
  LET static == uleb128(b, off)
      inst == uleb128(b, static[2])
      direct == uleb128(b, inst[2])
      virtual == uleb128(b, direct[2])
      f == Indices(b, virtual[2], static[1], 2)
      g == Indices(b, f.o, inst[1], 2)
      m == Indices(b, g.o, direct[1], 3)
      v == Indices(b, m.o, virtual[1], 3)
  IN  <<f.out, g.out, m.out, v.out>>

\* Null is "null"; a boolean is in the argument.
encoded_array(b, off) ==
  LET cnt == uleb128(b, off)
      Value(o, size, type) ==
        LET v == FoldLeft(LAMBDA r, k : r + b[o + k - 1] * 256 ^ (k - 1), 0, [k \in 1 .. size |-> k])
        IN  IF type \in {0, 2, 3, 4, 6} /\ v >= 256 ^ size \div 2 THEN v - 256 ^ size ELSE v
  IN  FoldLeft(LAMBDA s, i :
         LET type == b[s.o] % 32
             arg == b[s.o] \div 32
         IN  IF type = 30 THEN [o |-> s.o + 1, out |-> Append(s.out, "null")]
             ELSE IF type = 31 THEN [o |-> s.o + 1, out |-> Append(s.out, arg # 0)]
             ELSE [o |-> s.o + 2 + arg, out |-> Append(s.out, Value(s.o + 1, arg + 1, type))],
         [o |-> cnt[2], out |-> <<>>], [i \in 1 .. cnt[1] |-> i]).out

\* The values belong to the first static fields; None is <<>>.
cmd_enums(data, values) ==
  LET ids == class_data(data, 1)[1]
      vs == encoded_array(values, 1)
  IN  [n \in DOMAIN ids |-> <<ids[n], IF n <= Len(vs) THEN <<vs[n]>> ELSE <<>>>>]

-----------------------------------------------------------------------------
(* Dalvik instructions.                                                    *)

SIZES(op) ==
  CASE op \in {24} -> 5
    [] op \in {250, 251} -> 4
    [] op \in {3, 6, 9, 20, 23, 27, 36, 37, 38, 42, 43, 44, 252, 253}
         \union (110 .. 114) \union (116 .. 120) -> 3
    [] op \in {2, 5, 8, 19, 21, 22, 25, 26, 28, 31, 32, 34, 35, 41, 254, 255}
         \union (45 .. 61) \union (68 .. 109) \union (144 .. 175) \union (208 .. 226) -> 2
    [] OTHER -> 1

\* Faulty variant: payloads are taken for instructions.
WalkIntoPayloads(insns) ==
  FoldLeft(LAMBDA s, i :
             IF i # s.next THEN s
             ELSE [out |-> Append(s.out, i), next |-> i + SIZES(insns[i] % 256)],
           [out |-> <<>>, next |-> 1], [i \in DOMAIN insns |-> i]).out

walk(insns) ==
  FoldLeft(LAMBDA s, i :
             LET unit == insns[i] IN
             IF i # s.next THEN s
             ELSE IF unit = 256 THEN [s EXCEPT !.next = i + 4 + insns[i + 1] * 2]
             ELSE IF unit = 512 THEN [s EXCEPT !.next = i + 2 + insns[i + 1] * 4]
             ELSE IF unit = 768
               THEN [s EXCEPT !.next = i + 4 + (insns[i + 1] * (insns[i + 2] + insns[i + 3] * 65536) + 1) \div 2]
             ELSE [out |-> Append(s.out, i), next |-> i + SIZES(unit % 256)],
           [out |-> <<>>, next |-> 1], [i \in DOMAIN insns |-> i]).out

Nibble(unit, k) == (unit \div 16 ^ k) % 16
High(unit) == unit \div 256

Transact == 7  \* the index of transact() among the methods

\* A register's constant; None is <<>>.
Known(const, reg) == IF reg \in DOMAIN const THEN <<const[reg]>> ELSE <<>>
With(const, reg, v) == [r \in DOMAIN const \union {reg} |-> IF r = reg THEN v ELSE const[r]]

\* The code that a body passes to transact(): constants are kept by register
\* until the first such call.
cmd_codes(insns) ==
  FoldLeft(LAMBDA s, off :
      LET unit == insns[off]
          op == unit % 256
      IN  CASE s.done -> s
            [] ~s.done /\ op = 18 ->
                 LET v == Nibble(unit, 3)
                 IN  [s EXCEPT !.const = With(@, Nibble(unit, 2), IF v > 7 THEN v - 16 ELSE v)]
            [] ~s.done /\ op = 19 ->
                 LET v == insns[off + 1]
                 IN  [s EXCEPT !.const = With(@, High(unit), IF v > 32767 THEN v - 65536 ELSE v)]
            [] ~s.done /\ op = 20 ->
                 [s EXCEPT !.const = With(@, High(unit), insns[off + 1] + insns[off + 2] * 65536)]
            [] ~s.done /\ op \in 110 .. 114 /\ insns[off + 1] = Transact ->
                 [s EXCEPT !.done = TRUE,
                           !.found = IF Nibble(unit, 3) >= 2 THEN Known(s.const, Nibble(insns[off + 2], 1)) ELSE <<>>]
            [] ~s.done /\ op \in 116 .. 120 /\ insns[off + 1] = Transact ->
                 [s EXCEPT !.done = TRUE, !.found = Known(s.const, insns[off + 2] + 1)]
            [] OTHER -> s,
    [const |-> <<>>, found |-> <<>>, done |-> FALSE], walk(insns)).found

\* <<field, offset>>: each wide constant with the iput that follows.
cmd_layout(insns) ==
  FoldLeft(LAMBDA s, off :
      LET op == insns[off] % 256
          field == insns[off + 1]
          v == insns[off + 1]
      IN  CASE op = 22 -> [s EXCEPT !.wide = <<IF v > 32767 THEN v - 65536 ELSE v>>]
            [] op = 23 -> [s EXCEPT !.wide = <<v + insns[off + 2] * 65536>>]
            [] op \in 89 .. 95 ->
                 IF s.wide # <<>> /\ \A i \in DOMAIN s.rows : s.rows[i][1] # field
                   THEN [rows |-> Append(s.rows, <<field, s.wide[1]>>), wide |-> <<>>] ELSE s
            [] OTHER -> s,
    [rows |-> <<>>, wide |-> <<>>], walk(insns)).rows

-----------------------------------------------------------------------------
(* The files.  Units that are no first unit may look like anything: like a *)
(* payload, or like an opcode.                                             *)

Instructions ==
  {[kind |-> "other", units |-> u] : u \in {<<0>>, <<40>>, <<24 + 256, 256, 768, 18, 110>>, <<26, 512>>}}
  \union {[kind |-> "payload", units |-> u] :
            u \in {<<256, 1, 0, 0, 4626, 7>>, <<512, 1, 18, 0, 22, 0>>, <<768, 1, 3, 0, 110, 7>>}}
  \union {[kind |-> "const", reg |-> 1, value |-> -1, units |-> <<18 + 256 * 241>>],
          [kind |-> "const", reg |-> 1, value |-> 256, units |-> <<19 + 256, 256>>],
          [kind |-> "const", reg |-> 1, value |-> 16777223, units |-> <<20 + 256, 7, 256>>]}
  \union {[kind |-> "transact", units |-> <<110 + 256 * 64, Transact, 16>>],
          [kind |-> "transact", units |-> <<116 + 256 * 4, Transact, 0>>],
          [kind |-> "other", units |-> <<110 + 256 * 64, Transact + 1, 16>>]}
  \union {[kind |-> "wide", value |-> 16, units |-> <<22, 16>>],
          [kind |-> "wide", value |-> 65536, units |-> <<23, 0, 1>>]}
  \union {[kind |-> "iput", field |-> f, units |-> <<89, f>>] : f \in {18, 256}}

Values == {-129, -1, 0, 127, 128, 40000}

Init == body = <<>> /\ statics = <<>>

AddInstruction ==
  /\ statics = <<>> /\ Len(body) < MaxInstructions
  /\ \E ins \in Instructions : body' = Append(body, ins)
  /\ UNCHANGED statics

AddField ==
  /\ body = <<>> /\ Len(statics) < MaxFields
  /\ \E idx \in {0, 127, 128, 20000} : \E v \in Values :
       /\ \A i \in DOMAIN statics : statics[i].idx < idx
       /\ statics' = Append(statics, [idx |-> idx, value |-> v])
  /\ UNCHANGED body

Next == AddInstruction \/ AddField

vars == <<body, statics>>

Spec == Init /\ [][Next]_vars

\* As dx writes them: indices as distances, access flags 0x4019; values in as
\* few bytes as their sign allows, and none for zeros at the end.
Uleb(v) == IF v < 128 THEN <<v>> ELSE IF v < 16384 THEN <<128 + (v % 128), v \div 128>>
           ELSE <<128 + (v % 128), 128 + ((v \div 128) % 128), v \div 16384>>

ClassData ==
  <<Len(statics), 0, 1, 0>>
    \o FlattenSeq([i \in DOMAIN statics |->
         Uleb(statics[i].idx - (IF i = 1 THEN 0 ELSE statics[i - 1].idx)) \o Uleb(16409)])
    \o Uleb(300) \o Uleb(1) \o Uleb(16384)

StaticValues ==
  LET last == Max({0} \union {i \in DOMAIN statics : statics[i].value # 0})
      Encode(v) ==
        LET size == CHOOSE k \in 1 .. 4 : /\ v \in -(256 ^ k \div 2) .. 256 ^ k \div 2 - 1
                                          /\ (k > 1 => v \notin -(256 ^ (k - 1) \div 2) .. 256 ^ (k - 1) \div 2 - 1)
        IN  <<4 + 32 * (size - 1)>> \o [k \in 1 .. size |-> (v \div 256 ^ (k - 1)) % 256]
  IN  <<last>> \o FlattenSeq([i \in 1 .. last |-> Encode(statics[i].value)])

Code == FlattenSeq([i \in DOMAIN body |-> body[i].units])

-----------------------------------------------------------------------------
(* Properties.                                                             *)

\* Where the instructions of the body begin, but for payloads.
Starts ==
  LET start == [i \in DOMAIN body |-> 1 + Len(FlattenSeq([j \in 1 .. i - 1 |-> body[j].units]))]
      code == SelectSeq([i \in DOMAIN body |-> i], LAMBDA i : body[i].kind # "payload")
  IN  [k \in DOMAIN code |-> start[code[k]]]

\* walk() stops at every instruction and nowhere else, whatever operands and
\* payloads look like.
WalksInstructions == walk(Code) = Starts

\* The code found is the constant last put into the register before the first
\* call of transact(), and none is found without one.
CodeIsTheConstant ==
  LET calls == {i \in DOMAIN body : body[i].kind = "transact"}
      consts == {i \in DOMAIN body : body[i].kind = "const" /\ \A c \in calls : i < c}
  IN  cmd_codes(Code) = IF calls = {} \/ consts = {} THEN <<>> ELSE <<body[Max(consts)].value>>

\* An offset reported for a field is the last constant before an iput of that
\* field, and of a field written once right after a constant it is reported.
OffsetsAreBefore ==
  LET rows == ToSet(cmd_layout(Code))
      Wide(i) == Max({0} \union {j \in 1 .. i - 1 : body[j].kind = "wide"})
      Puts(f) == {i \in DOMAIN body : body[i].kind = "iput" /\ body[i].field = f}
  IN  /\ \A r \in rows : \E i \in Puts(r[1]) : Wide(i) > 0 /\ body[Wide(i)].value = r[2]
      /\ \A i \in DOMAIN body : body[i].kind = "iput" /\ Puts(body[i].field) = {i}
           /\ i > 1 /\ body[i - 1].kind = "wide" => <<body[i].field, body[i - 1].value>> \in rows

\* Each static field is listed under its index with its value; what is listed
\* without one is a zero at the end, which the file leaves out.
EnumsAreExact ==
  /\ cmd_enums(ClassData, StaticValues) = [i \in DOMAIN statics |->
       <<statics[i].idx,
         IF \A j \in i .. Len(statics) : statics[j].value = 0 THEN <<>> ELSE <<statics[i].value>>>>]
  /\ class_data(ClassData, 1)[3] = <<<<300, 16384>>>>
=============================================================================
