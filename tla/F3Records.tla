------------------------------ MODULE F3Records -----------------------------
(***************************************************************************)
(* F3 debug messages as two programs read them: scripts/qmi/f3parse.py on  *)
(* the host (parse_msg, parse_qsr, render) and scripts/diag/f3probe.py on  *)
(* the phone (decode).  A packet is a sequence of cells: the four of its   *)
(* header (command, number of arguments, line, subsystem), the arguments,  *)
(* and either a format and a file name, each ended by a NUL, or a hash in  *)
(* front of the arguments.  A conversion of a format is one cell, and so   *)
(* are four characters of a name.  The state is a message that grows.      *)
(***************************************************************************)
EXTENDS Integers, SequencesExt, FiniteSets

CONSTANTS
  ArgLimit,            \* 16
  MaxTokens, MaxArgs   \* bounds on a message

VARIABLES
  cmd,   \* the packet's type
  fmt,   \* cells: conversions and text
  args   \* the arguments, any word

Msg == 121        \* 0x79, on this modem with strings
Ext == 146        \* 0x92, with a hash
Log == 16

Nul == 0
Number == 1       \* %d and its like
String == 2       \* %s
Text == 3
Name == 4         \* part of a source file's name
Hash == 5
Line == 6
Ss == 7

Header == <<cmd, Len(args), Line, Ss>>

Packet ==
  IF cmd = Ext THEN Header \o <<Hash>> \o args
  ELSE Header \o args \o fmt \o <<Nul, Name, Name, Nul>>

-----------------------------------------------------------------------------
(* The programs.  None is <<>>.                                            *)

\* split(b"\x00")
Split(tail) ==
  FoldLeft(LAMBDA s, c : IF c = Nul THEN Append(s, <<>>) ELSE [s EXCEPT ![Len(s)] = Append(@, c)],
           <<<<>>>>, tail)

IsName(part) == part # <<>> /\ ToSet(part) = {Name}

parse_msg(pkt) ==
  LET end == 4 + pkt[2]
      parts == Split(SubSeq(pkt, end + 1, Len(pkt)))
  IN  IF Len(pkt) < 4 \/ pkt[1] # Msg \/ pkt[2] > ArgLimit \/ end > Len(pkt) THEN <<>>
      ELSE IF Len(parts) < 2 \/ ~IsName(parts[2]) THEN <<>>
      ELSE <<[line |-> pkt[3], ss |-> pkt[4], file |-> parts[2], fmt |-> parts[1],
              args |-> SubSeq(pkt, 5, end)]>>

parse_qsr(pkt) ==
  IF Len(pkt) < 5 \/ pkt[1] # Ext \/ pkt[2] > ArgLimit \/ 5 + pkt[2] > Len(pkt) THEN <<>>
  ELSE <<[line |-> pkt[3], ss |-> pkt[4], hash |-> pkt[5], args |-> SubSeq(pkt, 6, 5 + pkt[2])]>>

\* The integer conversions take the arguments in turn, and %s takes none.
render(f, as) ==
  FoldLeft(LAMBDA s, c :
             IF c = Number /\ s.next <= Len(as)
               THEN [out |-> Append(s.out, <<"argument", as[s.next]>>), next |-> s.next + 1]
               ELSE [s EXCEPT !.out = Append(@, <<"as it is", c>>)],
           [out |-> <<>>, next |-> 1], f).out

\* fmt % args: every conversion takes one, and all have to be taken.
Percent(f, as) ==
  LET taken == SelectSeq([i \in DOMAIN f |-> i], LAMBDA i : f[i] \in {Number, String})
  IN  IF Len(taken) # Len(as) THEN [i \in DOMAIN f |-> <<"as it is", f[i]>>] \o <<<<"all", as>>>>
      ELSE [i \in DOMAIN f |->
              IF f[i] \in {Number, String}
                THEN <<"argument", as[CHOOSE k \in DOMAIN taken : taken[k] = i]>>
                ELSE <<"as it is", f[i]>>]

\* diag/f3probe.py: a message without a file name is shown as well.
decode(pkt) ==
  LET off == 4 + pkt[2]
      parts == Split(SubSeq(pkt, off + 1, Len(pkt)))
  IN  IF Len(pkt) < 4 \/ off > Len(pkt) THEN <<>>
      ELSE <<[line |-> pkt[3], ss |-> pkt[4], file |-> IF Len(parts) > 1 THEN parts[2] ELSE <<>>,
              text |-> Percent(parts[1], SubSeq(pkt, 5, off))]>>

\* records() and collect(): what is counted under its type.
records(pkt) ==
  IF pkt = <<>> THEN <<>>
  ELSE IF pkt[1] \in {Msg, Ext} THEN IF parse_msg(pkt) = <<>> THEN <<>> ELSE <<pkt[1]>>
  ELSE <<pkt[1]>>

-----------------------------------------------------------------------------
vars == <<cmd, fmt, args>>

Init == cmd \in {Msg, Ext, Log} /\ fmt = <<>> /\ args = <<>>

AddToken ==
  /\ cmd # Ext /\ Len(fmt) < MaxTokens
  /\ \E c \in {Number, String, Text} : fmt' = Append(fmt, c)
  /\ UNCHANGED <<cmd, args>>

\* A word of an argument can look like anything.
AddArg ==
  /\ Len(args) < MaxArgs
  /\ \E w \in {Nul, Name, 8 + Len(args)} : args' = Append(args, w)
  /\ UNCHANGED <<cmd, fmt>>

Next == AddToken \/ AddArg

Spec == Init /\ [][Next]_vars

-----------------------------------------------------------------------------
(* Properties.                                                             *)

Conversions == SelectSeq(fmt, LAMBDA c : c \in {Number, String})

\* The message is well formed: an argument for each conversion.
Matched == cmd = Msg /\ Len(Conversions) = Len(args)

\* The argument of the conversion at place i.
Own(i) == args[Cardinality({j \in 1 .. i : fmt[j] \in {Number, String}})]

Rendered(m) == render(m.fmt, m.args)

\* "Everything that matters here -- filename, line number, and the integer
\* arguments -- is exact." (f3parse.py:25-26): each integer conversion shows
\* its own argument.
IntegersAreExact ==
  Matched => \A m \in ToSet(parse_msg(Packet)) : \A i \in DOMAIN fmt :
    fmt[i] = Number => Rendered(m)[i] = <<"argument", Own(i)>>

\* decode() shows each conversion's own argument, and f3parse.py the same ones
\* as long as no %s comes before an integer (in which base, and what becomes of
\* %%, is left out); name, line and arguments are
\* those of the message, of a packet that is cut short too, if it is shown.
MessagesAreRead ==
  /\ Matched => \A d \in ToSet(decode(Packet)) :
       /\ \A i \in DOMAIN fmt : fmt[i] \in {Number, String} => d.text[i] = <<"argument", Own(i)>>
       /\ String \notin ToSet(fmt) => \A m \in ToSet(parse_msg(Packet)) : Rendered(m) = d.text
  /\ cmd = Msg /\ Len(args) <= ArgLimit => parse_msg(Packet) # <<>> /\ records(Packet) = <<Msg>>
  /\ \A n \in 0 .. Len(Packet) : \A m \in ToSet(parse_msg(SubSeq(Packet, 1, n))) :
       /\ cmd = Msg
       /\ m.fmt = fmt /\ m.args = args /\ m.line = Line
       /\ IsPrefix(m.file, <<Name, Name>>)

\* Whatever its arguments look like, a record with a hash is not taken for one
\* with strings (f3parse.py:116-125), and its hash and arguments are its own.
HashesAreRead ==
  /\ cmd = Ext => parse_msg(Packet) = <<>>
  /\ cmd = Ext /\ Len(args) <= ArgLimit => parse_qsr(Packet) = <<[line |-> Line, ss |-> Ss, hash |-> Hash, args |-> args]>>
=============================================================================
