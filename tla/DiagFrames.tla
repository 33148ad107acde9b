------------------------------ MODULE DiagFrames ----------------------------
(***************************************************************************)
(* The framing of DIAG packets: what scripts/diag/diagefs.py sends and     *)
(* looks for, the faster decoder of scripts/qmi/sdprawparse.py, and the    *)
(* copies that eight programs have of the loop over one read() of the      *)
(* device.  Bytes are integers, and an int of four bytes is one cell.  The *)
(* state is a list of packets that grows byte by byte.                     *)
(***************************************************************************)
EXTENDS Integers, SequencesExt

CONSTANTS
  Bytes,     \* the bytes packets are made of
  MaxBytes   \* bound on their total length

VARIABLE packets

Flag == 126       \* 0x7E
Escape == 125     \* 0x7D

\* x ^ 2**k, and x ^ b for a byte b.
Flip(x, k) == IF (x \div 2^k) % 2 = 1 THEN x - 2^k ELSE x + 2^k
Xor(x, b) ==
  FoldLeft(LAMBDA y, i : IF (b \div 2^(i - 1)) % 2 = 1 THEN Flip(y, i - 1) ELSE y,
           x, [i \in 1 .. 8 |-> i])
Quote(b) == Flip(b, 5)   \* b ^ 0x20

\* 0x8408 are the bits 15, 10 and 3.
CrcBit(crc, i) ==
  IF crc % 2 = 1 THEN Flip(Flip(Flip(crc \div 2, 15), 10), 3) ELSE crc \div 2

crc16(data) ==
  65535 - FoldLeft(LAMBDA crc, b : FoldLeft(CrcBit, Xor(crc, b), [i \in 1 .. 8 |-> i]), 65535, data)

\* Faulty variant: the CRC is not escaped.
EncodeBareCrc(payload) ==
  LET crc == crc16(payload)
      esc(b) == IF b \in {Flag, Escape} THEN <<Escape, Quote(b)>> ELSE <<b>>
  IN  FlattenSeq([i \in DOMAIN payload |-> esc(payload[i])])
        \o <<crc % 256, crc \div 256, Flag>>

hdlc_encode(payload) ==
  LET crc == crc16(payload)
      frame == payload \o <<crc % 256, crc \div 256>>
      esc(b) == IF b \in {Flag, Escape} THEN <<Escape, Quote(b)>> ELSE <<b>>
  IN  FlattenSeq([i \in DOMAIN frame |-> esc(frame[i])]) \o <<Flag>>

Unescape(frame) ==
  FoldLeft(LAMBDA s, b :
             IF s.esc THEN [out |-> Append(s.out, Quote(b)), esc |-> FALSE]
             ELSE IF b = Escape THEN [s EXCEPT !.esc = TRUE]
             ELSE [s EXCEPT !.out = Append(s.out, b)],
           [out |-> <<>>, esc |-> FALSE], frame).out

WithoutFlag(frame) ==
  IF frame # <<>> /\ Last(frame) = Flag THEN Front(frame) ELSE frame

\* out[:-2]: an output of two bytes or less becomes empty.
DropCrc(out) == SubSeq(out, 1, Len(out) - 2)

hdlc_decode(frame) == DropCrc(Unescape(WithoutFlag(frame)))

\* The host's decoder: nothing to unescape is the fast path.
host_decode(raw) ==
  LET frame == WithoutFlag(raw)
      out == IF Contains(frame, Escape) THEN Unescape(frame) ELSE frame
  IN  IF Len(out) > 2 THEN DropCrc(out) ELSE out

\* split(b"\x7e"), without the empty parts.
Frames(entry) ==
  LET parts == FoldLeft(LAMBDA s, b : IF b = Flag THEN Append(s, <<>>)
                          ELSE [s EXCEPT ![Len(s)] = Append(@, b)], <<<<>>>>, entry)
  IN  SelectSeq(parts, LAMBDA f : f # <<>>)

-----------------------------------------------------------------------------
(* One read(): a data type, a number of entries, and the entries, each     *)
(* behind its length.                                                      *)

UserSpaceDataType == 32

\* The entries up to the first that is empty or not there as a whole.
Entries(buf) ==
  IF Len(buf) < 2 \/ buf[1] # UserSpaceDataType THEN <<>>
  ELSE FoldLeft(LAMBDA s, i :
         LET ln == IF s.off < Len(buf) THEN buf[s.off + 1] ELSE 0
             end == s.off + 1 + ln
         IN  IF ln <= 0 \/ end > Len(buf) THEN [s EXCEPT !.off = Len(buf)]
             ELSE [off |-> end, out |-> Append(s.out, SubSeq(buf, s.off + 2, end))],
         [off |-> 2, out |-> <<>>], [i \in 1 .. buf[2] |-> i]).out

\* diagpeek.py does not decode.
raw_frames(buf) ==
  LET entries == Entries(buf) IN FlattenSeq([i \in DOMAIN entries |-> Frames(entries[i])])

\* None is <<>>, a packet pkt is <<pkt>>.  Frames are rejected by their first
\* byte before they are unescaped.
find_frame(buf, prefix) ==
  LET hits == SelectSeq(raw_frames(buf),
                LAMBDA f : f[1] = prefix[1] /\ IsPrefix(prefix, hdlc_decode(Append(f, Flag))))
  IN  IF hits = <<>> THEN <<>> ELSE <<hdlc_decode(Append(Head(hits), Flag))>>

diagsip_frames(buf) ==
  LET raw == raw_frames(buf) IN [i \in DOMAIN raw |-> hdlc_decode(Append(raw[i], Flag))]

sdpwatch_frames(buf) ==
  LET raw == raw_frames(buf) IN [i \in DOMAIN raw |-> hdlc_decode(Append(raw[i], Flag))]

sdpdump_frames(buf) ==
  LET raw == raw_frames(buf) IN [i \in DOMAIN raw |-> hdlc_decode(Append(raw[i], Flag))]

sdprawparse_frames(buf) ==
  LET raw == raw_frames(buf) IN [i \in DOMAIN raw |-> host_decode(Append(raw[i], Flag))]

f3parse_frames(buf) ==
  LET raw == raw_frames(buf) IN [i \in DOMAIN raw |-> host_decode(Append(raw[i], Flag))]

\* scripts/qmi/f3probe.py, _frames() and _hdlc(): the flag is gone already.
f3probe_frames(buf) ==
  LET raw == raw_frames(buf) IN [i \in DOMAIN raw |-> host_decode(raw[i])]

\* scripts/diag/f3probe.py: by the first byte as it is in the frame.
F3 == 121                \* 0x79
Terse == {146, 147}      \* 0x92, 0x93
f3_frames(buf) ==
  LET raw == SelectSeq(raw_frames(buf), LAMBDA f : f[1] \in Terse \union {F3})
  IN  [i \in DOMAIN raw |-> IF raw[i][1] \in Terse THEN <<"terse">>
                            ELSE <<"f3", DropCrc(IF Contains(raw[i], Escape) THEN Unescape(raw[i]) ELSE raw[i])>>]

-----------------------------------------------------------------------------
(* The text in a packet: the first of its longest printable runs, if that  *)
(* has minrun bytes.  None is <<>>.                                        *)

Printable == 32 .. 126

\* sdpwatch.py, byte by byte.
watch_longest_text(body, minrun) ==
  LET end == FoldLeft(LAMBDA s, i :
               IF body[i] \notin Printable THEN [s EXCEPT !.run = 0]
               ELSE LET start == IF s.run = 0 THEN i ELSE s.start
                    IN  [start |-> start, run |-> s.run + 1,
                         best |-> IF s.run + 1 > Len(s.best) THEN SubSeq(body, start, i) ELSE s.best],
               [start |-> 0, run |-> 0, best |-> <<>>], [i \in DOMAIN body |-> i])
  IN  IF Len(end.best) < minrun THEN <<>> ELSE end.best

\* sdprawparse.py, the matches of a pattern: runs that cannot be extended.
parse_longest_text(body, minrun) ==
  LET Runs == {r \in (DOMAIN body) \X (DOMAIN body) :
                 /\ r[2] - r[1] + 1 >= minrun
                 /\ \A i \in r[1] .. r[2] : body[i] \in Printable
                 /\ r[1] = 1 \/ body[r[1] - 1] \notin Printable
                 /\ r[2] = Len(body) \/ body[r[2] + 1] \notin Printable}
      longest == {r \in Runs : \A q \in Runs : q[2] - q[1] <= r[2] - r[1]}
      first == CHOOSE r \in longest : \A q \in longest : r[1] <= q[1]
  IN  IF Runs = {} THEN <<>> ELSE SubSeq(body, first[1], first[2])

-----------------------------------------------------------------------------
Init == packets = <<<<>>>>

Total == Len(FlattenSeq(packets))

AddByte(b) ==
  packets' = [packets EXCEPT ![Len(packets)] = Append(@, b)]

AddPacket ==
  Last(packets) # <<>> /\ packets' = Append(packets, <<>>)

Next ==
  \/ Total < MaxBytes /\ \E b \in Bytes : AddByte(b)
  \/ Total < MaxBytes /\ AddPacket

Spec == Init /\ [][Next]_packets

-----------------------------------------------------------------------------
(* Properties.                                                             *)

Sent == SelectSeq(packets, LAMBDA p : p # <<>>)

\* The driver's batch of packets that are encoded so, the first k of them in
\* one entry.
Batch(wire, k) ==
  LET Entry(from, to) ==
        LET bytes == FlattenSeq(SubSeq(wire, from, to))
        IN  IF bytes = <<>> THEN <<>> ELSE <<Len(bytes)>> \o bytes
  IN  <<UserSpaceDataType, IF k \in 1 .. Len(wire) - 1 THEN 2 ELSE IF wire = <<>> THEN 0 ELSE 1>>
        \o Entry(1, k) \o Entry(k + 1, Len(wire))

Batches ==
  UNION {{Batch(wire, k) : k \in 0 .. Len(Sent)} : wire \in {[i \in DOMAIN Sent |-> hdlc_encode(Sent[i])]}}

\* What is encoded is decoded, however packets follow one another and
\* wherever the entries end: no flag is left inside a frame, its CRC included.
\* The copies of the loop agree, fast path or not: of a batch that is cut
\* short each yields the packets of the entries before the cut and nothing
\* that was not sent, of a whole batch all of them, and the F3 reader of
\* diag/f3probe.py those of the types it tells apart.
ReadersAgree ==
  \A batch \in Batches :
    \A buf \in {SubSeq(batch, 1, n) : n \in {1} \union (Len(batch) - 4 .. Len(batch))} :
      \A got \in {sdpwatch_frames(buf)} :
        LET f3 == SelectSeq(got, LAMBDA p : p[1] \in Terse \union {F3}) IN
          /\ IsPrefix(got, Sent)
          /\ buf = batch => got = Sent
          /\ \A copy \in {diagsip_frames(buf), sdpdump_frames(buf), sdprawparse_frames(buf),
                          f3parse_frames(buf), f3probe_frames(buf)} : copy = got
          /\ f3_frames(buf) = [i \in DOMAIN f3 |-> IF f3[i][1] \in Terse THEN <<"terse">> ELSE <<"f3", f3[i]>>]

\* find_frame() returns the first packet that starts with the prefix, in
\* whichever entry it is, and none only if there is none, though it rejects
\* frames before it unescapes them; 0x7E is no command.
FindsTheFirst ==
  LET First(prefix) ==
        LET hits == SelectSeq(Sent, LAMBDA p : IsPrefix(prefix, p))
        IN  IF hits = <<>> THEN <<>> ELSE <<Head(hits)>>
  IN  \A batch \in Batches : \A c \in Bytes \ {Flag} :
        \A prefix \in {<<c>>} \union {<<c, b>> : b \in Bytes} :
          find_frame(batch, prefix) = First(prefix)

\* The byte loop of sdpwatch.py and the pattern of sdprawparse.py find the
\* same text.
TextsAgree ==
  \A i \in DOMAIN Sent : \A minrun \in 1 .. 3 :
    watch_longest_text(Sent[i], minrun) = parse_longest_text(Sent[i], minrun)
=============================================================================
