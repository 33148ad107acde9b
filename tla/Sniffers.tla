------------------------------ MODULE Sniffers ------------------------------
(***************************************************************************)
(* scripts/qmi/imssniff.py and sipsniff.py: what they make of the packets  *)
(* of all interfaces, raw IP from rmnet and Ethernet frames from the rest. *)
(* A packet is the sequence of its bytes, counted from 1.                  *)
(***************************************************************************)
EXTENDS Integers, SequencesExt

CONSTANTS
  MaxPackets,
  Limit,    \* of the packets imssniff.py keeps: 12
  Macs      \* first bytes of an Ethernet frame

VARIABLES
  packets,  \* received: [iface, bytes, and what they were made of]
  counts,   \* imssniff.py: packets by <<iface, proto>>
  kept,     \* imssniff.py: [iface, sport, dport, body]
  sip       \* sipsniff.py: the bodies it printed

vars == <<packets, counts, kept, sip>>

Tcp == 6
Udp == 17
Esp == 50

From(s, n) == SubSeq(s, n, Len(s))
Word(s, n) == s[n] * 256 + s[n + 1]

\* Faulty variant: a TCP header has 20 bytes.
BodyAt20(proto, payload) == From(payload, IF proto = Udp THEN 9 ELSE 21)

\* A UDP header has 8 bytes; TCP's says how many words it has.
Body(proto, payload) ==
  IF proto = Udp THEN From(payload, 9)
  ELSE From(payload, 1 + (IF Len(payload) > 12 THEN (payload[13] \div 16) * 4 ELSE 20))

\* Where the IP header starts: at 1, behind an Ethernet header, or nowhere
\* (imssniff.py).
IpAt(pkt) ==
  IF pkt[1] \div 16 \in {4, 6} THEN 1
  ELSE IF Len(pkt) > 14 /\ pkt[13] = 8 /\ pkt[14] = 0 THEN 15 ELSE 0

Proto(pkt, at) == IF pkt[at] \div 16 = 6 THEN pkt[at + 6] ELSE pkt[at + 9]
Payload(pkt, at) == From(pkt, at + (IF pkt[at] \div 16 = 6 THEN 40 ELSE (pkt[at] % 16) * 4))

\* The method of a SIP message, all its beginning is told by; the first byte
\* stands for it, and is one of
Reply == 83    \* SIP/2.0 and REGISTER, which both programs look for
Request == 73  \* INVITE, ACK, BYE, OPTIONS, SUBSCRIBE, MESSAGE: imssniff.py only
Other == 78    \* NOTIFY, CANCEL, UPDATE, PRACK, INFO, REFER: neither of them

Begins(body, methods) == body # <<>> /\ body[1] \in methods

imssniff(iface, pkt) ==
  LET at == IpAt(pkt) IN
  IF Len(pkt) < 20 \/ at = 0 THEN UNCHANGED <<counts, kept>>
  ELSE LET proto == Proto(pkt, at)
           payload == Payload(pkt, at)
       IN  /\ counts' = [k \in DOMAIN counts \union {<<iface, proto>>} |->
                          (IF k \in DOMAIN counts THEN counts[k] ELSE 0) + (IF k = <<iface, proto>> THEN 1 ELSE 0)]
           /\ IF /\ proto \in {Tcp, Udp} /\ Len(payload) >= 8 /\ Len(kept) < Limit
                 /\ \/ {Word(payload, 1), Word(payload, 3)} \intersect {5060, 5061} # {}
                    \/ iface = "rmnet_data2" \/ Begins(Body(proto, payload), {Reply, Request})
                 /\ Len(Body(proto, payload)) > 4
              THEN kept' = Append(kept, [iface |-> iface, sport |-> Word(payload, 1),
                                         dport |-> Word(payload, 3), body |-> Body(proto, payload)])
              ELSE UNCHANGED kept

\* sipsniff.py skips 14 bytes when only what follows can be IP.
SkipLink(pkt) ==
  IF pkt[1] \div 16 \notin {4, 6} /\ Len(pkt) > 14 /\ pkt[15] \div 16 \in {4, 6} THEN From(pkt, 15) ELSE pkt

sipsniff(pkt) ==
  LET ip == SkipLink(pkt) IN
  IF ip[1] \div 16 \notin {4, 6} THEN UNCHANGED sip
  ELSE LET payload == Payload(ip, 1)
       IN  IF /\ Proto(ip, 1) = Udp /\ Len(payload) >= 8
              /\ \/ 5060 \in {Word(payload, 1), Word(payload, 3)}
                 \/ Begins(From(payload, 9), {Reply})
           THEN sip' = Append(sip, From(payload, 9)) ELSE UNCHANGED sip

-----------------------------------------------------------------------------
(* The packets.                                                            *)

Zeros(n) == [i \in 1 .. n |-> 0]
Ports(p) == <<p \div 256, p % 256, 158, 51>>

Transport(proto, port, options, body) ==
  Ports(port) \o (IF proto = Udp THEN Zeros(4)
                  ELSE Zeros(8) \o <<(5 + options) * 16>> \o Zeros(7 + 4 * options)) \o body

Ip4(options, proto, payload) ==
  <<64 + 5 + options>> \o Zeros(8) \o <<proto>> \o Zeros(10 + 4 * options) \o payload
Ip6(proto, payload) == <<96>> \o Zeros(5) \o <<proto>> \o Zeros(33) \o payload

Ethernet(mac, type, ip) == <<mac>> \o Zeros(11) \o type \o ip

\* Five bytes are the least imssniff.py keeps.
Text(method) == <<method, 32, 49, 46, 48>>
Bodies == {Text(Reply), Text(Request), Text(Other), Front(Text(Reply)), Text(1), <<>>}

\* v is the IP version; ext, that an extension header of IPv6 is in between;
\* and the link is raw when mac is 0.
Packet(iface, mac, v, ext, proto, port, options, body) ==
  LET inner == IF proto = Esp THEN Zeros(8) \o body ELSE Transport(proto, port, options, body)
      ip == IF v = 4 THEN Ip4(options, proto, inner)
            ELSE IF ext THEN Ip6(0, <<proto>> \o Zeros(7) \o inner) ELSE Ip6(proto, inner)
  IN  [iface |-> iface, mac |-> mac, v |-> v, ext |-> ext, proto |-> proto, port |-> port, body |-> body,
       bytes |-> IF iface = "wlan0" THEN Ethernet(mac, IF v = 4 THEN <<8, 0>> ELSE <<134, 221>>, ip) ELSE ip]

Init == packets = <<>> /\ counts = <<>> /\ kept = <<>> /\ sip = <<>>

Receive ==
  /\ Len(packets) < MaxPackets
  /\ \E iface \in {"rmnet_data1", "rmnet_data2", "wlan0"}, v \in {4, 6}, ext \in BOOLEAN,
        proto \in {Tcp, Udp, Esp}, port \in {5060, 5061, 40000}, options \in {0, 3}, body \in Bodies :
     \E mac \in IF iface = "wlan0" THEN Macs ELSE {0} :
       /\ proto # Tcp => options = 0
       /\ proto = Esp => port = 5060 /\ body = Text(Reply)
       /\ ext => v = 6 /\ proto = Udp
       /\ LET p == Packet(iface, mac, v, ext, proto, port, options, body)
          IN  /\ packets' = Append(packets, p)
              /\ imssniff(iface, p.bytes)
              /\ sipsniff(p.bytes)

Next == Receive

Spec == Init /\ [][Next]_vars

-----------------------------------------------------------------------------
Raw(p) == p.iface # "wlan0"

\* Neither program looks behind an extension header of IPv6, and both take an
\* Ethernet frame for IP whose first digit is 4 or 6.
Visible(p) == p.proto # Esp /\ ~p.ext /\ p.mac \div 16 \notin {4, 6}

\* By the methods f3parse.py knows (45-47).
IsSip(p) == Len(p.body) > 4 /\ Begins(p.body, {Reply, Request, Other})

\* Kept by nothing: its method is not in the list, and neither the port nor
\* the interface is one whose traffic is kept whatever it is.
Overlooked(p) ==
  Begins(p.body, {Other}) /\ p.port \notin {5060, 5061} /\ p.iface # "rmnet_data2"

\* imssniff.py says "no plaintext SIP seen" only when no message came in over
\* IPv4 or over the modem's own interfaces, whatever the options in its headers,
\* but for a method that is not in its list, off the SIP ports and on another
\* interface than rmnet_data2; what it keeps of one is its text.
PlaintextIsSeen ==
  /\ kept = <<>> => \A i \in DOMAIN packets :
       Visible(packets[i]) /\ IsSip(packets[i]) /\ (Raw(packets[i]) \/ packets[i].v = 4)
       => Overlooked(packets[i])
  /\ \A j \in DOMAIN kept : \E i \in DOMAIN packets :
       packets[i].iface = kept[j].iface /\ packets[i].body = kept[j].body

\* sipsniff.py prints the bodies of just the UDP packets it can see that are on
\* 5060 or begin as a reply or a REGISTER does, in order.
SnifferIsExact ==
  sip = LET s == SelectSeq(packets, LAMBDA p :
                   Visible(p) /\ p.proto = Udp /\ (p.port = 5060 \/ Begins(p.body, {Reply})))
        IN  [i \in DOMAIN s |-> s[i].body]
=============================================================================
