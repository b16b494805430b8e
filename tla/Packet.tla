-------------------------------- MODULE Packet --------------------------------
(***************************************************************************)
(* The parser and rewriter of internal/sysCapture/packet.go, as operators. *)
(* A packet is a record of what the code reads and writes: the length and  *)
(* offset fields of its headers, the number of bytes that were captured,   *)
(* and the bytes that follow the headers.  Lengths are those of the real   *)
(* headers; a length field holds them modulo LenMod (65536 in the code).   *)
(***************************************************************************)
EXTENDS Integers, Sequences

CONSTANTS Endpoints,  \* addresses with ports
          Bytes,      \* the bytes of payloads
          LenMod      \* length fields wrap at this number

ASSUME PacketAssumption == LenMod \in Nat /\ LenMod > 40

\* pos is where the transport header begins, as IPv4's IHL says; doff is TCP's
\* data offset; length is IPv4's total or IPv6's payload length.
Packet ==
  [version : {4, 6, 0}, ihl : Nat, fragment : BOOLEAN, length : Nat,
   protocol : {"tcp", "udp", "other"}, src : Endpoints, dst : Endpoints,
   doff : Nat, udpLength : Nat, captured : Nat, data : Seq(Bytes)]

HeaderLen(p) == IF p.version = 4 THEN p.ihl ELSE 40

Smaller(m, n) == IF m < n THEN m ELSE n

\* Where the packet ends: a capture may be padded, or cut short.
End(p) == Smaller(p.captured, IF p.version = 4 THEN p.length ELSE 40 + p.length)

parseIPv4(p) ==
  /\ p.version = 4
  /\ p.captured >= 20 /\ p.ihl >= 20 /\ p.captured >= p.ihl
  /\ ~p.fragment

\* Extension headers are a protocol that is neither TCP nor UDP.
parseIPv6(p) == p.version = 6 /\ p.captured >= 40

parseTransport(p) ==
  \/ /\ p.protocol = "tcp"
     /\ End(p) >= HeaderLen(p) + 20
     /\ p.doff >= 20 /\ HeaderLen(p) + p.doff <= End(p)
  \/ /\ p.protocol = "udp"
     /\ End(p) >= HeaderLen(p) + 8

\* The packet can be parsed; the others are forwarded as they are.
parsePacket(p) == (parseIPv4(p) \/ parseIPv6(p)) /\ parseTransport(p)

payloadOff(p) == HeaderLen(p) + IF p.protocol = "tcp" THEN p.doff ELSE 8

payloadLen(p) == End(p) - payloadOff(p)

\* A packet's data are the bytes that were captured behind its headers.
Whole(p) == parsePacket(p) => Len(p.data) = p.captured - payloadOff(p)

payload(p) == SubSeq(p.data, 1, payloadLen(p))

\* Mutant: the endpoints as they come.
flowKeyDirected(p) == <<p.protocol, <<p.src, p.dst>>>>

\* The two endpoints are sorted, so that the direction does not matter.
flowKey(p) == <<p.protocol, {p.src, p.dst}>>

\* The length check of an edit, which Resolve makes as well.
Replaceable(p, new) == p.protocol = "tcp" => Len(new) = payloadLen(p)

\* Mutant: UDP's own length is left as it was.
replacePayloadKeepingLength(p, new) ==
  IF p.protocol = "tcp"
  THEN [p EXCEPT !.data = new \o SubSeq(@, Len(new) + 1, Len(@))]
  ELSE LET size == payloadOff(p) + Len(new)
       IN [p EXCEPT !.data = new, !.captured = size,
                    !.length = (IF p.version = 6 THEN size - 40 ELSE size) % LenMod]

\* TCP: the bytes are replaced in place, padding stays.  UDP: a packet of
\* another size, with its length fields patched.
replacePayload(p, new) ==
  IF p.protocol = "tcp"
  THEN [p EXCEPT !.data = new \o SubSeq(@, Len(new) + 1, Len(@))]
  ELSE LET size == payloadOff(p) + Len(new)
       IN [p EXCEPT !.data = new, !.captured = size,
                    !.udpLength = (8 + Len(new)) % LenMod,
                    !.length = (IF p.version = 6 THEN size - 40 ELSE size) % LenMod]

\* What the receiving host's stack takes from a packet: the bytes the IP
\* header counts and, of a datagram, no more than UDP's own length.
Delivered(p) ==
  SubSeq(p.data, 1,
         IF p.protocol = "udp" THEN Smaller(p.udpLength - 8, payloadLen(p))
                               ELSE payloadLen(p))

=============================================================================
