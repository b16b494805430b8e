--------------------------- MODULE SysCaptureProofs ----------------------------
(***************************************************************************)
(* System capture, for any packets with whatever header lengths, options   *)
(* and padding, any edits, and any number of packets and sessions.         *)
(***************************************************************************)
EXTENDS SysCapture, SequenceTheorems, FiniteSetTheorems, TLAPS

-----------------------------------------------------------------------------
(* What the rewriter makes of a packet that was parsed.                    *)

\* The beginning of a sequence.
LEMMA PrefixIs ==
  ASSUME NEW S, NEW s \in Seq(S), NEW n \in 0..Len(s)
  PROVE  /\ SubSeq(s, 1, n) \in Seq(S) /\ Len(SubSeq(s, 1, n)) = n
         /\ \A i \in 1..n : SubSeq(s, 1, n)[i] = s[i]
         /\ IsPrefix(SubSeq(s, 1, n), s)
  <1>. DEFINE t == SubSeq(s, 1, n)
  <1>1. \A i \in 1..n : s[i] \in S
    BY ElementOfSeq
  <1>2. t \in Seq(S) /\ Len(t) = n /\ \A i \in 1..n : t[i] = s[i]
    BY <1>1, SubSeqProperties
  <1>3. SubSeq(t, 1, n) = t
    BY <1>2, SubSeqFull
  <1>. HIDE DEF t
  <1>4. IsPrefix(t, s)
    BY <1>2, <1>3 DEF IsPrefix, t
  <1>. QED
    BY <1>2, <1>4 DEF t

\* Where the payload is: within the bytes that were captured.
LEMMA PayloadIs ==
  ASSUME NEW p \in Packet, parsePacket(p), Whole(p)
  PROVE  /\ payloadOff(p) \in Nat /\ payloadLen(p) \in 0..Len(p.data)
         /\ End(p) = payloadOff(p) + payloadLen(p)
         /\ p.protocol \in {"tcp", "udp"} /\ p.version \in {4, 6}
         /\ payload(p) \in Seq(Bytes) /\ Len(payload(p)) = payloadLen(p)
  <1>1. /\ p.version \in {4, 6} /\ p.protocol \in {"tcp", "udp"}
        /\ HeaderLen(p) \in Nat /\ payloadOff(p) \in Nat /\ End(p) \in Nat
        /\ payloadOff(p) <= End(p) /\ End(p) <= p.captured
    <2>1. /\ p.version \in {4, 6} /\ p.protocol \in {"tcp", "udp"}
          /\ p.ihl \in Nat /\ p.length \in Nat /\ p.doff \in Nat /\ p.captured \in Nat
      BY DEF Packet, parsePacket, parseIPv4, parseIPv6, parseTransport
    <2>2. HeaderLen(p) \in Nat
      BY <2>1 DEF HeaderLen
    <2>3. End(p) \in Nat /\ End(p) <= p.captured
      BY <2>1 DEF End, Smaller
    <2>4. /\ p.protocol = "tcp" => HeaderLen(p) + p.doff <= End(p)
          /\ p.protocol = "udp" => HeaderLen(p) + 8 <= End(p)
      BY DEF parsePacket, parseTransport
    <2>. QED
      BY <2>1, <2>2, <2>3, <2>4 DEF payloadOff
  <1>2. p.data \in Seq(Bytes) /\ Len(p.data) = p.captured - payloadOff(p) /\ p.captured \in Nat
    BY DEF Packet, Whole
  <1>3. payloadLen(p) \in 0..Len(p.data) /\ End(p) = payloadOff(p) + payloadLen(p)
    BY <1>1, <1>2 DEF payloadLen
  <1>4. payload(p) \in Seq(Bytes) /\ Len(payload(p)) = payloadLen(p)
    BY <1>2, <1>3, PrefixIs DEF payload
  <1>. QED
    BY <1>1, <1>3, <1>4

\* What is delivered of a packet as it came, if its length fields agree.
LEMMA AsItCame ==
  ASSUME NEW p \in Packet, parsePacket(p), Whole(p),
         p.protocol = "udp" => p.udpLength = 8 + payloadLen(p)
  PROVE  Delivered(p) = payload(p)
  <1>1. p.protocol = "udp" => Smaller(p.udpLength - 8, payloadLen(p)) = payloadLen(p)
    BY PayloadIs DEF Smaller
  <1>. QED
    BY <1>1 DEF Delivered, payload

\* A TCP payload that is replaced in place.
LEMMA ReplacedInPlace ==
  ASSUME NEW S, NEW s \in Seq(S), NEW new \in Seq(S), Len(new) <= Len(s)
  PROVE  SubSeq(new \o SubSeq(s, Len(new) + 1, Len(s)), 1, Len(new)) = new
  <1>. DEFINE n == Len(new)
              rest == SubSeq(s, n + 1, Len(s))
  <1>1. n \in Nat /\ Len(s) \in Nat
    OBVIOUS
  <1>2. rest \in Seq(S)
    <2>1. \A i \in (n + 1)..Len(s) : s[i] \in S
      BY <1>1, ElementOfSeq
    <2>. QED
      BY <1>1, <2>1, SubSeqProperties
  <1>. HIDE DEF rest
  <1>3. CASE n = 0
    <2>1. new = <<>> /\ SubSeq(new \o rest, 1, 0) = <<>>
      BY <1>3, EmptySeq, SubSeqEmpty
    <2>. QED
      BY <1>3, <2>1 DEF rest
  <1>4. CASE n # 0
    <2>1. 1 \in 1..n /\ n \in 1..n
      BY <1>1, <1>4
    <2>2. SubSeq(new \o rest, 1, n) = SubSeq(new, 1, n)
      BY <1>2, <2>1, SubSeqOfConcat1
    <2>. QED
      BY <2>2, SubSeqFull DEF rest
  <1>. QED
    BY <1>3, <1>4

\* An edited packet is one of the same flow that can be parsed, and the other host's
\* stack takes the edit's bytes from it and no others, wherever options, padding and
\* the length fields put them (packet.go: replacePayload).
THEOREM EditIsDelivered ==
  ASSUME NEW p \in Packet, parsePacket(p), Whole(p),
         NEW new \in Seq(Bytes), Replaceable(p, new), payloadOff(p) + Len(new) < LenMod
  PROVE  LET out == replacePayload(p, new)
         IN /\ parsePacket(out) /\ flowKey(out) = flowKey(p)
            /\ Delivered(out) = new
  <1>. DEFINE out == replacePayload(p, new)
              size == payloadOff(p) + Len(new)
  <1>1. /\ payloadOff(p) \in Nat /\ payloadLen(p) \in 0..Len(p.data) /\ Len(new) \in Nat
        /\ p.data \in Seq(Bytes) /\ p.version \in {4, 6}
    BY PayloadIs DEF Packet
  <1>2. CASE p.protocol = "tcp"
    <2>1. out = [p EXCEPT !.data = new \o SubSeq(p.data, Len(new) + 1, Len(p.data))]
      BY <1>2 DEF replacePayload
    <2>2. /\ out.version = p.version /\ out.ihl = p.ihl /\ out.fragment = p.fragment
          /\ out.length = p.length /\ out.protocol = p.protocol /\ out.src = p.src
          /\ out.dst = p.dst /\ out.doff = p.doff /\ out.captured = p.captured
          /\ out.data = new \o SubSeq(p.data, Len(new) + 1, Len(p.data))
      BY <2>1 DEF Packet
    <2>. HIDE DEF out
    <2>3. parsePacket(out) /\ flowKey(out) = flowKey(p) /\ payloadLen(out) = payloadLen(p)
      BY <2>2 DEF parsePacket, parseIPv4, parseIPv6, parseTransport, flowKey, payloadLen,
                  payloadOff, HeaderLen, End
    <2>4. payloadLen(out) = Len(new)
      BY <1>2, <2>3 DEF Replaceable
    <2>5. SubSeq(out.data, 1, Len(new)) = new
      BY <1>1, <2>2, <2>3, <2>4, ReplacedInPlace
    <2>6. Delivered(out) = new
      BY <1>2, <2>2, <2>4, <2>5 DEF Delivered
    <2>. QED
      BY <2>3, <2>6 DEF out
  <1>3. CASE p.protocol = "udp"
    <2>1. out = [p EXCEPT !.data = new, !.captured = size, !.udpLength = (8 + Len(new)) % LenMod,
                          !.length = (IF p.version = 6 THEN size - 40 ELSE size) % LenMod]
      BY <1>3 DEF replacePayload
    <2>2. /\ out.version = p.version /\ out.ihl = p.ihl /\ out.fragment = p.fragment
          /\ out.protocol = p.protocol /\ out.src = p.src /\ out.dst = p.dst
          /\ out.captured = size /\ out.data = new
          /\ out.udpLength = (8 + Len(new)) % LenMod
          /\ out.length = (IF p.version = 6 THEN size - 40 ELSE size) % LenMod
      BY <2>1 DEF Packet
    <2>3. /\ HeaderLen(p) \in Nat /\ payloadOff(p) = HeaderLen(p) + 8
          /\ p.version = 6 => HeaderLen(p) = 40
          /\ HeaderLen(p) + 8 <= size
      BY <1>1, <1>3 DEF payloadOff, HeaderLen, Packet
    <2>4. \A n \in 0..(LenMod - 1) : n % LenMod = n
      BY PacketAssumption
    <2>5. /\ 8 + Len(new) \in 0..(LenMod - 1) /\ size \in 0..(LenMod - 1)
          /\ p.version = 6 => size - 40 \in 0..(LenMod - 1)
      <3>1. ASSUME NEW h \in Nat, NEW n \in Nat, h + 8 + n < LenMod
            PROVE  /\ 8 + n \in 0..(LenMod - 1) /\ h + 8 + n \in 0..(LenMod - 1)
                   /\ h = 40 => h + 8 + n - 40 \in 0..(LenMod - 1)
        BY <3>1, PacketAssumption
      <3>2. HeaderLen(p) + 8 + Len(new) < LenMod /\ size = HeaderLen(p) + 8 + Len(new)
        BY <2>3
      <3>. HIDE DEF size
      <3>. QED
        BY <1>1, <2>3, <3>1, <3>2
    <2>6. /\ out.udpLength = 8 + Len(new)
          /\ out.length = IF p.version = 6 THEN size - 40 ELSE size
      BY <2>2, <2>4, <2>5
    <2>. HIDE DEF out, size
    <2>7. HeaderLen(out) = HeaderLen(p) /\ payloadOff(out) = payloadOff(p)
      BY <1>3, <2>2, <2>3 DEF HeaderLen, payloadOff
    <2>8. End(out) = size
      BY <1>1, <2>2, <2>5, <2>6 DEF End, Smaller
    <2>9. parsePacket(out)
      <3>1. CASE parseIPv4(p)
        BY <1>1, <1>3, <2>2, <2>3, <2>5, <2>7, <2>8, <3>1
        DEF parsePacket, parseIPv4, parseTransport, HeaderLen, Packet
      <3>2. CASE parseIPv6(p)
        BY <1>1, <1>3, <2>2, <2>3, <2>5, <2>7, <2>8, <3>2
        DEF parsePacket, parseIPv6, parseTransport, HeaderLen
      <3>. QED
        BY <3>1, <3>2 DEF parsePacket
    <2>10. payloadLen(out) = Len(new) /\ out.udpLength - 8 = Len(new)
      BY <1>1, <2>6, <2>7, <2>8 DEF payloadLen, size
    <2>11. Delivered(out) = new
      BY <1>3, <2>2, <2>10, SubSeqFull DEF Delivered, Smaller
    <2>12. flowKey(out) = flowKey(p)
      BY <2>2 DEF flowKey
    <2>. QED
      BY <2>9, <2>11, <2>12 DEF out
  <1>. QED
    BY <1>2, <1>3, PayloadIs

-----------------------------------------------------------------------------
(* The packet that the loop works on.                                      *)

Labels == {"none", "recv", "lookup", "open", "insert", "hold", "held", "store",
           "track", "send", "ended"}

Between == {"none", "recv", "ended"}
Undecided == {"lookup", "open", "insert", "hold", "held"}

Fresh(p) == [data |-> payload(p), edited |-> FALSE, drop |-> FALSE]

\* What a resolution makes of a packet's payload, and that it was one that may.
Decided(p, res) ==
  [data |-> IF res.kind = "edit" THEN res.data ELSE payload(p),
   edited |-> res.kind = "edit" /\ res.data # payload(p),
   drop |-> res.kind = "drop"]

Made ==
  \/ told = None /\ chunk = Fresh(pkt.packet)
  \/ /\ told \in Resolutions /\ chunk = Decided(pkt.packet, told)
     /\ told.kind = "edit" => Replaceable(pkt.packet, told.data)

PacketAt ==
  /\ pc \in Labels
  /\ pc \in Between => told = None /\ chunk = Nothing
  /\ pc \notin Between => pkt \in Arrivals
  /\ pc \in Undecided => parsePacket(pkt.packet) /\ told = None /\ chunk = Fresh(pkt.packet)
  /\ pc \in {"store", "track"} => parsePacket(pkt.packet) /\ Made
  /\ pc = "send" => IF chunk = Nothing THEN told = None
                    ELSE parsePacket(pkt.packet) /\ Made /\ ~chunk.drop

\* The last packet stays in view until the next is received.
InjectedAt ==
  /\ pc \notin {"recv", "ended"} => injected = Nothing
  /\ injected # Nothing => injected.n = received
  /\ AckedIsInjected

\* The rows: of the packet in hand there is none before Store, and afterwards it is
\* about what is going to be sent.
RowsAt ==
  /\ received \in 0..MaxPackets /\ (pc \notin Between => received > 0)
  /\ rows \in [Sessions -> Seq(ChunkRow)]
  /\ captured \in [Sessions -> [Dirs -> 0..MaxCapture]]
  /\ pc \in {"hold", "held", "store", "track"} => current \in Sessions
  /\ \A i \in Sessions : \A r \in Range(rows[i]) :
       /\ r.n <= received
       /\ pc \in Undecided \cup {"store"} \/ (pc = "send" /\ chunk = Nothing) => r.n < received
       /\ pc \in {"track", "send"} /\ chunk # Nothing /\ r.n = received =>
            /\ r.size = Len(chunk.data) /\ IsPrefix(r.data, chunk.data)
            /\ r.edited = chunk.edited
  /\ HistoryTellsWire

LoopInv == PacketAt /\ InjectedAt /\ RowsAt

LEMMA ArrivalIs ==
  ASSUME NEW a \in Arrivals PROVE a.packet \in Packet /\ Whole(a.packet)
  BY SysCaptureAssumption

\* The payload that a parsed packet goes on with.
LEMMA MadeIs ==
  ASSUME pkt \in Arrivals, parsePacket(pkt.packet), Made
  PROVE  /\ chunk.data \in Seq(Bytes) /\ chunk.edited \in BOOLEAN /\ chunk # Nothing
         /\ chunk.edited => /\ told.kind = "edit" /\ chunk.data = told.data
                            /\ Replaceable(pkt.packet, chunk.data)
         /\ ~chunk.edited => chunk.data = payload(pkt.packet)
         /\ told.kind = "edit" => chunk.data = told.data
         /\ told.kind = "drop" => chunk.drop
         /\ told.kind # "edit" => ~chunk.edited
         /\ chunk.edited => chunk.data # payload(pkt.packet)
  <1>. DEFINE p == pkt.packet
  <1>1. payload(p) \in Seq(Bytes)
    BY ArrivalIs, PayloadIs
  <1>. HIDE DEF p
  <1>2. CASE told = None /\ chunk = Fresh(p)
    <2>1. /\ chunk.data = payload(p) /\ chunk.edited = FALSE /\ told.kind = "none"
          /\ DOMAIN chunk = {"data", "edited", "drop"}
      BY <1>2 DEF Fresh, None
    <2>2. chunk # Nothing
      BY <2>1 DEF Nothing
    <2>. QED
      BY <1>1, <2>1, <2>2 DEF p
  <1>3. CASE /\ told \in Resolutions /\ chunk = Decided(p, told)
             /\ told.kind = "edit" => Replaceable(p, told.data)
    <2>1. /\ chunk.data = IF told.kind = "edit" THEN told.data ELSE payload(p)
          /\ chunk.edited = (told.kind = "edit" /\ told.data # payload(p))
          /\ chunk.drop = (told.kind = "drop")
          /\ DOMAIN chunk = {"data", "edited", "drop"}
      BY <1>3 DEF Decided
    <2>2. chunk # Nothing
      BY <2>1 DEF Nothing
    <2>3. told.kind = "edit" => told.data \in Seq(Bytes)
      BY <1>3, SysCaptureAssumption DEF Resolutions
    <2>. QED
      BY <1>1, <1>3, <2>1, <2>2, <2>3 DEF p
  <1>. QED
    BY <1>2, <1>3 DEF Made, p

\* What is sent of it.
LEMMA OutIs ==
  ASSUME pkt \in Arrivals, parsePacket(pkt.packet), Made, ~chunk.drop,
         NEW j, j.was = pkt.packet, j.told = told, j.out = Out
  PROVE  /\ told.kind # "drop"
         /\ told.kind # "edit" => Out = pkt.packet
         /\ Sized(j) => /\ parsePacket(Out) /\ flowKey(Out) = flowKey(pkt.packet)
                        /\ Delivered(Out) = chunk.data
                        /\ chunk.edited <=> Out # pkt.packet
  <1>. DEFINE p == pkt.packet
  <1>1. p \in Packet /\ Whole(p) /\ parsePacket(p)
    BY ArrivalIs
  <1>2. CASE ~chunk.edited
    <2>1. Out = p
      BY <1>2 DEF Out
    <2>2. Sized(j) => Delivered(p) = payload(p)
      BY <1>1, AsItCame DEF Sized
    <2>. QED
      BY <1>1, <1>2, <2>1, <2>2, MadeIs
  <1>3. CASE chunk.edited
    <2>1. /\ chunk.data \in Seq(Bytes) /\ chunk # Nothing /\ Replaceable(p, chunk.data)
          /\ told.kind = "edit" /\ chunk.data = told.data /\ chunk.data # payload(p)
      BY <1>3, MadeIs
    <2>2. Out = replacePayload(p, chunk.data)
      BY <1>3, <2>1 DEF Out
    <2>3. ASSUME Sized(j)
          PROVE  /\ parsePacket(Out) /\ flowKey(Out) = flowKey(p)
                 /\ Delivered(Out) = chunk.data /\ Delivered(p) = payload(p)
      <3>1. payloadOff(p) + Len(chunk.data) < LenMod
        BY <2>1, <2>3 DEF Sized
      <3>2. Delivered(p) = payload(p)
        BY <1>1, <2>3, AsItCame DEF Sized
      <3>. HIDE DEF p
      <3>. QED
        BY <1>1, <2>1, <2>2, <3>1, <3>2, EditIsDelivered
    <2>. QED
      BY <1>3, <2>1, <2>3
  <1>. QED
    BY <1>2, <1>3, MadeIs

\* Steps that leave the packet and the rows alone.
LEMMA LoopStays ==
  ASSUME LoopInv, UNCHANGED <<pc, pkt, current, chunk, told, received, rows, captured, injected>>
  PROVE  LoopInv'
  <1>1. Made' = Made
    BY DEF Made
  <1>2. AckedIsInjected' = AckedIsInjected /\ HistoryTellsWire' = HistoryTellsWire
    BY DEF AckedIsInjected, HistoryTellsWire
  <1>. QED
    BY <1>1, <1>2 DEF LoopInv, PacketAt, InjectedAt, RowsAt

\* Steps that take the packet from one place to the next, as it is.
LEMMA MovesOn ==
  ASSUME LoopInv, UNCHANGED <<pkt, chunk, told, received, rows, captured, injected>>,
         \/ pc \in Between /\ pc' \in {"recv", "ended"}
         \/ pc \in Undecided /\ pc' \in Undecided \cup {"store"},
         pc' \in {"hold", "held", "store"} => current' \in Sessions
  PROVE  LoopInv'
  <1>1. Made' = Made /\ (pc \in Undecided => Made)
    BY DEF Made, LoopInv, PacketAt
  <1>2. AckedIsInjected' = AckedIsInjected /\ HistoryTellsWire' = HistoryTellsWire
    BY DEF AckedIsInjected, HistoryTellsWire
  <1>3. PacketAt'
    BY <1>1 DEF LoopInv, PacketAt, Labels, Between, Undecided
  <1>4. InjectedAt'
    BY <1>2 DEF LoopInv, InjectedAt, Between, Undecided
  <1>5. RowsAt'
    BY <1>2 DEF LoopInv, RowsAt, Between, Undecided
  <1>. QED
    BY <1>3, <1>4, <1>5 DEF LoopInv

LEMMA RowIs ==
  ASSUME NEW R \in [Sessions -> Seq(ChunkRow)], NEW i \in Sessions, NEW r \in Range(R[i])
  PROVE  r \in ChunkRow /\ r.n \in Nat \ {0}
  <1>1. PICK k \in DOMAIN R[i] : r = R[i][k]
    BY DEF Range
  <1>2. r \in ChunkRow
    BY <1>1
  <1>. QED
    BY <1>2 DEF ChunkRow

LEMMA RecvLoop == ASSUME LoopInv, Recv PROVE LoopInv'
  <1>1. PICK p \in Arrivals :
          /\ pkt' = p
          /\ \/ parsePacket(p.packet) /\ chunk' = Fresh(p.packet) /\ pc' = "lookup"
             \/ ~parsePacket(p.packet) /\ pc' = "send" /\ chunk' = chunk
    BY DEF Recv, Fresh
  <1>2. /\ pc = "recv" /\ chunk = Nothing /\ told = None /\ received < MaxPackets
        /\ received \in Nat /\ received' = received + 1 /\ injected' = Nothing
        /\ UNCHANGED <<current, told, rows, captured>>
    BY DEF Recv, LoopInv, PacketAt, RowsAt, Between, rowVars
  <1>3. PacketAt'
    BY <1>1, <1>2 DEF PacketAt, Labels, Between, Undecided
  <1>4. InjectedAt'
    BY <1>1, <1>2 DEF InjectedAt, AckedIsInjected
  <1>5. RowsAt'
    <2>1. HistoryTellsWire'
      <3>1. (rows \in [Sessions -> Seq(ChunkRow)])' /\ (injected = Nothing)'
        BY <1>2 DEF LoopInv, RowsAt
      <3>2. ASSUME NEW i \in Sessions, NEW r \in Range(rows'[i]) PROVE r.n # injected'.n
        BY <3>1, RowIs DEF Nothing
      <3>. QED
        BY <3>2 DEF HistoryTellsWire
    <2>2. \A i \in Sessions : \A r \in Range(rows'[i]) : r.n <= received
      BY <1>2 DEF LoopInv, RowsAt
    <2>3. \A i \in Sessions : \A r \in Range(rows'[i]) : r.n \in Int
      <3>1. rows \in [Sessions -> Seq(ChunkRow)] /\ rows' = rows
        BY <1>2 DEF LoopInv, RowsAt
      <3>2. \A i \in Sessions : \A r \in Range(rows[i]) : r.n \in Int
        BY <3>1, RowIs
      <3>. QED
        BY <3>1, <3>2
    <2>. QED
      BY <1>1, <1>2, <2>1, <2>2, <2>3, SysCaptureAssumption DEF LoopInv, RowsAt, Between
  <1>. QED
    BY <1>3, <1>4, <1>5 DEF LoopInv

LEMMA ResolveLoop == ASSUME LoopInv, Resolve PROVE LoopInv'
  <1>1. PICK res \in Resolutions :
          resolveSysCapture(res) = 204 /\ told' = res /\ chunk' = Outcome(res)
    BY DEF Resolve
  <1>2. pc = "held" /\ (res.kind = "edit" => Replaceable(pkt.packet, res.data))
    BY <1>1 DEF resolveSysCapture
  <1>3. pkt \in Arrivals /\ parsePacket(pkt.packet) /\ chunk = Fresh(pkt.packet) /\ injected = Nothing
    BY <1>2 DEF LoopInv, PacketAt, InjectedAt, Between, Undecided
  <1>4. chunk.data = payload(pkt.packet)
    BY <1>3 DEF Fresh
  <1>5. chunk' = Decided(pkt.packet, res)
    BY <1>1, <1>4 DEF Outcome, Decided
  <1>6. pc' = "store" /\ UNCHANGED <<received, pkt, current, rows, captured, injected>>
    BY DEF Resolve, rowVars
  <1>7. Made'
    BY <1>1, <1>2, <1>5, <1>6 DEF Made
  <1>8. PacketAt'
    BY <1>3, <1>6, <1>7 DEF PacketAt, Labels, Between, Undecided
  <1>9. InjectedAt'
    BY <1>3, <1>6 DEF InjectedAt, AckedIsInjected
  <1>10. RowsAt'
    <2>1. HistoryTellsWire' = HistoryTellsWire
      BY <1>6 DEF HistoryTellsWire
    <2>. QED
      BY <1>2, <1>6, <2>1 DEF LoopInv, RowsAt, Between, Undecided
  <1>. QED
    BY <1>8, <1>9, <1>10 DEF LoopInv

LEMMA StoreLoop == ASSUME LoopInv, Store PROVE LoopInv'
  <1>. DEFINE data == chunk.data
              stored == SubSeq(data, 1, Smaller(Len(data), Room))
              x == [n |-> received, dir |-> Dir, data |-> stored, size |-> Len(data),
                    edited |-> chunk.edited]
  <1>1. /\ pc = "store" /\ pc' = "track"
        /\ UNCHANGED <<received, pkt, current, chunk, told, injected>>
    BY DEF Store
  <1>2. /\ pkt \in Arrivals /\ parsePacket(pkt.packet) /\ Made /\ injected = Nothing
        /\ received \in 1..MaxPackets /\ MaxPackets \in Nat /\ current \in Sessions
    BY <1>1, SysCaptureAssumption
    DEF LoopInv, PacketAt, InjectedAt, RowsAt, Between
  <1>3. /\ data \in Seq(Bytes) /\ chunk.edited \in BOOLEAN /\ chunk # Nothing
        /\ chunk.edited => Replaceable(pkt.packet, data)
    BY <1>2, MadeIs
  <1>4. storeChunk(data, chunk.edited)
    BY <1>3 DEF Store
  <1>5. Dir \in Dirs /\ captured[current][Dir] \in 0..MaxCapture /\ Room \in 0..MaxCapture
    BY <1>2, SysCaptureAssumption DEF Dir, Dirs, Room, LoopInv, RowsAt
  <1>6. /\ stored \in Seq(Bytes) /\ Len(stored) \in 0..Room /\ IsPrefix(stored, data)
        /\ Len(data) \in Nat
    <2>1. Smaller(Len(data), Room) \in 0..Len(data) /\ Smaller(Len(data), Room) <= Room
          /\ Len(data) \in Nat
      BY <1>3, <1>5, SysCaptureAssumption DEF Smaller
    <2>. HIDE DEF data
    <2>. QED
      BY <1>3, <2>1, PrefixIs
  <1>7. x \in ChunkRow
    BY <1>2, <1>3, <1>5, <1>6 DEF ChunkRow
  <1>8. /\ x.n = received /\ x.size = Len(data) /\ IsPrefix(x.data, data)
        /\ x.edited = chunk.edited
    BY <1>6
  <1>9. \/ rows' = rows /\ captured' = captured
        \/ /\ rows' = [rows EXCEPT ![current] = Append(rows[current], x)]
           /\ captured' = [captured EXCEPT ![current][Dir] = @ + Len(stored)]
    BY <1>4 DEF storeChunk
  <1>10. captured' \in [Sessions -> [Dirs -> 0..MaxCapture]]
    <2>1. captured[current][Dir] + Len(stored) \in 0..MaxCapture
      BY <1>5, <1>6, SysCaptureAssumption DEF Room
    <2>2. captured \in [Sessions -> [Dirs -> 0..MaxCapture]]
      BY DEF LoopInv, RowsAt
    <2>. DEFINE one == [captured[current] EXCEPT ![Dir] = captured[current][Dir] + Len(stored)]
    <2>. HIDE DEF stored
    <2>3. one \in [Dirs -> 0..MaxCapture]
      BY <1>2, <1>5, <2>1, <2>2
    <2>4. captured' = captured \/ captured' = [captured EXCEPT ![current] = one]
      BY <1>9
    <2>. HIDE DEF one
    <2>. QED
      BY <2>2, <2>3, <2>4
  <1>. HIDE DEF x, stored, data
  <1>11. rows' \in [Sessions -> Seq(ChunkRow)]
    <2>1. rows \in [Sessions -> Seq(ChunkRow)]
      BY DEF LoopInv, RowsAt
    <2>2. Append(rows[current], x) \in Seq(ChunkRow)
      BY <1>2, <1>7, <2>1, AppendProperties
    <2>. QED
      BY <1>9, <2>1, <2>2
  <1>12. ASSUME NEW i \in Sessions, NEW r \in Range(rows'[i])
         PROVE  r = x \/ r \in Range(rows[i])
    <2>1. CASE rows'[i] = rows[i]
      BY <1>12, <2>1
    <2>2. CASE i = current /\ rows'[i] = Append(rows[i], x)
      <3>1. rows[i] \in Seq(ChunkRow)
        BY DEF LoopInv, RowsAt
      <3>2. PICK k \in DOMAIN rows'[i] : r = rows'[i][k]
        BY <1>12 DEF Range
      <3>3. /\ DOMAIN rows'[i] = 1..(Len(rows[i]) + 1) /\ Len(rows[i]) \in Nat
            /\ DOMAIN rows[i] = 1..Len(rows[i])
            /\ \A m \in 1..Len(rows[i]) : rows'[i][m] = rows[i][m]
            /\ rows'[i][Len(rows[i]) + 1] = x
        BY <1>7, <2>2, <3>1, AppendProperties
      <3>. QED
        BY <3>2, <3>3 DEF Range
    <2>. QED
      BY <1>2, <1>9, <2>1, <2>2 DEF LoopInv, RowsAt
  <1>13. \A i \in Sessions : \A r \in Range(rows[i]) : r.n < received
    BY <1>1 DEF LoopInv, RowsAt
  <1>14. HistoryTellsWire'
    <2>1. \A i \in Sessions : \A r \in Range(rows'[i]) : r.n # injected'.n
      BY <1>1, <1>2, <1>11, RowIs DEF Nothing
    <2>. QED
      BY <2>1 DEF HistoryTellsWire
  <1>15. RowsAt'
    <2>1. ASSUME NEW i \in Sessions, NEW r \in Range(rows'[i])
          PROVE  /\ r.n <= received
                 /\ r.n = received => /\ r.size = Len(data) /\ IsPrefix(r.data, data)
                                      /\ r.edited = chunk.edited
      <3>1. r.n \in Nat
        BY <1>11, RowIs
      <3>. QED
        BY <1>2, <1>8, <1>12, <1>13, <2>1, <3>1
    <2>. QED
      BY <1>1, <1>2, <1>10, <1>11, <1>14, <2>1 DEF RowsAt, Undecided, Between, data
  <1>16. PacketAt'
    <2>1. Made'
      BY <1>1, <1>2 DEF Made
    <2>. QED
      BY <1>1, <1>2, <2>1 DEF PacketAt, Labels, Between, Undecided
  <1>17. InjectedAt'
    BY <1>1, <1>2 DEF InjectedAt, AckedIsInjected
  <1>. QED
    BY <1>15, <1>16, <1>17 DEF LoopInv

LEMMA TrackLoop == ASSUME LoopInv, trackBytes PROVE LoopInv'
  <1>1. /\ pc = "track" /\ UNCHANGED <<received, rows, captured, injected>>
    BY DEF trackBytes, rowVars
  <1>2. /\ pkt \in Arrivals /\ parsePacket(pkt.packet) /\ Made /\ injected = Nothing
    BY <1>1 DEF LoopInv, PacketAt, InjectedAt, Between
  <1>3. HistoryTellsWire' /\ InjectedAt'
    BY <1>1, <1>2 DEF LoopInv, RowsAt, HistoryTellsWire, InjectedAt, AckedIsInjected
  <1>4. CASE pc' = "recv" /\ Forget
    BY <1>1, <1>3, <1>4
    DEF Forget, LoopInv, RowsAt, PacketAt, Labels, Between, Undecided
  <1>5. CASE ~chunk.drop /\ pc' = "send" /\ UNCHANGED localVars
    <2>1. Made' /\ chunk # Nothing
      BY <1>2, <1>5, MadeIs DEF Made, localVars
    <2>2. PacketAt'
      BY <1>2, <1>5, <2>1 DEF PacketAt, localVars, Labels, Between, Undecided
    <2>3. RowsAt'
      BY <1>1, <1>3, <1>5, <2>1 DEF LoopInv, RowsAt, localVars, Between, Undecided
    <2>. QED
      BY <1>3, <2>2, <2>3 DEF LoopInv
  <1>. QED
    BY <1>4, <1>5 DEF trackBytes

LEMMA SendLoop == ASSUME LoopInv, Send PROVE LoopInv'
  <1>1. /\ pc = "send" /\ pc' = "recv" /\ told' = None /\ chunk' = Nothing
        /\ UNCHANGED <<received, rows, captured>>
    BY DEF Send, Forget, rowVars
  <1>2. pkt \in Arrivals /\ injected = Nothing /\ received \in Nat \ {0}
    BY <1>1, SysCaptureAssumption DEF LoopInv, PacketAt, InjectedAt, RowsAt, Between
  <1>3. \/ injected' = Nothing
        \/ injected' = [n |-> received, was |-> pkt.packet, out |-> Out, told |-> told]
    BY <1>2 DEF Send
  <1>4. PacketAt'
    BY <1>1 DEF PacketAt, Labels, Between, Undecided
  <1>5. RowsAt' <=> HistoryTellsWire'
    BY <1>1 DEF LoopInv, RowsAt, Between, Undecided
  <1>6. CASE injected' = Nothing
    <2>1. HistoryTellsWire'
      BY <1>1, <1>2, <1>6 DEF LoopInv, RowsAt, HistoryTellsWire
    <2>. QED
      BY <1>1, <1>4, <1>5, <1>6, <2>1 DEF LoopInv, InjectedAt, AckedIsInjected
  <1>7. CASE injected' = [n |-> received, was |-> pkt.packet, out |-> Out, told |-> told]
    <2>. DEFINE j == injected'
    <2>1. j.n = received /\ j.was = pkt.packet /\ j.out = Out /\ j.told = told
      BY <1>7
    <2>2. CASE chunk = Nothing
      <3>1. told.kind = "none" /\ Out = pkt.packet
        BY <1>1, <2>2 DEF LoopInv, PacketAt, None, Out
      <3>2. AckedIsInjected'
        BY <2>1, <3>1 DEF AckedIsInjected
      <3>3. \A i \in Sessions : \A r \in Range(rows[i]) : r.n < received
        BY <1>1, <2>2 DEF LoopInv, RowsAt
      <3>4. \A i \in Sessions : \A r \in Range(rows[i]) : r.n \in Nat
        BY RowIs DEF LoopInv, RowsAt
      <3>5. HistoryTellsWire'
        BY <1>1, <1>2, <2>1, <3>3, <3>4 DEF HistoryTellsWire
      <3>. QED
        BY <1>1, <1>4, <1>5, <2>1, <3>2, <3>5 DEF LoopInv, InjectedAt
    <2>3. CASE chunk # Nothing
      <3>1. parsePacket(pkt.packet) /\ Made /\ ~chunk.drop
        BY <1>1, <2>3 DEF LoopInv, PacketAt
      <3>2. /\ told.kind # "drop" /\ (told.kind # "edit" => Out = pkt.packet)
            /\ Sized(j) => /\ parsePacket(Out) /\ flowKey(Out) = flowKey(pkt.packet)
                           /\ Delivered(Out) = chunk.data
                           /\ chunk.edited <=> Out # pkt.packet
        BY <1>2, <2>1, <3>1, OutIs
      <3>3. told.kind = "edit" => chunk.data = told.data
        BY <1>2, <3>1, MadeIs
      <3>4. AckedIsInjected'
        BY <2>1, <3>2, <3>3 DEF AckedIsInjected
      <3>5. \A i \in Sessions : \A r \in Range(rows[i]) :
              r.n = received => /\ r.size = Len(chunk.data) /\ IsPrefix(r.data, chunk.data)
                                /\ r.edited = chunk.edited
        BY <1>1, <2>3 DEF LoopInv, RowsAt
      <3>6. HistoryTellsWire'
        BY <1>1, <2>1, <3>2, <3>5 DEF HistoryTellsWire
      <3>. QED
        BY <1>1, <1>4, <1>5, <2>1, <3>4, <3>6 DEF LoopInv, InjectedAt
    <2>. QED
      BY <2>2, <2>3
  <1>. QED
    BY <1>3, <1>6, <1>7

-----------------------------------------------------------------------------
(* The table of sessions.                                                  *)

\* A session's key, client and upstream are of one flow; the loop looks for a key
\* before it opens a session of it, and nobody else inserts.
TableAt ==
  /\ opened \in Nat /\ opened <= received
  /\ pc \in {"lookup", "open"} => opened < received
  /\ current \in 0..opened
  /\ sessions \subseteq 1..opened /\ evict \subseteq 1..opened /\ closing \subseteq 1..opened
  /\ stop # "closing" => closing = {}
  /\ DOMAIN session = Sessions /\ DOMAIN row = Sessions
  /\ \A i \in 1..opened :
       session[i].key = <<session[i].protocol, {session[i].client, session[i].upstream}>>
  /\ \A i, j \in sessions : session[i].key = session[j].key => i = j
  /\ pc \in {"open", "insert"} => \A i \in sessions : session[i].key # flowKey(pkt.packet)
  /\ pc = "insert" => current > 0 /\ session[current].key = flowKey(pkt.packet)
  /\ \A i \in Sessions :
       row[i] = "open" =>
         i \in sessions \cup evict \cup closing \cup {k \in {current} : pc = "insert"}

\* What the table's invariant reads.
tableView == <<received, pc, pkt, current, opened, session, sessions, row, evict, closing, stop>>

LEMMA TableStays == ASSUME TableAt, UNCHANGED tableView PROVE TableAt'
  BY DEF TableAt, tableView

\* Steps that only take the packet elsewhere.
LEMMA TableMoves ==
  ASSUME TableAt, UNCHANGED <<received, opened, session, sessions, row, evict, closing, stop>>,
         pc # "insert", pc' \notin {"lookup", "open", "insert"}, current' \in 0..opened
  PROVE  TableAt'
  BY DEF TableAt

LEMMA RecvTable == ASSUME LoopInv, TableAt, Recv PROVE TableAt'
  <1>1. /\ pc = "recv" /\ received' = received + 1 /\ received \in Nat
        /\ pc' \in {"lookup", "send"}
        /\ UNCHANGED <<current, opened, session, sessions, row, evict, closing, stop>>
    BY SysCaptureAssumption DEF Recv, LoopInv, RowsAt, stopVars, tableVars, rowVars
  <1>. QED
    BY <1>1 DEF TableAt

LEMMA LookupTable ==
  ASSUME TableAt, Lookup
  PROVE  TableAt' /\ (pc' = "hold" => current' \in 1..opened)
  <1>1. /\ pc = "lookup"
        /\ UNCHANGED <<received, pkt, opened, session, sessions, row, evict, closing, stop>>
    BY DEF Lookup, stopVars, tableVars, rowVars
  <1>2. CASE pc' = "open" /\ current' = current
             /\ {i \in sessions : session[i].key = flowKey(pkt.packet)} = {}
    BY <1>1, <1>2 DEF TableAt
  <1>3. CASE pc' = "hold" /\ current' \in sessions
    <2>1. current' \in 1..opened /\ current' \in 0..opened
      BY <1>3 DEF TableAt
    <2>. QED
      BY <1>1, <1>3, <2>1, TableMoves
  <1>. QED
    BY <1>1, <1>2, <1>3 DEF Lookup

LEMMA SaveTable == ASSUME LoopInv, TableAt, saveSession PROVE TableAt'
  <1>. DEFINE p == pkt.packet
              n == opened + 1
              client == IF pkt.outbound THEN p.src ELSE p.dst
              upstream == IF pkt.outbound THEN p.dst ELSE p.src
              s == [key |-> flowKey(p), protocol |-> p.protocol, client |-> client,
                    upstream |-> upstream]
  <1>1. /\ pc = "open" /\ pc' = "insert" /\ opened' = n /\ current' = n
        /\ session' = [session EXCEPT ![n] = s] /\ row' = [row EXCEPT ![n] = "open"]
        /\ UNCHANGED <<received, pkt, sessions, evict, closing, stop>>
    BY DEF saveSession, stopVars
  <1>2. /\ opened \in Nat /\ n \in Sessions /\ n <= received /\ n \notin 1..opened
        /\ sessions \subseteq 1..opened /\ evict \subseteq 1..opened /\ closing \subseteq 1..opened
        /\ 1..n = 1..opened \cup {n} /\ 1..opened \subseteq Sessions
    BY <1>1, SysCaptureAssumption DEF TableAt, LoopInv, RowsAt, Sessions
  <1>3. /\ s.key = flowKey(p) /\ s.key = <<s.protocol, {s.client, s.upstream}>>
    <2>1. flowKey(p) = <<p.protocol, {p.src, p.dst}>> /\ {client, upstream} = {p.src, p.dst}
      BY DEF flowKey
    <2>. QED
      BY <2>1
  <1>. HIDE DEF s
  <1>4. /\ session'[n] = s /\ \A i \in 1..opened : session'[i] = session[i]
        /\ DOMAIN session' = Sessions
    BY <1>1, <1>2 DEF TableAt
  <1>5. /\ \A i \in Sessions : i # n => row'[i] = row[i]
        /\ DOMAIN row' = Sessions
    BY <1>1, <1>2 DEF TableAt
  <1>. HIDE DEF n
  <1>6. \A i \in 1..opened' :
          session'[i].key = <<session'[i].protocol, {session'[i].client, session'[i].upstream}>>
    BY <1>1, <1>2, <1>3, <1>4 DEF TableAt
  <1>7. \A i, j \in sessions' : session'[i].key = session'[j].key => i = j
    BY <1>1, <1>2, <1>4 DEF TableAt
  <1>8. \A i \in sessions' : session'[i].key # flowKey(p)
    BY <1>1, <1>2, <1>4 DEF TableAt
  <1>9. \A i \in Sessions :
          row'[i] = "open" => i \in sessions' \cup evict' \cup closing' \cup {current'}
    BY <1>1, <1>5 DEF TableAt
  <1>10. opened' \in Nat /\ opened' <= received' /\ current' \in 0..opened' /\ current' > 0
    BY <1>1, <1>2 DEF n
  <1>11. sessions' \subseteq 1..opened' /\ evict' \subseteq 1..opened' /\ closing' \subseteq 1..opened'
    BY <1>1, <1>2
  <1>12. session'[current'].key = flowKey(pkt'.packet)
    BY <1>1, <1>3, <1>4
  <1>. QED
    BY <1>1, <1>4, <1>5, <1>6, <1>7, <1>8, <1>9, <1>10, <1>11, <1>12 DEF TableAt

LEMMA InsertTable == ASSUME TableAt, Insert PROVE TableAt' /\ current' \in 1..opened
  <1>1. /\ pc = "insert" /\ pc' = "hold" /\ sessions' = sessions \cup {current}
        /\ UNCHANGED <<received, pkt, current, opened, session, row, evict, closing, stop>>
    BY DEF Insert, stopVars, packetVars, localVars, rowVars
  <1>2. current \in 1..opened
    BY <1>1 DEF TableAt
  <1>3. \A i, j \in sessions' : session'[i].key = session'[j].key => i = j
    BY <1>1 DEF TableAt
  <1>. QED
    BY <1>1, <1>2, <1>3 DEF TableAt

LEMMA SweepTable ==
  ASSUME TableAt, sweepIdle \/ EmptyTable
  PROVE  TableAt'
  <1>1. /\ sessions' \subseteq sessions
        /\ sessions \cup evict \cup closing = sessions' \cup evict' \cup closing'
        /\ evict' \subseteq sessions \cup evict /\ closing' \subseteq sessions \cup closing
        /\ stop' # "closing" => closing' = {}
    BY DEF TableAt, sweepIdle, EmptyTable, stopVars
  <1>2. UNCHANGED <<received, pc, pkt, current, opened, session, row>>
    BY DEF sweepIdle, EmptyTable, packetVars, localVars, rowVars
  <1>. QED
    BY <1>1, <1>2 DEF TableAt

LEMMA CloseTable ==
  ASSUME TableAt, NEW i \in Sessions, Evict(i) \/ CloseOpen(i)
  PROVE  TableAt'
  <1>1. /\ UNCHANGED <<received, pc, pkt, current, opened, session, sessions, stop>>
        /\ row' = [row EXCEPT ![i] = IF row[i] = "open" THEN "closed" ELSE "closedAgain"]
        /\ \/ evict' = evict \ {i} /\ closing' = closing
           \/ closing' = closing \ {i} /\ evict' = evict
    BY DEF Evict, CloseOpen, closeSession, stopVars, packetVars, localVars, tableVars
  <1>2. DOMAIN row' = Sessions /\ \A j \in Sessions : row'[j] = "open" => j # i /\ row[j] = "open"
    BY <1>1 DEF TableAt
  <1>. QED
    BY <1>1, <1>2 DEF TableAt

\* Every session that the table has is one that the code closes later, and a flow's.
LEMMA TableFindsAll == TableAt => NoSessionIsLost
  <1>. SUFFICES ASSUME TableAt PROVE NoSessionIsLost
    OBVIOUS
  <1>1. ASSUME NEW i \in sessions, NEW j \in sessions,
               session[i].protocol = session[j].protocol,
               session[i].client = session[j].client,
               session[i].upstream = session[j].upstream
        PROVE  i = j
    <2>1. i \in 1..opened /\ j \in 1..opened
      BY DEF TableAt
    <2>2. session[i].key = session[j].key
      BY <1>1, <2>1 DEF TableAt
    <2>. QED
      BY <2>2 DEF TableAt
  <1>. QED
    BY <1>1 DEF TableAt, NoSessionIsLost

-----------------------------------------------------------------------------
(* The theorems.                                                           *)

Inv == LoopInv /\ TableAt

LEMMA InitInv == Init => Inv
  <1>. SUFFICES ASSUME Init PROVE Inv
    OBVIOUS
  <1>1. injected = Nothing /\ \A i \in Sessions : rows[i] = <<>>
    BY DEF Init
  <1>2. AckedIsInjected
    BY <1>1 DEF AckedIsInjected
  <1>3. \A i \in Sessions : Range(rows[i]) = {}
    BY <1>1 DEF Range
  <1>4. HistoryTellsWire
    BY <1>3 DEF HistoryTellsWire
  <1>5. rows \in [Sessions -> Seq(ChunkRow)]
    BY DEF Init
  <1>6. LoopInv
    BY <1>1, <1>2, <1>3, <1>4, <1>5, SysCaptureAssumption
    DEF LoopInv, PacketAt, InjectedAt, RowsAt, Init, Labels, Between, Undecided
  <1>7. TableAt
    BY DEF Init, TableAt
  <1>. QED
    BY <1>6, <1>7 DEF Inv

LEMMA NextInv == ASSUME Inv, [Next]_vars PROVE Inv'
  <1>. USE DEF Inv
  <1>1. opened \in Nat /\ 1..opened \subseteq Sessions /\ current \in 0..opened
    BY SysCaptureAssumption DEF TableAt, LoopInv, RowsAt, Sessions
  <1>2. CASE Start \/ RecvFails
    <2>1. /\ pc \in Between /\ pc' \in {"recv", "ended"}
          /\ UNCHANGED <<received, localVars, tableVars, rowVars, evict, closing, injected, stop>>
      BY <1>2 DEF Start, RecvFails, Between, packetVars, stopVars
    <2>2. TableAt'
      BY <1>1, <2>1, TableMoves DEF localVars, tableVars, rowVars, Between
    <2>. QED
      BY <2>1, <2>2, MovesOn DEF localVars, rowVars
  <1>3. CASE Recv
    BY <1>3, RecvLoop, RecvTable
  <1>4. CASE Send \/ trackBytes
    <2>1. /\ pc \in {"send", "track"} /\ pc' \in {"recv", "send"} /\ current' \in {0, current}
          /\ UNCHANGED <<received, tableVars, row, evict, closing, stop>>
      BY <1>4 DEF Send, trackBytes, Forget, localVars, rowVars, stopVars
    <2>2. TableAt'
      BY <1>1, <2>1, TableMoves DEF tableVars
    <2>. QED
      BY <1>4, <2>2, SendLoop, TrackLoop
  <1>5. CASE Lookup
    <2>1. /\ pc = "lookup" /\ pc' \in {"open", "hold"}
          /\ UNCHANGED <<pkt, chunk, told, received, rows, captured, injected>>
      BY <1>5 DEF Lookup, rowVars
    <2>2. pc' = "hold" => current' \in Sessions
      BY <1>1, <1>5, LookupTable
    <2>. QED
      BY <1>5, <2>1, <2>2, LookupTable, MovesOn DEF Undecided
  <1>6. CASE saveSession
    <2>1. /\ pc = "open" /\ pc' = "insert"
          /\ UNCHANGED <<pkt, chunk, told, received, rows, captured, injected>>
      BY <1>6 DEF saveSession
    <2>. QED
      BY <1>6, <2>1, SaveTable, MovesOn DEF Undecided
  <1>7. CASE Insert
    <2>1. /\ pc = "insert" /\ pc' = "hold"
          /\ UNCHANGED <<pkt, chunk, told, received, rows, captured, injected>>
      BY <1>7 DEF Insert, packetVars, localVars, rowVars
    <2>2. current' \in Sessions
      BY <1>1, <1>7, InsertTable
    <2>. QED
      BY <1>7, <2>1, <2>2, InsertTable, MovesOn DEF Undecided
  <1>8. CASE Hold \/ Release \/ (SetSettings /\ pc' # pc)
    <2>1. /\ pc \in {"hold", "held"} /\ pc' \in {"held", "store"}
          /\ UNCHANGED <<received, pkt, current, chunk, told, tableVars, rowVars, evict, closing,
                         injected, stop>>
      BY <1>8 DEF Hold, Release, SetSettings, packetVars, localVars, stopVars
    <2>2. TableAt'
      BY <1>1, <2>1, TableMoves DEF tableVars, rowVars
    <2>3. current' \in Sessions
      BY <2>1 DEF LoopInv, RowsAt
    <2>. QED
      BY <2>1, <2>2, <2>3, MovesOn DEF rowVars, Undecided
  <1>9. CASE Resolve
    <2>1. /\ pc = "held" /\ pc' = "store"
          /\ UNCHANGED <<received, current, tableVars, row, evict, closing, stop>>
      BY <1>9 DEF Resolve, resolveSysCapture, rowVars, stopVars
    <2>. QED
      BY <1>1, <1>9, <2>1, TableMoves, ResolveLoop DEF tableVars
  <1>10. CASE Store
    <2>1. /\ pc = "store" /\ pc' = "track"
          /\ UNCHANGED <<received, current, tableVars, row, evict, closing, stop>>
      BY <1>10 DEF Store, stopVars
    <2>. QED
      BY <1>1, <1>10, <2>1, TableMoves, StoreLoop DEF tableVars
  <1>11. CASE (SetSettings /\ pc' = pc) \/ UNCHANGED vars \/ \E i \in Sessions : Idle(i)
    <2>1. UNCHANGED <<tableView, chunk, told, rows, captured, injected>>
      BY <1>11
      DEF SetSettings, Idle, tableView, vars, stopVars, packetVars, localVars, tableVars, rowVars
    <2>. QED
      BY <2>1, TableStays, LoopStays DEF tableView
  <1>12. CASE CloseHandle \/ Cancel
    <2>1. /\ UNCHANGED <<received, pc, pkt, current, chunk, told, opened, session, sessions, row,
                         rows, captured, evict, closing, injected>>
          /\ stop # "closing"
      BY <1>12 DEF CloseHandle, Cancel, packetVars, localVars, tableVars, rowVars
    <2>2. TableAt'
      BY <2>1 DEF TableAt
    <2>. QED
      BY <2>1, <2>2, LoopStays
  <1>13. CASE sweepIdle \/ EmptyTable
    <2>1. UNCHANGED <<pc, pkt, current, chunk, told, received, rows, captured, injected>>
      BY <1>13 DEF sweepIdle, EmptyTable, packetVars, localVars, rowVars
    <2>. QED
      BY <1>13, <2>1, SweepTable, LoopStays
  <1>14. CASE \E i \in Sessions : Evict(i) \/ CloseOpen(i)
    <2>1. UNCHANGED <<pc, pkt, current, chunk, told, received, rows, captured, injected>>
      BY <1>14 DEF Evict, CloseOpen, packetVars, localVars
    <2>. QED
      BY <1>14, <2>1, CloseTable, LoopStays
  <1>. QED
    BY <1>2, <1>3, <1>4, <1>5, <1>6, <1>7, <1>8, <1>9, <1>10, <1>11, <1>12, <1>13, <1>14
    DEF Next, LoopStep, Sweep, Shutdown

LEMMA AlwaysInv == Spec => []Inv
  <1>. QED
    BY InitInv, NextInv, PTL DEF Spec

\* A 204 for an edit means that these bytes went out in this flow, and that nothing
\* else did; what was dropped does not go out, and what nobody edited goes out as it
\* came (README.md:501), whoever ends the hold and whatever the sweep and Shutdown do.
THEOREM AcknowledgedIsInjected == Spec => []AckedIsInjected
  <1>1. Inv => AckedIsInjected
    BY DEF Inv, LoopInv, InjectedAt
  <1>. QED
    BY <1>1, AlwaysInv, PTL

\* The history's row of a packet has the size of what went out, a beginning of its
\* bytes, and whether it was edited, although it is stored before the packet is sent
\* (sysCapture.go:144).
THEOREM RowsTellTheWire == Spec => []HistoryTellsWire
  <1>1. Inv => HistoryTellsWire
    BY DEF Inv, LoopInv, RowsAt
  <1>. QED
    BY <1>1, AlwaysInv, PTL

\* No session is in nobody's hands while its row is open, and the packets of both
\* directions of a flow find the same session (README.md:489), with the table's
\* mutex released between the lookup and the insertion.
THEOREM SessionsAreFound == Spec => []NoSessionIsLost
  <1>. QED
    BY AlwaysInv, TableFindsAll, PTL DEF Inv

-----------------------------------------------------------------------------
(* Types.                                                                  *)

\* What the invariant does not say of the variables' types.
Types ==
  /\ handle \in {"none", "open", "closed"}
  /\ cancelled \in BOOLEAN
  /\ stop \in {"running", "begun", "cancelled", "closing"}
  /\ pkt \in Arrivals \cup {Nothing}
  /\ chunk \in Chunk \cup {Nothing}
  /\ settings \in [Dirs -> BOOLEAN]
  /\ told \in Resolutions \cup {None}
  /\ how \in {"none", "user", "timer", "toggle", "shutdown"}
  /\ stale \in [Sessions -> BOOLEAN]
  /\ row \in [Sessions -> {"none", "open", "closed", "closedAgain"}]
  /\ capReached \in [Sessions -> [Dirs -> BOOLEAN]]

LEMMA InitTypes == Init => Types
  <1>. SUFFICES ASSUME Init PROVE Types
    OBVIOUS
  <1>1. /\ settings \in [Dirs -> BOOLEAN] /\ stale \in [Sessions -> BOOLEAN]
        /\ row \in [Sessions -> {"none", "open", "closed", "closedAgain"}]
    BY DEF Init
  <1>2. capReached \in [Sessions -> [Dirs -> BOOLEAN]]
    <2>1. [d \in Dirs |-> FALSE] \in [Dirs -> BOOLEAN]
      OBVIOUS
    <2>. QED
      BY <2>1 DEF Init
  <1>. QED
    BY <1>1, <1>2 DEF Init, Types

\* The variables that only some steps touch.
LEMMA TypesStay ==
  ASSUME Types, UNCHANGED <<pkt, chunk, told, settings, stale, row, capReached>>,
         handle' \in {"none", "open", "closed"}, cancelled' \in BOOLEAN,
         stop' \in {"running", "begun", "cancelled", "closing"},
         how' \in {"none", "user", "timer", "toggle", "shutdown"}
  PROVE  Types'
  BY DEF Types

LEMMA NextTypes == ASSUME Inv, Types, [Next]_vars PROVE Types'
  <1>1. opened \in Nat /\ 1..opened \subseteq Sessions
    BY SysCaptureAssumption DEF Inv, TableAt, LoopInv, RowsAt, Sessions
  <1>2. CASE \/ Start \/ RecvFails \/ Lookup \/ Insert \/ Hold \/ Release \/ sweepIdle
             \/ CloseHandle \/ Cancel \/ EmptyTable \/ UNCHANGED vars
    <2>1. UNCHANGED <<pkt, chunk, told, settings, stale, row, capReached>>
      BY <1>2 DEF Start, RecvFails, Lookup, Insert, Hold, Release, sweepIdle, CloseHandle, Cancel,
                  EmptyTable, vars, packetVars, localVars, rowVars
    <2>2. CASE Lookup \/ Insert \/ Hold \/ sweepIdle \/ EmptyTable \/ UNCHANGED vars
      <3>1. /\ UNCHANGED <<handle, cancelled, how>>
            /\ stop' \in {stop, "closing"}
        BY <2>2 DEF Lookup, Insert, Hold, sweepIdle, EmptyTable, vars, packetVars, localVars, stopVars
      <3>. QED
        BY <2>1, <3>1, TypesStay DEF Types
    <2>3. CASE Start \/ RecvFails \/ Release \/ CloseHandle \/ Cancel
      <3>1. /\ handle' \in {handle, "open", "closed"} /\ cancelled' \in {cancelled, TRUE}
            /\ stop' \in {stop, "begun", "cancelled"} /\ how' \in {how, "timer", "shutdown"}
        BY <2>3 DEF Start, RecvFails, Release, CloseHandle, Cancel, packetVars, localVars, stopVars
      <3>. QED
        BY <2>1, <3>1, TypesStay DEF Types
    <2>. QED
      BY <1>2, <2>2, <2>3
  <1>3. CASE Recv
    <2>1. PICK p \in Arrivals :
            pkt' = p /\ (chunk' = chunk \/ (parsePacket(p.packet) /\ chunk' = Fresh(p.packet)))
      BY <1>3 DEF Recv, Fresh
    <2>2. parsePacket(p.packet) => Fresh(p.packet) \in Chunk
      BY ArrivalIs, PayloadIs DEF Fresh, Chunk
    <2>3. UNCHANGED <<stopVars, told, how, settings, stale, rowVars>>
      BY <1>3 DEF Recv
    <2>. QED
      BY <2>1, <2>2, <2>3 DEF Types, stopVars, rowVars
  <1>4. CASE Send \/ trackBytes
    <2>1. /\ \/ Forget
             \/ UNCHANGED localVars
          /\ stale' = stale \/ stale' = [stale EXCEPT ![current] = FALSE]
          /\ UNCHANGED <<stopVars, settings, rowVars>>
      BY <1>4 DEF Send, trackBytes
    <2>2. /\ pkt' \in Arrivals \cup {Nothing} /\ chunk' \in Chunk \cup {Nothing}
          /\ told' \in Resolutions \cup {None}
          /\ how' \in {"none", "user", "timer", "toggle", "shutdown"}
      BY <2>1 DEF Forget, localVars, Types
    <2>3. stale' \in [Sessions -> BOOLEAN]
      BY <2>1 DEF Types
    <2>. QED
      BY <2>1, <2>2, <2>3 DEF Types, stopVars, rowVars
  <1>5. CASE saveSession
    <2>1. row' = [row EXCEPT ![opened + 1] = "open"]
      BY <1>5 DEF saveSession
    <2>2. row' \in [Sessions -> {"none", "open", "closed", "closedAgain"}]
      BY <2>1 DEF Types
    <2>3. UNCHANGED <<stopVars, pkt, chunk, told, how, settings, stale, capReached>>
      BY <1>5 DEF saveSession
    <2>. QED
      BY <2>2, <2>3 DEF Types, stopVars
  <1>6. CASE Resolve
    <2>1. PICK res \in Resolutions : told' = res /\ chunk' = Outcome(res)
      BY <1>6 DEF Resolve
    <2>2. Outcome(res) \in Chunk
      <3>1. pc = "held"
        BY <1>6 DEF Resolve, resolveSysCapture
      <3>2. chunk.data \in Seq(Bytes)
        BY <3>1, ArrivalIs, PayloadIs DEF Inv, LoopInv, PacketAt, Undecided, Between, Fresh
      <3>3. res.kind = "edit" => res.data \in Seq(Bytes)
        BY SysCaptureAssumption DEF Resolutions
      <3>. QED
        BY <3>2, <3>3 DEF Outcome, Chunk
    <2>3. how' = "user" /\ UNCHANGED <<stopVars, pkt, settings, stale, rowVars>>
      BY <1>6 DEF Resolve
    <2>. QED
      BY <2>1, <2>2, <2>3 DEF Types, stopVars, rowVars
  <1>7. CASE SetSettings
    <2>1. /\ settings' \in [Dirs -> BOOLEAN]
          /\ how' \in {"none", "user", "timer", "toggle", "shutdown"}
      BY <1>7 DEF SetSettings, Types
    <2>2. UNCHANGED <<stopVars, pkt, chunk, told, stale, rowVars>>
      BY <1>7 DEF SetSettings
    <2>. QED
      BY <2>1, <2>2 DEF Types, stopVars, rowVars
  <1>8. CASE Store
    <2>1. PICK b \in BOOLEAN : \/ capReached' = capReached
                               \/ capReached' = [capReached EXCEPT ![current][Dir] = b]
      <3>1. ASSUME NEW data, NEW edited, storeChunk(data, edited)
            PROVE  \E b \in BOOLEAN : \/ capReached' = capReached
                                      \/ capReached' = [capReached EXCEPT ![current][Dir] = b]
        <4>1. (Len(data) > Room) \in BOOLEAN
          OBVIOUS
        <4>. QED
          BY <3>1, <4>1 DEF storeChunk
      <3>. QED
        BY <1>8, <3>1 DEF Store
    <2>2. capReached' \in [Sessions -> [Dirs -> BOOLEAN]]
      <3>1. capReached \in [Sessions -> [Dirs -> BOOLEAN]]
        BY DEF Types
      <3>. QED
        BY <2>1, <3>1
    <2>3. UNCHANGED <<stopVars, pkt, chunk, told, how, settings, stale, row>>
      BY <1>8 DEF Store
    <2>. QED
      BY <2>2, <2>3 DEF Types, stopVars
  <1>9. ASSUME NEW i \in Sessions, Idle(i) \/ Evict(i) \/ CloseOpen(i)
        PROVE  Types'
    <2>1. /\ stale' = stale \/ stale' = [stale EXCEPT ![i] = TRUE]
          /\ \/ row' = row
             \/ row' = [row EXCEPT ![i] = IF row[i] = "open" THEN "closed" ELSE "closedAgain"]
          /\ UNCHANGED <<stopVars, localVars, settings, capReached>>
      BY <1>9 DEF Idle, Evict, CloseOpen, closeSession, rowVars, packetVars
    <2>2. /\ stale' \in [Sessions -> BOOLEAN]
          /\ row' \in [Sessions -> {"none", "open", "closed", "closedAgain"}]
      BY <2>1 DEF Types
    <2>. QED
      BY <2>1, <2>2 DEF Types, stopVars, localVars
  <1>. QED
    BY <1>2, <1>3, <1>4, <1>5, <1>6, <1>7, <1>8, <1>9 DEF Next, LoopStep, Sweep, Shutdown

\* Every variable keeps its type: in particular, the table, the sweep and Shutdown only
\* have sessions that were opened, and a row stays within what the cap leaves.
THEOREM TypeCorrect == Spec => []TypeOK
  <1>1. Inv /\ Types => TypeOK
    <2>. SUFFICES ASSUME Inv, Types PROVE TypeOK
      OBVIOUS
    <2>1. opened \in Nat /\ opened <= received /\ received \in 0..MaxPackets
      BY DEF Inv, TableAt, LoopInv, RowsAt
    <2>2. opened \in 0..MaxPackets
      BY <2>1, SysCaptureAssumption
    <2>3. /\ current \in 0..opened /\ sessions \subseteq 1..opened
          /\ evict \subseteq 1..opened /\ closing \subseteq 1..opened
      BY DEF Inv, TableAt
    <2>4. /\ pc \in Labels /\ rows \in [Sessions -> Seq(ChunkRow)]
          /\ captured \in [Sessions -> [Dirs -> 0..MaxCapture]]
      BY DEF Inv, LoopInv, PacketAt, RowsAt
    <2>. QED
      BY <2>1, <2>2, <2>3, <2>4 DEF Types, TypeOK, Labels
  <1>. QED
    BY <1>1, InitTypes, AlwaysInv, NextTypes, PTL DEF Spec

-----------------------------------------------------------------------------
(* The store.  A session is in one hand at a time, and whoever closes it   *)
(* has it in his; that its row is open then is what makes the closing the  *)
(* only one.                                                               *)

OnceAt ==
  /\ \A i \in Sessions : row[i] # "closedAgain"
  /\ \A i \in sessions \cup evict \cup closing : row[i] = "open"
  /\ sessions \cap evict = {} /\ sessions \cap closing = {} /\ evict \cap closing = {}
  /\ pc = "insert" => row[current] = "open" /\ current \notin sessions \cup evict \cup closing
  /\ \A i \in Sessions : row[i] = "none" <=> i > opened
  /\ \A i \in Sessions : rows[i] # <<>> => i <= opened
  /\ pc \in {"insert", "hold", "held", "store", "track"} => current \in 1..opened

storeView == <<opened, sessions, row, rows, evict, closing>>

\* Steps that only move the loop on, with the session it works for.
LEMMA OnceStays ==
  ASSUME OnceAt, UNCHANGED storeView,
         pc' = "insert" => pc = "insert" /\ current' = current,
         pc' \in {"hold", "held", "store", "track"} =>
           pc \in {"insert", "hold", "held", "store", "track"} /\ current' = current
  PROVE  OnceAt'
  BY DEF OnceAt, storeView

LEMMA InitOnce == Init => OnceAt
  <1>. SUFFICES ASSUME Init PROVE OnceAt
    OBVIOUS
  <1>1. \A i \in Sessions : i > 0
    BY SysCaptureAssumption DEF Sessions
  <1>. QED
    BY <1>1 DEF Init, OnceAt

LEMMA NextOnce == ASSUME Inv, OnceAt, [Next]_vars PROVE OnceAt'
  <1>0. /\ opened \in Nat /\ 1..opened \subseteq Sessions /\ DOMAIN row = Sessions
        /\ sessions \subseteq 1..opened /\ evict \subseteq 1..opened /\ closing \subseteq 1..opened
    BY SysCaptureAssumption DEF Inv, LoopInv, RowsAt, TableAt, Sessions
  <1>1. CASE \/ Start \/ Recv \/ RecvFails \/ Send \/ Hold \/ Release \/ trackBytes \/ Resolve
             \/ SetSettings \/ CloseHandle \/ Cancel \/ (\E i \in Sessions : Idle(i))
             \/ UNCHANGED vars
    <2>1. UNCHANGED storeView
      BY <1>1 DEF Start, Recv, RecvFails, Send, Hold, Release, trackBytes, Resolve, SetSettings,
                  CloseHandle, Cancel, Idle, vars, tableVars, rowVars, storeView
    <2>2. \/ pc' \in {"recv", "lookup", "send", "ended"}
          \/ pc' = pc /\ current' = current
          \/ pc \in {"hold", "held", "store"} /\ pc' \in {"held", "store", "track"} /\ current' = current
      BY <1>1 DEF Start, Recv, RecvFails, Send, Hold, Release, trackBytes, Resolve, SetSettings,
                  resolveSysCapture, CloseHandle, Cancel, Idle, vars, packetVars, localVars
    <2>. QED
      BY <2>1, <2>2, OnceStays
  <1>2. CASE Lookup
    <2>1. \/ pc' = "open"
          \/ pc' = "hold" /\ current' \in sessions
      BY <1>2 DEF Lookup
    <2>2. UNCHANGED storeView
      BY <1>2 DEF Lookup, tableVars, rowVars, storeView
    <2>. QED
      BY <1>0, <2>1, <2>2 DEF OnceAt, storeView
  <1>3. CASE saveSession
    <2>1. /\ opened' = opened + 1 /\ current' = opened + 1 /\ pc' = "insert"
          /\ row' = [row EXCEPT ![opened + 1] = "open"]
          /\ UNCHANGED <<sessions, rows, evict, closing>>
      BY <1>3 DEF saveSession
    <2>2. opened + 1 \in Sessions
      BY <1>3, SysCaptureAssumption DEF Inv, LoopInv, RowsAt, TableAt, Sessions, saveSession
    <2>3. /\ row'[opened + 1] = "open"
          /\ \A i \in Sessions : i # opened + 1 => row'[i] = row[i]
      BY <1>0, <2>1, <2>2
    <2>4. \A i \in Sessions : i \in Nat
      BY DEF Sessions
    <2>5. \A i \in Sessions : row'[i] = "none" <=> i > opened'
      BY <1>0, <2>1, <2>3, <2>4 DEF OnceAt
    <2>6. opened + 1 \notin 1..opened
      BY <1>0
    <2>7. \A i \in sessions \cup evict \cup closing : row'[i] = "open"
      BY <1>0, <2>3, <2>6 DEF OnceAt
    <2>8. \A i \in Sessions : rows'[i] # <<>> => i <= opened'
      BY <1>0, <2>1, <2>4 DEF OnceAt
    <2>9. \A i \in Sessions : row'[i] # "closedAgain"
      BY <2>3 DEF OnceAt
    <2>. QED
      BY <1>0, <2>1, <2>3, <2>5, <2>6, <2>7, <2>8, <2>9 DEF OnceAt
  <1>4. CASE Insert
    <2>1. /\ sessions' = sessions \cup {current} /\ pc = "insert" /\ pc' = "hold"
          /\ UNCHANGED <<opened, row, rows, evict, closing, current>>
      BY <1>4 DEF Insert, packetVars, localVars, rowVars
    <2>. QED
      BY <2>1 DEF OnceAt
  <1>5. CASE Store
    <2>1. /\ pc = "store" /\ pc' = "track"
          /\ UNCHANGED <<opened, row, sessions, evict, closing, current>>
      BY <1>5 DEF Store, tableVars
    <2>2. \A i \in Sessions : rows'[i] = rows[i] \/ i = current
      <3>1. ASSUME NEW data, NEW edited, storeChunk(data, edited)
            PROVE  \A i \in Sessions : rows'[i] = rows[i] \/ i = current
        BY <3>1 DEF storeChunk, Inv, LoopInv, RowsAt
      <3>. QED
        BY <1>5, <3>1 DEF Store
    <2>. QED
      BY <1>0, <2>1, <2>2 DEF OnceAt
  <1>6. CASE sweepIdle
    <2>1. /\ evict = {} /\ evict' \subseteq sessions /\ sessions' = sessions \ evict'
          /\ UNCHANGED <<opened, row, rows, closing, pc, current>>
      BY <1>6 DEF sweepIdle, packetVars, localVars, rowVars
    <2>. QED
      BY <2>1 DEF OnceAt
  <1>7. CASE EmptyTable
    <2>1. /\ closing = {} /\ closing' = sessions /\ sessions' = {}
          /\ UNCHANGED <<opened, row, rows, evict, pc, current>>
      BY <1>7 DEF EmptyTable, packetVars, localVars, rowVars, Inv, TableAt
    <2>. QED
      BY <2>1 DEF OnceAt
  <1>8. ASSUME NEW i \in Sessions, Evict(i) \/ CloseOpen(i)
        PROVE  OnceAt'
    <2>1. /\ row' = [row EXCEPT ![i] = IF row[i] = "open" THEN "closed" ELSE "closedAgain"]
          /\ UNCHANGED <<opened, sessions, rows, pc, current>>
          /\ \/ i \in evict /\ evict' = evict \ {i} /\ closing' = closing
             \/ i \in closing /\ closing' = closing \ {i} /\ evict' = evict
      BY <1>8 DEF Evict, CloseOpen, closeSession, tableVars, packetVars, localVars
    <2>2. /\ row'[i] = "closed" /\ row[i] = "open"
          /\ \A k \in Sessions : k # i => row'[k] = row[k]
      BY <1>0, <2>1 DEF OnceAt
    <2>3. i \notin sessions /\ i \notin evict' /\ i \notin closing' /\ (pc = "insert" => current # i)
      BY <2>1 DEF OnceAt
    <2>. QED
      BY <1>0, <2>1, <2>2, <2>3 DEF OnceAt
  <1>. QED
    BY <1>1, <1>2, <1>3, <1>4, <1>5, <1>6, <1>7, <1>8 DEF Next, LoopStep, Sweep, Shutdown

\* The two tables and the connections, as the instance has them.
ConnSeen == [i \in Sessions |-> [pc |-> row[i], id |-> IF row[i] = "none" THEN 0 ELSE i]]
RowsSeen == [i \in 1..opened |->
               [of |-> i, source |-> "syscapture", closed |-> IF row[i] = "closed" THEN {i} ELSE {}]]
ChunksSeen == {[session |-> i, of |-> i] : i \in {k \in Sessions : rows[k] # <<>>}}

LEMMA SeenStays ==
  ASSUME UNCHANGED <<opened, row, rows>>
  PROVE  UNCHANGED Tables!sessionVars
  BY DEF Tables!sessionVars

LEMMA IdsSeen ==
  ASSUME opened \in Nat
  PROVE  Tables!Ids = 1..opened /\ Tables!Cardinality(Tables!Ids) = opened
  <1>1. Tables!Ids = 1..opened
    BY DEF Tables!Ids
  <1>2. Cardinality(1..opened) = opened
    BY FS_Interval
  <1>3. Tables!Cardinality(1..opened) = Cardinality(1..opened)
    BY DEF Tables!Cardinality, Cardinality
  <1>. QED
    BY <1>1, <1>2, <1>3

\* saveSession opens the next session, which was none.
LEMMA OpenSeen ==
  ASSUME Inv, OnceAt, saveSession, NEW c \in Sessions, c = opened + 1
  PROVE  Tables!OpenSession(c)
  <1>1. /\ opened \in Nat /\ c \in Sessions /\ opened' = c /\ DOMAIN row = Sessions
        /\ row' = [row EXCEPT ![c] = "open"] /\ rows' = rows /\ row[c] = "none"
    BY SysCaptureAssumption
    DEF Inv, LoopInv, RowsAt, TableAt, OnceAt, Sessions, saveSession
  <1>2. Tables!Cardinality(Tables!Ids) + 1 = c /\ Tables!Ids = 1..opened
    BY <1>1, IdsSeen
  <1>3. row'[c] = "open" /\ \A i \in Sessions : i # c => row'[i] = row[i]
    BY <1>1
  <1>4. ConnSeen[c].pc = "none"
    BY <1>1 DEF ConnSeen
  <1>5. ConnSeen' = [ConnSeen EXCEPT ![c] = [pc |-> "open", id |-> c]]
    BY <1>1, <1>3 DEF ConnSeen
  <1>6. RowsSeen' = [i \in 1..opened \cup {c} |->
                       IF i = c THEN [of |-> c, source |-> "syscapture", closed |-> {}]
                       ELSE RowsSeen[i]]
    <2>1. 1..c = 1..opened \cup {c} /\ c \notin 1..opened /\ 1..opened \subseteq Sessions
      BY <1>1, SysCaptureAssumption DEF Sessions
    <2>. QED
      BY <1>1, <1>3, <2>1 DEF RowsSeen
  <1>7. ChunksSeen' = ChunksSeen
    BY <1>1 DEF ChunksSeen
  <1>8. Tables!NewRow(c, "open") = [of |-> c, source |-> "syscapture", closed |-> {}]
    BY <1>1 DEF Tables!NewRow
  <1>9. RowsSeen' = [i \in Tables!Ids \cup {c} |->
                       IF i = c THEN Tables!NewRow(c, "open") ELSE RowsSeen[i]]
    BY <1>2, <1>6, <1>8
  <1>. DEFINE new == Tables!Cardinality(Tables!Ids) + 1
              Opens(p) == /\ RowsSeen' = [i \in Tables!Ids \cup {new} |->
                               IF i = new THEN Tables!NewRow(c, p) ELSE RowsSeen[i]]
                          /\ ConnSeen' = [ConnSeen EXCEPT ![c] = [pc |-> p, id |-> new]]
  <1>10. Opens("open")
    BY <1>2, <1>5, <1>9
  <1>. QED
    BY <1>4, <1>7, <1>10 DEF Tables!OpenSession, ConnSeen, RowsSeen, ChunksSeen

\* Whoever has a session to close closes it once.
LEMMA CloseSeen ==
  ASSUME Inv, OnceAt, NEW i \in Sessions, Evict(i) \/ CloseOpen(i)
  PROVE  Tables!CloseSession(i)
  <1>1. /\ i \in evict \cup closing /\ DOMAIN row = Sessions /\ i \in 1..opened /\ row[i] = "open"
        /\ row' = [row EXCEPT ![i] = "closed"] /\ UNCHANGED <<opened, rows>>
    BY DEF Evict, CloseOpen, closeSession, Inv, TableAt, OnceAt, tableVars, rowVars
  <1>2. row'[i] = "closed" /\ \A k \in Sessions : k # i => row'[k] = row[k]
    BY <1>1
  <1>3. 1..opened \subseteq Sessions
    BY SysCaptureAssumption DEF Inv, LoopInv, RowsAt, TableAt, Sessions
  <1>4. ConnSeen[i].pc = "open" /\ ConnSeen[i].id = i
    BY <1>1 DEF ConnSeen
  <1>5. ConnSeen' = [ConnSeen EXCEPT ![i].pc = "closed"]
    BY <1>1, <1>2 DEF ConnSeen
  <1>6. RowsSeen' = [k \in 1..opened |->
                       IF k = i THEN [RowsSeen[k] EXCEPT !.closed = @ \cup {i}] ELSE RowsSeen[k]]
    BY <1>1, <1>2, <1>3 DEF RowsSeen
  <1>7. ChunksSeen' = ChunksSeen
    BY <1>1 DEF ChunksSeen
  <1>8. Tables!Ids = 1..opened
    BY DEF Tables!Ids
  <1>. QED
    BY <1>4, <1>5, <1>6, <1>7, <1>8 DEF Tables!CloseSession, ConnSeen, RowsSeen, ChunksSeen

\* A packet's row is under its session, which may have been closed while it was held.
LEMMA ChunkSeen ==
  ASSUME Inv, Types, OnceAt, Store, NEW c \in Sessions, c = current
  PROVE  UNCHANGED Tables!sessionVars \/ Tables!SaveChunk(c)
  <1>1. current \in 1..opened /\ current \in Sessions /\ UNCHANGED <<opened, row>>
    BY SysCaptureAssumption
    DEF Store, OnceAt, Inv, LoopInv, RowsAt, TableAt, Sessions, tableVars
  <1>2. rows' = rows \/ \E r : rows' = [rows EXCEPT ![current] = Append(@, r)]
    <2>1. ASSUME NEW data, NEW edited, storeChunk(data, edited)
          PROVE  rows' = rows \/ \E r : rows' = [rows EXCEPT ![current] = Append(@, r)]
      BY <2>1 DEF storeChunk
    <2>. QED
      BY <2>1 DEF Store
  <1>3. /\ rows \in [Sessions -> Seq(ChunkRow)] /\ rows' \in [Sessions -> Seq(ChunkRow)]
    BY NextInv DEF Inv, LoopInv, RowsAt, Next, LoopStep
  <1>4. CASE rows' = rows
    BY <1>1, <1>4, SeenStays
  <1>5. ASSUME NEW r, rows' = [rows EXCEPT ![current] = Append(@, r)]
        PROVE  Tables!SaveChunk(c)
    <2>1. /\ rows'[current] = Append(rows[current], r)
          /\ \A k \in Sessions : k # current => rows'[k] = rows[k]
      BY <1>1, <1>3, <1>5
    <2>2. rows'[current] # <<>>
      <3>1. rows[current] \in Seq(ChunkRow \cup {r})
        BY <1>1, <1>3, SeqMonotonic
      <3>. QED
        BY <2>1, <3>1, AppendProperties
    <2>3. row[current] \in {"open", "closed"} /\ row[current] # "none"
      BY <1>1 DEF OnceAt, Types, Inv, TableAt
    <2>4. ConnSeen[current].pc \in {"open", "closed"} /\ ConnSeen[current].id = current
      BY <1>1, <2>3 DEF ConnSeen
    <2>5. ChunksSeen' = ChunksSeen \cup {[session |-> current, of |-> current]}
      BY <1>1, <2>1, <2>2 DEF ChunksSeen
    <2>6. UNCHANGED <<ConnSeen, RowsSeen>>
      BY <1>1 DEF ConnSeen, RowsSeen
    <2>. QED
      BY <2>4, <2>5, <2>6 DEF Tables!SaveChunk, ConnSeen, RowsSeen, ChunksSeen
  <1>. QED
    BY <1>2, <1>4, <1>5

\* Every step is one that the tables may take, or leaves them alone.
LEMMA NextSeen ==
  ASSUME Inv, Types, OnceAt, [Next]_vars
  PROVE  [Tables!SessionsNext]_(Tables!sessionVars)
  <1>1. CASE \/ Start \/ Recv \/ RecvFails \/ Send \/ Lookup \/ Insert \/ Hold \/ Release
             \/ trackBytes \/ Resolve \/ SetSettings \/ (\E i \in Sessions : Idle(i)) \/ sweepIdle
             \/ CloseHandle \/ Cancel \/ EmptyTable \/ UNCHANGED vars
    <2>1. UNCHANGED <<opened, row, rows>>
      BY <1>1 DEF Start, Recv, RecvFails, Send, Lookup, Insert, Hold, Release, trackBytes, Resolve,
                  SetSettings, Idle, sweepIdle, CloseHandle, Cancel, EmptyTable, vars, tableVars,
                  rowVars
    <2>. QED
      BY <2>1, SeenStays
  <1>2. CASE saveSession
    <2>1. PICK c \in Sessions : c = opened + 1
      BY <1>2, SysCaptureAssumption DEF Inv, LoopInv, RowsAt, TableAt, Sessions, saveSession
    <2>2. Tables!OpenSession(c)
      BY <1>2, <2>1, OpenSeen
    <2>. QED
      BY <2>2 DEF Tables!SessionsNext
  <1>3. CASE Store
    <2>1. PICK c \in Sessions : c = current
      BY <1>3 DEF Store, Inv, LoopInv, RowsAt
    <2>2. UNCHANGED Tables!sessionVars \/ Tables!SaveChunk(c)
      BY <1>3, <2>1, ChunkSeen
    <2>. QED
      BY <2>2 DEF Tables!SessionsNext
  <1>4. ASSUME NEW i \in Sessions, Evict(i) \/ CloseOpen(i)
        PROVE  Tables!SessionsNext
    BY <1>4, CloseSeen DEF Tables!SessionsNext
  <1>. QED
    BY <1>1, <1>2, <1>3, <1>4 DEF Next, LoopStep, Sweep, Shutdown

\* System capture implements what the store promises the two tabs about: every session
\* is inserted once and before its chunks, whatever is held or swept meanwhile, and is
\* closed once, so that no byte counts overwrite others (session.go:77,
\* sysCapture.go:213).
THEOREM StoreSeesSessions == Spec => ImplementsSessions
  <1>1. Init => Tables!SessionsInit
    <2>. SUFFICES ASSUME Init PROVE Tables!SessionsInit
      OBVIOUS
    <2>1. ConnSeen = [i \in Sessions |-> [pc |-> "none", id |-> 0]]
      BY DEF Init, ConnSeen
    <2>2. RowsSeen = <<>>
      BY DEF Init, RowsSeen
    <2>3. ChunksSeen = {}
      BY DEF Init, ChunksSeen
    <2>. QED
      BY <2>1, <2>2, <2>3 DEF Tables!SessionsInit, ConnSeen, RowsSeen, ChunksSeen
  <1>2. Spec => [](Inv /\ Types /\ OnceAt)
    BY InitInv, InitTypes, InitOnce, NextInv, NextTypes, NextOnce, PTL DEF Spec
  <1>. QED
    BY <1>1, <1>2, NextSeen, PTL DEF Spec, ImplementsSessions, Tables!SessionsSpec

=============================================================================
