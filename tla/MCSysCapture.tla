---------------------------- MODULE MCSysCapture ----------------------------
\* An instance of SysCapture for TLC: a datagram and its answer, a TCP segment
\* under IP options whose capture is padded, an IPv6 datagram, and a fragment.
EXTENDS SysCapture

CONSTANTS a, b, x, y

Datagram(v, s, d) ==
  [version |-> v, ihl |-> 20, fragment |-> FALSE,
   length |-> IF v = 4 THEN 29 ELSE 9, protocol |-> "udp", src |-> s, dst |-> d,
   doff |-> 0, udpLength |-> 9, captured |-> IF v = 4 THEN 29 ELSE 49,
   data |-> <<x>>]

Segment ==
  [version |-> 4, ihl |-> 24, fragment |-> FALSE, length |-> 46,
   protocol |-> "tcp", src |-> b, dst |-> a, doff |-> 20, udpLength |-> 0,
   captured |-> 47, data |-> <<x, y, y>>]

MCArrivals ==
  { [packet |-> Datagram(4, a, b), outbound |-> TRUE],
    [packet |-> Datagram(4, b, a), outbound |-> FALSE],
    [packet |-> Datagram(6, a, b), outbound |-> TRUE],
    [packet |-> Segment, outbound |-> FALSE],
    [packet |-> [Segment EXCEPT !.fragment = TRUE], outbound |-> FALSE] }

MCEdits == {<<y>>, <<y, y>>}

=============================================================================
