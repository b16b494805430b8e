-------------------------------- MODULE Tunnels --------------------------------
(***************************************************************************)
(* CONNECT tunnels (internal/proxy/tunnel.go) and the certificates they    *)
(* show to their clients (internal/ca/ca.go, CertificateFor): from the     *)
(* CONNECT request to the server that serves the decrypted requests, and   *)
(* its place in the map through which Shutdown finds it.                   *)
(*                                                                         *)
(* A name is a spelling; Canonical says which host it stands for, in the   *)
(* form NormalizeName gives it, or that it is none.                        *)
(***************************************************************************)
EXTENDS Integers, FiniteSets

CONSTANTS Tunnels,    \* clients that open one tunnel after the other
          Spellings,  \* the names that clients use
          IPs,        \* those that are IP literals
          Canonical,  \* [Spellings -> hosts and Invalid]
          Invalid,    \* not a plausible host name
          NoName,     \* no SNI, no host, no certificate
          MaxCache    \* maxCacheSize

ASSUME TunnelsAssumption ==
  /\ IPs \subseteq Spellings
  /\ DOMAIN Canonical = Spellings
  /\ NoName \notin Spellings
  /\ MaxCache \in Nat \ {0}

Hosts == {Canonical[s] : s \in Spellings} \ {Invalid}

VARIABLES tun,      \* [Tunnels -> record], below
          tracked,  \* Proxy.tunnels
          cache     \* Authority.cache: hosts, and whether the leaf is far from its end

tunnelVars == <<tun, tracked, cache>>

Idle == [pc |-> "idle", host |-> NoName, sni |-> NoName, leaf |-> NoName,
         cert |-> NoName, fresh |-> FALSE, verified |-> NoName,
         closed |-> FALSE]

TunnelsTypeOK ==
  /\ \A t \in Tunnels :
       /\ tun[t].pc \in {"idle", "connect", "hello", "shown", "track", "listen", "serving", "ended"}
       /\ {tun[t].host, tun[t].sni, tun[t].leaf, tun[t].verified} \subseteq Spellings \cup {NoName}
       /\ tun[t].cert \in Hosts \cup {NoName}
       /\ {tun[t].fresh, tun[t].closed} \subseteq BOOLEAN
  /\ tracked \subseteq Tunnels
  /\ cache \in UNION {[hs -> BOOLEAN] : hs \in SUBSET Hosts}

TunnelsInit ==
  /\ tun = [t \in Tunnels |-> Idle]
  /\ tracked = {}
  /\ cache = <<>>

-----------------------------------------------------------------------------
(* ca.CertificateFor.                                                      *)

\* Mutant: a cached leaf is used until its end.
HitExpiring(h) == h \in DOMAIN cache

\* A cached leaf is used if it is not about to end.
Hit(h) == h \in DOMAIN cache /\ cache[h]

\* A leaf that is issued goes into the cache, which is emptied when it is full.
Remember(h) ==
  LET kept == IF Cardinality(DOMAIN cache) >= MaxCache THEN {} ELSE DOMAIN cache
  IN [x \in kept \cup {h} |-> x = h \/ cache[x]]

\* Time passes, and a cached leaf comes within leafRenewMargin of its end.
LeafAges ==
  /\ \E h \in DOMAIN cache : cache[h] /\ cache' = [cache EXCEPT ![h] = FALSE]
  /\ UNCHANGED <<tun, tracked>>

-----------------------------------------------------------------------------
(* handleConnect and serveTunnel.                                          *)

Set(t, r) == tun' = [tun EXCEPT ![t] = r]

\* A CONNECT request for a host, the first one or after an earlier tunnel; a
\* malformed target and the proxy itself are refused before anything is done.
Connect(t) ==
  /\ tun[t].pc \in {"idle", "ended"}
  /\ \E h \in Spellings : Set(t, [Idle EXCEPT !.pc = "connect", !.host = h])
  /\ UNCHANGED <<tracked, cache>>

\* The connection is taken over from the server and the client told so, unless
\* it has gone away.
Hijack(t) ==
  /\ tun[t].pc = "connect"
  /\ \E pc \in {"hello", "ended"} : Set(t, [tun[t] EXCEPT !.pc = pc])
  /\ UNCHANGED <<tracked, cache>>

\* A failed handshake ends the tunnel; the row that it leaves is left out here.
SaveFailure(r) == [r EXCEPT !.pc = "ended"]

\* GetCertificate: the client's SNI, else the CONNECT host.
GetCertificate(t) ==
  /\ tun[t].pc = "hello"
  /\ \E sni \in Spellings \cup {NoName} :
       LET leaf == IF sni = NoName THEN tun[t].host ELSE sni
           host == Canonical[leaf]
           r == [tun[t] EXCEPT !.sni = sni, !.leaf = leaf]
       IN \/ host = Invalid /\ Set(t, SaveFailure(r)) /\ UNCHANGED cache
          \/ /\ host # Invalid
             /\ cache' = IF Hit(host) THEN cache ELSE Remember(host)
             /\ Set(t, [r EXCEPT !.pc = "shown", !.cert = host, !.fresh = cache'[host]])
  /\ UNCHANGED tracked

\* The client does not accept the certificate, goes away or takes too long.
HandshakeFails(t) ==
  /\ tun[t].pc \in {"hello", "shown"}
  /\ Set(t, SaveFailure(tun[t]))
  /\ UNCHANGED <<tracked, cache>>

\* Mutant: upstreams are verified against the CONNECT host.
UpstreamNameOfConnect(r) == r.host

\* What net/http verifies the upstream's certificate against: no server name is
\* set for an IP, and then it is the address that was dialled.
UpstreamName(r) == IF r.leaf \in IPs THEN r.host ELSE r.leaf

Handshake(t) ==
  /\ tun[t].pc = "shown"
  /\ Set(t, [tun[t] EXCEPT !.pc = "track", !.verified = UpstreamName(tun[t])])
  /\ UNCHANGED <<tracked, cache>>

\* Mutant: the tunnel is tracked by the goroutine that serves it.
ServeUntracked(t) ==
  /\ tun[t].pc = "track"
  /\ Set(t, [tun[t] EXCEPT !.pc = "serving"])
  /\ UNCHANGED <<tracked, cache>>

\* trackTunnel(srv, true), before Serve.
TrackTunnel(t) ==
  /\ tun[t].pc = "track"
  /\ tracked' = tracked \cup {t}
  /\ Set(t, [tun[t] EXCEPT !.pc = "listen"])
  /\ UNCHANGED cache

\* Serve and its listener of one connection: a server that was closed serves none.
Serve(t) ==
  /\ tun[t].pc = "listen" /\ ~tun[t].closed
  /\ Set(t, [tun[t] EXCEPT !.pc = "serving"])
  /\ UNCHANGED <<tracked, cache>>

\* Serve returns, for the connection ended or the server was closed; the
\* deferred trackTunnel(srv, false).
Ended(t) ==
  /\ \/ tun[t].pc = "serving"
     \/ tun[t].pc = "listen" /\ tun[t].closed
  /\ tracked' = tracked \ {t}
  /\ Set(t, [tun[t] EXCEPT !.pc = "ended"])
  /\ UNCHANGED cache

Tunnel(t) ==
  \/ Hijack(t) \/ GetCertificate(t) \/ HandshakeFails(t) \/ Handshake(t)
  \/ TrackTunnel(t) \/ Serve(t) \/ Ended(t)

=============================================================================
