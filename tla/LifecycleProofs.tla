---------------------------- MODULE LifecycleProofs ----------------------------
(***************************************************************************)
(* Certificates, tunnels and rows at the end of a process, for any number  *)
(* of requests and tunnels, any names and a cache of any size.             *)
(***************************************************************************)
EXTENDS Lifecycle, TLAPS

Places == {"idle", "connect", "hello", "shown", "track", "listen", "serving", "ended"}

\* A tunnel's record; what a certificate is for can be anything here.
TunnelRecord ==
  [pc : Places, host : Spellings \cup {NoName}, sni : Spellings \cup {NoName},
   leaf : Spellings \cup {NoName}, cert : Hosts \cup {NoName}, fresh : BOOLEAN,
   verified : Spellings \cup {NoName}, closed : BOOLEAN]

\* The certificate is made for the name the upstream will be verified as, and both
\* are chosen once per CONNECT request.
NamesAt ==
  \A t \in Tunnels :
    /\ tun[t].pc \in {"connect", "hello"} =>
         /\ tun[t].host \in Spellings
         /\ tun[t].cert = NoName /\ tun[t].verified = NoName
    /\ tun[t].pc = "shown" =>
         /\ tun[t].cert = Canonical[tun[t].leaf]
         /\ tun[t].leaf = IF tun[t].sni = NoName THEN tun[t].host ELSE tun[t].sni

TunnelInv ==
  /\ tun \in [Tunnels -> TunnelRecord]
  /\ \E hs \in SUBSET Hosts : cache \in [hs -> BOOLEAN]
  /\ \A t \in Tunnels : tun[t].pc \in {"listen", "serving"} => t \in tracked
  /\ NamesAt
  /\ CertificateIsVerifiedName

LEMMA TunnelInitInv == TunnelsInit => TunnelInv
  <1>. SUFFICES ASSUME TunnelsInit PROVE TunnelInv
    OBVIOUS
  <1>1. Idle \in TunnelRecord
    BY DEF Idle, TunnelRecord, Places
  <1>2. cache \in [{} -> BOOLEAN]
    BY DEF TunnelsInit
  <1>3. {} \in SUBSET Hosts
    OBVIOUS
  <1>4. \E hs \in SUBSET Hosts : cache \in [hs -> BOOLEAN]
    BY <1>2, <1>3
  <1>5. \A t \in Tunnels : tun[t] = Idle
    BY DEF TunnelsInit
  <1>. QED
    BY <1>1, <1>4, <1>5 DEF TunnelsInit, TunnelInv, NamesAt, CertificateIsVerifiedName, Idle

\* Steps that change one tunnel's record, and neither names nor certificates.
LEMMA PlaceInv ==
  ASSUME TunnelInv, NEW t \in Tunnels, NEW l \in Places,
         tun' = [tun EXCEPT ![t] = [tun[t] EXCEPT !.pc = l]],
         cache' = cache,
         l \in {"hello", "listen", "serving", "ended"},
         l = "hello" => tun[t].pc = "connect",
         l \in {"listen", "serving"} => t \in tracked',
         \A u \in Tunnels \ {t} : u \in tracked => u \in tracked'
  PROVE  TunnelInv'
  <1>1. tun[t] \in TunnelRecord
    BY DEF TunnelInv
  <1>. DEFINE r == [tun[t] EXCEPT !.pc = l]
  <1>2. /\ r \in TunnelRecord
        /\ r.pc = l /\ r.host = tun[t].host /\ r.sni = tun[t].sni /\ r.leaf = tun[t].leaf
        /\ r.cert = tun[t].cert /\ r.fresh = tun[t].fresh /\ r.verified = tun[t].verified
    BY <1>1 DEF TunnelRecord
  <1>. HIDE DEF r
  <1>3. \A u \in Tunnels : tun'[u] = (IF u = t THEN r ELSE tun[u])
    BY DEF TunnelInv, r
  <1>4. tun' \in [Tunnels -> TunnelRecord]
    BY <1>2 DEF TunnelInv, r
  <1>5. \A u \in Tunnels : tun'[u].pc \in {"listen", "serving"} => u \in tracked'
    BY <1>2, <1>3 DEF TunnelInv
  <1>6. NamesAt'
    BY <1>2, <1>3 DEF TunnelInv, NamesAt
  <1>7. CertificateIsVerifiedName'
    BY <1>2, <1>3 DEF TunnelInv, CertificateIsVerifiedName
  <1>. QED
    BY <1>4, <1>5, <1>6, <1>7 DEF TunnelInv

LEMMA ConnectInv ==
  ASSUME TunnelInv, NEW t \in Tunnels, Connect(t)
  PROVE  TunnelInv'
  <1>1. PICK h \in Spellings : tun' = [tun EXCEPT ![t] = [Idle EXCEPT !.pc = "connect", !.host = h]]
    BY DEF Connect, Set
  <1>. DEFINE r == [Idle EXCEPT !.pc = "connect", !.host = h]
  <1>2. /\ r \in TunnelRecord
        /\ r.pc = "connect" /\ r.host = h /\ r.cert = NoName /\ r.verified = NoName
    BY DEF TunnelRecord, Idle, Places
  <1>. HIDE DEF r
  <1>3. /\ \A u \in Tunnels : tun'[u] = (IF u = t THEN r ELSE tun[u])
        /\ tun' \in [Tunnels -> TunnelRecord]
        /\ UNCHANGED <<tracked, cache>>
    BY <1>1, <1>2 DEF Connect, TunnelInv, r
  <1>. QED
    BY <1>2, <1>3 DEF TunnelInv, NamesAt, CertificateIsVerifiedName

\* A leaf that is used or issued is not about to end, and is for the name asked for.
LEMMA LeafIsFresh ==
  ASSUME TunnelInv, NEW h \in Hosts,
         cache' = IF Hit(h) THEN cache ELSE Remember(h)
  PROVE  /\ \E hs \in SUBSET Hosts : cache' \in [hs -> BOOLEAN]
         /\ cache'[h] = TRUE
  <1>1. PICK hs \in SUBSET Hosts : cache \in [hs -> BOOLEAN]
    BY DEF TunnelInv
  <1>2. CASE Hit(h)
    BY <1>1, <1>2 DEF Hit
  <1>3. CASE ~Hit(h)
    <2>1. PICK kept \in SUBSET (DOMAIN cache) :
            Remember(h) = [x \in kept \cup {h} |-> x = h \/ cache[x]]
      BY DEF Remember
    <2>2. kept \cup {h} \in SUBSET Hosts
      BY <1>1, <2>1
    <2>3. cache' = [x \in kept \cup {h} |-> x = h \/ cache[x]]
      BY <1>3, <2>1
    <2>4. cache' \in [kept \cup {h} -> BOOLEAN]
      BY <2>3
    <2>5. cache'[h] = TRUE
      BY <2>3, Zenon
    <2>. QED
      BY <2>2, <2>4, <2>5
  <1>. QED
    BY <1>2, <1>3

LEMMA GetCertificateInv ==
  ASSUME TunnelInv, NEW t \in Tunnels, GetCertificate(t)
  PROVE  TunnelInv'
  <1>1. PICK sni \in Spellings \cup {NoName} :
          LET leaf == IF sni = NoName THEN tun[t].host ELSE sni
              host == Canonical[leaf]
              r == [tun[t] EXCEPT !.sni = sni, !.leaf = leaf]
          IN \/ host = Invalid /\ Set(t, SaveFailure(r)) /\ UNCHANGED cache
             \/ /\ host # Invalid
                /\ cache' = IF Hit(host) THEN cache ELSE Remember(host)
                /\ Set(t, [r EXCEPT !.pc = "shown", !.cert = host, !.fresh = cache'[host]])
    BY DEF GetCertificate
  <1>. DEFINE leaf == IF sni = NoName THEN tun[t].host ELSE sni
              host == Canonical[leaf]
              r == [tun[t] EXCEPT !.sni = sni, !.leaf = leaf]
  <1>2. /\ tun[t] \in TunnelRecord
        /\ tun[t].pc = "hello" /\ tun[t].host \in Spellings
        /\ tun[t].cert = NoName /\ tun[t].verified = NoName
        /\ UNCHANGED tracked
    BY DEF GetCertificate, TunnelInv, NamesAt
  <1>3. leaf \in Spellings
    BY <1>2
  <1>4. /\ r \in TunnelRecord
        /\ r.sni = sni /\ r.leaf = leaf /\ r.host = tun[t].host
        /\ r.cert = NoName /\ r.verified = NoName
    BY <1>2, <1>3 DEF TunnelRecord
  <1>5. CASE host = Invalid /\ Set(t, SaveFailure(r)) /\ UNCHANGED cache
    <2>. DEFINE s == [r EXCEPT !.pc = "ended"]
    <2>1. s \in TunnelRecord /\ s.pc = "ended" /\ s.cert = NoName /\ s.verified = NoName
      BY <1>4 DEF TunnelRecord, Places
    <2>2. tun' = [tun EXCEPT ![t] = s]
      BY <1>5 DEF Set, SaveFailure
    <2>. HIDE DEF s, r
    <2>3. /\ \A u \in Tunnels : tun'[u] = (IF u = t THEN s ELSE tun[u])
          /\ tun' \in [Tunnels -> TunnelRecord]
      BY <2>1, <2>2 DEF TunnelInv
    <2>. QED
      BY <1>2, <1>5, <2>1, <2>3 DEF TunnelInv, NamesAt, CertificateIsVerifiedName
  <1>6. CASE /\ host # Invalid
             /\ cache' = IF Hit(host) THEN cache ELSE Remember(host)
             /\ Set(t, [r EXCEPT !.pc = "shown", !.cert = host, !.fresh = cache'[host]])
    <2>1. host \in Hosts
      BY <1>3, <1>6 DEF Hosts
    <2>2. (\E hs \in SUBSET Hosts : cache' \in [hs -> BOOLEAN]) /\ cache'[host] = TRUE
      BY <1>6, <2>1, LeafIsFresh
    <2>. DEFINE s == [r EXCEPT !.pc = "shown", !.cert = host, !.fresh = TRUE]
    <2>3. /\ s \in TunnelRecord
          /\ s.pc = "shown" /\ s.cert = host /\ s.fresh = TRUE
          /\ s.leaf = leaf /\ s.sni = sni /\ s.host = tun[t].host /\ s.verified = NoName
      <3>. HIDE DEF r, host, leaf
      <3>1. "shown" \in Places
        BY DEF Places
      <3>. QED
        BY <1>4, <2>1, <3>1 DEF TunnelRecord
    <2>4. tun' = [tun EXCEPT ![t] = s]
      BY <1>6, <2>2 DEF Set
    <2>. HIDE DEF s, r
    <2>5. /\ \A u \in Tunnels : tun'[u] = (IF u = t THEN s ELSE tun[u])
          /\ tun' \in [Tunnels -> TunnelRecord]
      BY <2>3, <2>4 DEF TunnelInv
    <2>. QED
      BY <1>2, <2>2, <2>3, <2>5 DEF TunnelInv, NamesAt, CertificateIsVerifiedName
  <1>. QED
    BY <1>1, <1>5, <1>6

LEMMA HandshakeInv ==
  ASSUME TunnelInv, NEW t \in Tunnels, Handshake(t)
  PROVE  TunnelInv'
  <1>. DEFINE v == UpstreamName(tun[t])
              r == [tun[t] EXCEPT !.pc = "track", !.verified = v]
  <1>1. /\ tun[t] \in TunnelRecord
        /\ tun[t].pc = "shown"
        /\ tun[t].cert = Canonical[tun[t].leaf]
        /\ tun[t].leaf = IF tun[t].sni = NoName THEN tun[t].host ELSE tun[t].sni
        /\ tun[t].cert # NoName => tun[t].fresh
        /\ tun' = [tun EXCEPT ![t] = r]
        /\ UNCHANGED <<tracked, cache>>
    BY DEF Handshake, Set, TunnelInv, NamesAt, CertificateIsVerifiedName
  <1>2. v \in Spellings \cup {NoName} /\ (tun[t].sni \notin IPs => v = tun[t].leaf)
    <2>1. CASE tun[t].leaf \in IPs
      BY <1>1, <2>1 DEF UpstreamName, TunnelRecord
    <2>2. CASE tun[t].leaf \notin IPs
      BY <1>1, <2>2 DEF UpstreamName, TunnelRecord
    <2>. QED
      BY <2>1, <2>2
  <1>. HIDE DEF v
  <1>3. /\ r \in TunnelRecord
        /\ r.pc = "track" /\ r.verified = v /\ r.sni = tun[t].sni /\ r.leaf = tun[t].leaf
        /\ r.cert = tun[t].cert /\ r.fresh = tun[t].fresh
    BY <1>1, <1>2 DEF TunnelRecord, Places
  <1>. HIDE DEF r
  <1>4. /\ \A u \in Tunnels : tun'[u] = (IF u = t THEN r ELSE tun[u])
        /\ tun' \in [Tunnels -> TunnelRecord]
    BY <1>1, <1>3 DEF TunnelInv
  <1>5. CertificateIsVerifiedName'
    <2>1. /\ r.cert # NoName => r.cert = Canonical[r.leaf] /\ r.fresh
          /\ r.verified # NoName /\ r.sni \notin IPs => Canonical[r.verified] = r.cert
      BY <1>1, <1>2, <1>3
    <2>. QED
      BY <1>4, <2>1 DEF TunnelInv, CertificateIsVerifiedName
  <1>. QED
    BY <1>1, <1>3, <1>4, <1>5 DEF TunnelInv, NamesAt

LEMMA LeafAgesInv ==
  ASSUME TunnelInv, LeafAges
  PROVE  TunnelInv'
  <1>1. PICK hs \in SUBSET Hosts : cache \in [hs -> BOOLEAN]
    BY DEF TunnelInv
  <1>2. cache' \in [hs -> BOOLEAN] /\ UNCHANGED <<tun, tracked>>
    BY <1>1 DEF LeafAges
  <1>. QED
    BY <1>2 DEF TunnelInv, NamesAt, CertificateIsVerifiedName

LEMMA TunnelStepInv ==
  ASSUME TunnelInv, NEW t \in Tunnels, Tunnel(t)
  PROVE  TunnelInv'
  <1>0. {"hello", "listen", "serving", "ended"} \subseteq Places
    BY DEF Places
  <1>1. CASE Hijack(t)
    BY <1>0, <1>1, PlaceInv DEF Hijack, Set
  <1>2. CASE HandshakeFails(t)
    BY <1>0, <1>2, PlaceInv DEF HandshakeFails, SaveFailure, Set
  <1>3. CASE TrackTunnel(t)
    BY <1>0, <1>3, PlaceInv DEF TrackTunnel, Set
  <1>4. CASE Serve(t)
    <2>1. t \in tracked
      BY <1>4 DEF Serve, TunnelInv
    <2>. QED
      BY <1>0, <1>4, <2>1, PlaceInv DEF Serve, Set
  <1>5. CASE Ended(t)
    BY <1>0, <1>5, PlaceInv DEF Ended, Set
  <1>. QED
    BY <1>1, <1>2, <1>3, <1>4, <1>5, GetCertificateInv, HandshakeInv DEF Tunnel

LEMMA CloseTunnelsInv ==
  ASSUME TunnelInv, CloseTunnels
  PROVE  TunnelInv'
  <1>1. /\ tun' = [t \in Tunnels |-> [tun[t] EXCEPT !.closed = tun[t].closed \/ t \in tracked]]
        /\ UNCHANGED <<tracked, cache>>
    BY DEF CloseTunnels
  <1>2. ASSUME NEW t \in Tunnels
        PROVE  /\ tun'[t] \in TunnelRecord
               /\ tun'[t].pc = tun[t].pc /\ tun'[t].host = tun[t].host /\ tun'[t].sni = tun[t].sni
               /\ tun'[t].leaf = tun[t].leaf /\ tun'[t].cert = tun[t].cert
               /\ tun'[t].fresh = tun[t].fresh /\ tun'[t].verified = tun[t].verified
    <2>1. tun[t] \in TunnelRecord
      BY DEF TunnelInv
    <2>2. PICK b \in BOOLEAN : tun'[t] = [tun[t] EXCEPT !.closed = b]
      BY <1>1, <2>1 DEF TunnelRecord
    <2>. QED
      BY <2>1, <2>2 DEF TunnelRecord
  <1>3. tun' \in [Tunnels -> TunnelRecord]
    BY <1>1, <1>2
  <1>. QED
    BY <1>1, <1>2, <1>3 DEF TunnelInv, NamesAt, CertificateIsVerifiedName

LEMMA TunnelNextInv == TunnelInv /\ [Next]_vars => TunnelInv'
  <1>1. ASSUME TunnelInv, UNCHANGED tunnelVars PROVE TunnelInv'
    BY <1>1 DEF tunnelVars, TunnelInv, NamesAt, CertificateIsVerifiedName
  <1>2. ASSUME [Next]_vars
        PROVE  \/ UNCHANGED tunnelVars
               \/ CloseTunnels \/ LeafAges
               \/ \E t \in Tunnels : Connect(t) \/ Tunnel(t)
    BY <1>2 DEF Next, vars, TunnelSteps, Main, Hold, Unhold, Finish, Request, TunnelRequest,
                SetSettings, ServiceBusy, ServiceDone, Signal, Deadline, SwitchOff, StopProxy,
                StopService, CloseStore
  <1>. QED
    BY <1>1, <1>2, CloseTunnelsInv, LeafAgesInv, ConnectInv, TunnelStepInv

LEMMA LifeInitInv == Init => TunnelInv
  BY TunnelInitInv DEF Init

\* Whatever names clients use, however small the cache and whenever leaves come near
\* their end, a client is shown a fresh certificate for the host it asked for, and the
\* upstream is verified as that host (GetCertificate of tunnel.go, CertificateFor of
\* ca.go).
THEOREM ClientSeesVerifiedHost == Spec => []CertificateIsVerifiedName
  <1>1. TunnelInv => CertificateIsVerifiedName
    BY DEF TunnelInv
  <1>. QED
    BY <1>1, LifeInitInv, TunnelNextInv, PTL DEF Spec

\* Shutdown closes every tunnel that serves then (trackTunnel before Serve).
THEOREM ShutdownClosesTunnels == Spec => ServingTunnelsAreClosed
  <1>. DEFINE A == main = "tunnels" /\ main' = "web" =>
                     \A t \in Tunnels : tun[t].pc = "serving" => tun'[t].closed
  <1>1. ASSUME TunnelInv, [Next]_vars, main = "tunnels", main' = "web",
               NEW t \in Tunnels, tun[t].pc = "serving"
        PROVE  tun'[t].closed
    <2>1. CloseTunnels
      BY <1>1 DEF Next, vars, lifeVars, TunnelSteps, Main, Hold, Unhold, Finish, Request,
                  TunnelRequest, SetSettings, ServiceBusy, ServiceDone, Signal, Deadline,
                  SwitchOff, StopProxy, StopService, CloseStore, Services
    <2>2. t \in tracked /\ tun[t] \in TunnelRecord
      BY <1>1 DEF TunnelInv
    <2>3. tun'[t] = [tun[t] EXCEPT !.closed = TRUE]
      BY <2>1, <2>2 DEF CloseTunnels
    <2>. QED
      BY <2>2, <2>3 DEF TunnelRecord
  <1>2. TunnelInv /\ [Next]_vars => [A]_vars
    BY <1>1
  <1>. QED
    BY <1>2, LifeInitInv, TunnelNextInv, PTL DEF Spec, ServingTunnelsAreClosed

-----------------------------------------------------------------------------
(* Rows.  The store is open until main is done with everything else, and   *)
(* once the proxy has stopped in time no plain request is under way, or    *)
(* comes.                                                                  *)

RowsInv ==
  /\ main \in {"serving", "toggle", "proxy", "tunnels", "web", "relay", "syscapture", "close", "exited"}
  /\ db = "open" \/ main \in {"close", "exited"}
  /\ DOMAIN ex = Exchanges
  /\ inTime =>
       /\ main \notin {"serving", "toggle", "proxy"}
       /\ \A p \in Plain : ex[p] \in {"none", "saved"}
  /\ \A p \in Plain : \/ ex[p] \in {"none", "active", "held", "saved"}
                      \/ ex[p] = "lost" /\ db # "open"

LEMMA RowsInitInv == Init => RowsInv
  BY DEF Init, RowsInv, Exchanges

\* An exchange goes on, or ends with its save.
LEMMA ExchangeRowsInv ==
  ASSUME RowsInv, NEW x \in Exchanges, NEW v \in {"active", "held", "saved", "lost"},
         ex' = [ex EXCEPT ![x] = v],
         ex[x] \in {"active", "held"} \/ ~inTime \/ x \notin Plain,
         v = "lost" => db # "open",
         UNCHANGED <<main, inTime, db>>
  PROVE  RowsInv'
  <1>1. \A y \in Exchanges : ex'[y] = (IF y = x THEN v ELSE ex[y])
    BY DEF RowsInv
  <1>2. Plain \subseteq Exchanges /\ DOMAIN ex' = Exchanges
    BY DEF Exchanges, RowsInv
  <1>3. inTime => x \notin Plain
    BY DEF RowsInv
  <1>. QED
    BY <1>1, <1>2, <1>3 DEF RowsInv

LEMMA RowsNextInv == RowsInv /\ [Next]_vars => RowsInv'
  <1>. SUFFICES ASSUME RowsInv, [Next]_vars PROVE RowsInv'
    OBVIOUS
  <1>1. CASE UNCHANGED lifeVars
    BY <1>1 DEF lifeVars, RowsInv
  <1>2. ASSUME NEW x \in Exchanges, Hold(x) \/ Unhold(x) \/ Finish(x) PROVE RowsInv'
    <2>1. CASE Hold(x)
      BY <2>1, ExchangeRowsInv DEF Hold
    <2>2. CASE Unhold(x)
      BY <2>2, ExchangeRowsInv DEF Unhold
    <2>3. CASE Finish(x)
      <3>1. CASE db = "open"
        BY <2>3, <3>1, ExchangeRowsInv DEF Finish
      <3>2. CASE db # "open"
        BY <2>3, <3>2, ExchangeRowsInv DEF Finish
      <3>. QED
        BY <3>1, <3>2
    <2>. QED
      BY <1>2, <2>1, <2>2, <2>3
  <1>3. ASSUME NEW p \in Plain, Request(p) PROVE RowsInv'
    BY <1>3, ExchangeRowsInv DEF Request, Accepting, Exchanges
  <1>4. ASSUME NEW t \in Tunnels, TunnelRequest(t) PROVE RowsInv'
    BY <1>4, ExchangeRowsInv, LifecycleAssumption DEF TunnelRequest, Exchanges
  <1>5. CASE SetSettings \/ SwitchOff
    <2>1. /\ DOMAIN ex' = Exchanges
          /\ \A x \in Exchanges : ex'[x] = ex[x] \/ (ex[x] = "held" /\ ex'[x] = "active")
          /\ UNCHANGED <<inTime, db>>
          /\ main' = main \/ (main = "toggle" /\ main' = "proxy")
      BY <1>5 DEF SetSettings, SwitchOff
    <2>2. Plain \subseteq Exchanges
      BY DEF Exchanges
    <2>. QED
      BY <2>1, <2>2 DEF RowsInv
  <1>6. CASE StopProxy
    <2>1. /\ main = "proxy" /\ main' = "tunnels" /\ UNCHANGED <<ex, db>>
          /\ inTime' => Waited = {}
      BY <1>6 DEF StopProxy
    <2>2. Waited = {} => \A p \in Plain : ex[p] \notin {"active", "held"}
      BY DEF Waited
    <2>. QED
      BY <2>1, <2>2 DEF RowsInv
  <1>7. CASE CloseTunnels \/ (\E s \in Services : StopService(s)) \/ CloseStore
    <2>1. /\ main \in {"tunnels", "web", "relay", "syscapture", "close"}
          /\ main' \in {"web", "relay", "syscapture", "close", "exited"}
          /\ db' = db \/ main = "close"
          /\ main = "close" => main' \in {"close", "exited"}
          /\ UNCHANGED <<inTime, ex>>
      BY <1>7 DEF CloseTunnels, StopService, CloseStore, Services, After
    <2>2. db' # "open" \/ db = "open"
      BY <1>7 DEF CloseTunnels, StopService, CloseStore
    <2>. QED
      BY <2>1, <2>2 DEF RowsInv
  <1>8. CASE Signal \/ Deadline \/ \E s \in Services : ServiceBusy(s) \/ ServiceDone(s)
    <2>1. /\ UNCHANGED <<inTime, ex, db>>
          /\ main' = main \/ (main = "serving" /\ main' = "toggle")
      BY <1>8 DEF Signal, Deadline, ServiceBusy, ServiceDone
    <2>. QED
      BY <2>1 DEF RowsInv
  <1>. QED
    BY <1>1, <1>2, <1>3, <1>4, <1>5, <1>6, <1>7, <1>8 DEF Next, Main, TunnelSteps, vars

\* A shutdown that was in time has saved every plain exchange, however many there
\* are (run in main.go: the store is closed last, and the deferred save is part of the
\* handler that server.Shutdown waits for).
THEOREM ShutdownInTimeSavesAll == Spec => []PlainExchangesAreSaved
  <1>1. RowsInv => PlainExchangesAreSaved
    BY DEF RowsInv, PlainExchangesAreSaved
  <1>. QED
    BY <1>1, RowsInitInv, RowsNextInv, PTL DEF Spec

=============================================================================
