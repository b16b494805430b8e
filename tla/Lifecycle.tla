------------------------------- MODULE Lifecycle -------------------------------
(***************************************************************************)
(* The end of a process (cmd/proxyscope/main.go, run; Proxy.Shutdown):     *)
(* exchanges of plain connections and of tunnels are under way, some held  *)
(* by the intercept queue, and the web UI still serves, while main stops   *)
(* one part after the other within five seconds, and closes the store.     *)
(*                                                                         *)
(* An exchange is Forward seen from outside: it may be held, it ends by    *)
(* itself or not at all, and then it is saved.  A held one goes on when    *)
(* the user, the toggle or the end of its connection lets it (HoldContract *)
(* with no timeout).                                                       *)
(***************************************************************************)
EXTENDS Tunnels

CONSTANTS Plain    \* requests that are not CONNECT requests

ASSUME LifecycleAssumption == Plain \cap Tunnels = {}

Exchanges == Plain \cup Tunnels   \* one at a time in each tunnel
Services == {"web", "relay", "syscapture"}

VARIABLES main,      \* run's place
          deadline,  \* shutCtx is over
          inTime,    \* px.server.Shutdown returned nil
          icptOn,    \* an intercept toggle is on
          db,        \* the store: "open" or "closed"
          busy,      \* services that have something going that Shutdown waits for
          ex         \* each exchange's place

lifeVars == <<main, deadline, inTime, icptOn, db, busy, ex>>
vars == <<tunnelVars, lifeVars>>

TypeOK ==
  /\ TunnelsTypeOK
  /\ main \in {"serving", "toggle", "proxy", "tunnels", "web", "relay", "syscapture", "close", "exited"}
  /\ deadline \in BOOLEAN /\ inTime \in BOOLEAN /\ icptOn \in BOOLEAN
  /\ db \in {"open", "closed"}
  /\ busy \subseteq Services
  /\ ex \in [Exchanges -> {"none", "active", "held", "answered", "saved", "lost"}]

Init ==
  /\ TunnelsInit
  /\ main = "serving"
  /\ deadline = FALSE /\ inTime = FALSE /\ icptOn = FALSE
  /\ db = "open" /\ busy = {}
  /\ ex = [x \in Exchanges |-> "none"]

Running == main # "exited"

\* Under way; "answered" is a place of the mutant FinishUnsaved only.
Alive(x) == ex[x] \in {"active", "held", "answered"}

-----------------------------------------------------------------------------
(* Exchanges.                                                              *)

\* server.Shutdown has not returned nil: the listener is open, or a connection that it
\* accepted before may still bring its first request, for which Shutdown waits.
Accepting == Running /\ ~inTime

\* ServeHTTP: a plain request.  What is answered with an error page is not forwarded
\* and leaves nothing behind.
Request(p) ==
  /\ Accepting /\ ex[p] = "none"
  /\ ex' = [ex EXCEPT ![p] = "active"]
  /\ UNCHANGED <<tunnelVars, main, deadline, inTime, icptOn, busy, db>>

\* A request in a tunnel, after the one before it.
TunnelRequest(t) ==
  /\ Running /\ ~Alive(t)
  /\ tun[t].pc = "serving" /\ ~tun[t].closed
  /\ ex' = [ex EXCEPT ![t] = "active"]
  /\ UNCHANGED <<tunnelVars, main, deadline, inTime, icptOn, busy, db>>

Hold(x) ==
  /\ Running /\ ex[x] = "active" /\ icptOn
  /\ ex' = [ex EXCEPT ![x] = "held"]
  /\ UNCHANGED <<tunnelVars, main, deadline, inTime, icptOn, busy, db>>

\* The user, or the end of the connection.
Unhold(x) ==
  /\ Running /\ ex[x] = "held"
  /\ ex' = [ex EXCEPT ![x] = "active"]
  /\ UNCHANGED <<tunnelVars, main, deadline, inTime, icptOn, busy, db>>

\* Mutant: the row is saved after the handler has returned.
FinishUnsaved(x) ==
  /\ Running /\ ex[x] \in {"active", "answered"}
  /\ ex' = [ex EXCEPT ![x] = IF @ = "active" THEN "answered"
                             ELSE IF db = "open" THEN "saved" ELSE "lost"]
  /\ UNCHANGED <<tunnelVars, main, deadline, inTime, icptOn, busy, db>>

\* forward returns: the deferred save is part of the handler.
Finish(x) ==
  /\ Running /\ ex[x] = "active"
  /\ ex' = [ex EXCEPT ![x] = IF db = "open" THEN "saved" ELSE "lost"]
  /\ UNCHANGED <<tunnelVars, main, deadline, inTime, icptOn, busy, db>>

-----------------------------------------------------------------------------
(* What the user and the services do.                                      *)

\* PUT /api/intercept/settings, while the UI's listener is open: off releases.
SetSettings ==
  /\ main \in {"serving", "toggle", "proxy", "tunnels"}
  /\ icptOn' \in BOOLEAN
  /\ ex' = [x \in Exchanges |-> IF ex[x] = "held" /\ ~icptOn' THEN "active" ELSE ex[x]]
  /\ UNCHANGED <<tunnelVars, main, deadline, inTime, busy, db>>

\* A long request to the UI (a replay), a relay session, a held packet.
ServiceBusy(s) ==
  /\ main = "serving" /\ s \notin busy
  /\ busy' = busy \cup {s}
  /\ UNCHANGED <<tunnelVars, main, deadline, inTime, icptOn, ex, db>>

ServiceDone(s) ==
  /\ Running /\ s \in busy
  /\ busy' = busy \ {s}
  /\ UNCHANGED <<tunnelVars, main, deadline, inTime, icptOn, ex, db>>

-----------------------------------------------------------------------------
(* run, from the signal, or the error of a listener, to its return.        *)

Signal ==
  /\ main = "serving"
  /\ main' = "toggle"
  /\ UNCHANGED <<tunnelVars, deadline, inTime, icptOn, busy, ex, db>>

\* icpt.SetSettings(off); from here on shutCtx runs.
SwitchOff ==
  /\ main = "toggle"
  /\ main' = "proxy"
  /\ icptOn' = FALSE
  /\ ex' = [x \in Exchanges |-> IF ex[x] = "held" THEN "active" ELSE ex[x]]
  /\ UNCHANGED <<tunnelVars, deadline, inTime, busy, db>>

Deadline ==
  /\ main \in {"proxy", "tunnels", "web", "relay", "syscapture"} /\ ~deadline
  /\ deadline' = TRUE
  /\ UNCHANGED <<tunnelVars, main, inTime, icptOn, busy, ex, db>>

\* The connections that server.Shutdown waits for: a hijacked one is none of them.
Waited == {p \in Plain : ex[p] \in {"active", "held"}} \cup {t \in Tunnels : tun[t].pc = "connect"}

\* Mutant: the proxy waits for its connections however long they take.
StopProxyPatiently ==
  /\ main = "proxy" /\ Waited = {}
  /\ inTime' = TRUE
  /\ main' = "tunnels"
  /\ UNCHANGED <<tunnelVars, deadline, icptOn, busy, ex, db>>

StopProxy ==
  /\ main = "proxy"
  /\ \/ Waited = {} /\ inTime' = TRUE
     \/ deadline /\ Waited # {} /\ inTime' = FALSE
  /\ main' = "tunnels"
  /\ UNCHANGED <<tunnelVars, deadline, icptOn, busy, ex, db>>

\* The rest of Proxy.Shutdown: every server in the map is closed.
CloseTunnels ==
  /\ main = "tunnels"
  /\ main' = "web"
  /\ tun' = [t \in Tunnels |-> [tun[t] EXCEPT !.closed = @ \/ t \in tracked]]
  /\ UNCHANGED <<tracked, cache, deadline, inTime, icptOn, busy, ex, db>>

After(s) == CASE s = "web" -> "relay" [] s = "relay" -> "syscapture" [] s = "syscapture" -> "close"

StopService(s) ==
  /\ main = s
  /\ s \notin busy \/ deadline
  /\ main' = After(s)
  /\ UNCHANGED <<tunnelVars, deadline, inTime, icptOn, busy, ex, db>>

\* The deferred calls, of which the last one closes the store, and the end.
CloseStore ==
  /\ main = "close"
  /\ \/ db = "open" /\ db' = "closed" /\ UNCHANGED main
     \/ db = "closed" /\ main' = "exited" /\ UNCHANGED db
  /\ UNCHANGED <<tunnelVars, deadline, inTime, icptOn, busy, ex>>

Main == SwitchOff \/ StopProxy \/ CloseTunnels \/ (\E s \in Services : StopService(s)) \/ CloseStore

\* A new CONNECT request needs the server; the rest of a tunnel does not.
TunnelSteps ==
  /\ Running
  /\ \/ Accepting /\ \E t \in Tunnels : ~Alive(t) /\ Connect(t)
     \/ \E t \in Tunnels : Tunnel(t)
     \/ LeafAges
  /\ UNCHANGED lifeVars

Next ==
  \/ \E x \in Exchanges : Hold(x) \/ Unhold(x) \/ Finish(x)
  \/ \E p \in Plain : Request(p)
  \/ \E t \in Tunnels : TunnelRequest(t)
  \/ SetSettings
  \/ \E s \in Services : ServiceBusy(s) \/ ServiceDone(s)
  \/ Signal \/ Deadline \/ Main
  \/ TunnelSteps

Spec == Init /\ [][Next]_vars

\* main runs, and the five seconds pass.
FairSpec == Spec /\ WF_vars(Main) /\ WF_vars(Deadline)

-----------------------------------------------------------------------------
(* Properties.                                                             *)

\* The certificate a client is shown is for the host it asked for, not about to
\* end, and for the same host that the upstream is verified against (tunnel.go:31,
\* README:119): otherwise a client would take one server for another.  An IP in the
\* SNI is the exception: the upstream is then verified against the CONNECT host.
CertificateIsVerifiedName ==
  \A t \in Tunnels : LET r == tun[t] IN
    /\ r.cert # NoName => r.cert = Canonical[r.leaf] /\ r.fresh
    /\ r.verified # NoName /\ r.sni \notin IPs => Canonical[r.verified] = r.cert

\* Shutdown closes every tunnel that serves requests then, though http.Server does
\* not know their connections (proxy.go:98): none is served without being in the map.
ServingTunnelsAreClosed ==
  [][main = "tunnels" /\ main' = "web" =>
       \A t \in Tunnels : tun[t].pc = "serving" => tun'[t].closed]_vars

\* A shutdown that was in time has saved every plain exchange: none is still under
\* way, or comes to a closed store.
PlainExchangesAreSaved ==
  main = "exited" /\ inTime => \A p \in Plain : ex[p] \in {"none", "saved"}

\* Whatever is under way, held or serving, a signal ends the process
\* (main.go:177).
SignalEndsProcess == main = "toggle" ~> main = "exited"

\* "Shutdown releases everything held so graceful shutdown never waits for you"
\* (README:259).
\* Not so: README, section 5.
NeverWaitsForUser == main = "proxy" => \A p \in Plain : ex[p] # "held"

=============================================================================
