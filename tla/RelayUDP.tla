------------------------------- MODULE RelayUDP -------------------------------
(***************************************************************************)
(* One UDP target of the relay (internal/relay/udp.go, storeChunk and      *)
(* Shutdown of relay.go).  One goroutine reads the datagrams of all        *)
(* clients, and opens a session with a socket of its own for each client   *)
(* address; each session has a goroutine that reads its socket; a sweep    *)
(* evicts sessions that have been idle for too long; and the service may   *)
(* be shut down.  A goroutine that carries a datagram is a carrier: 0 is   *)
(* the target's reader, i > 0 is the downstream reader of session i.       *)
(*                                                                         *)
(* The module is about the lives of sessions: when they are found, opened, *)
(* evicted and closed, and by whom.  A datagram is only the client it came *)
(* from; holding is taken at the level of HoldContract; what is stored of  *)
(* a datagram, the same as in RelayTCP, is left out.                       *)
(***************************************************************************)
EXTENDS Integers, FiniteSets

CONSTANTS Clients,    \* client addresses
          NoClient,   \* the client of a session that does not exist
          Datagrams,  \* how many datagrams the clients may send (a bound)
          Answers,    \* how many answers a session may get (a bound)
          TimeoutOn,  \* -intercept-timeout is greater than zero
          MayRefuse   \* an upstream's host may refuse datagrams (a bound)

ASSUME RelayUDPAssumption ==
  /\ NoClient \notin Clients
  /\ Datagrams \in Nat
  /\ Answers \in Nat
  /\ TimeoutOn \in BOOLEAN
  /\ MayRefuse \in BOOLEAN

Sessions == 1..Datagrams   \* in the order in which they were opened
Carriers == 0..Datagrams
Dirs == {"up", "down"}

VARIABLES settings,  \* the target's toggles
          stop,      \* how far Shutdown is
          read,      \* the number of datagrams read from clients
          pc,        \* where each carrier is
          from,      \* the client of the datagram the target's reader has
          current,   \* the session the target's reader is working for, or 0
          opened,    \* the number of sessions opened
          client,    \* the client of each session
          sessions,  \* udpTargetState.sessions: a set of sessions
          stale,     \* lastActivity is longer ago than the idle timeout
          socket,    \* upstreamConn: none, open, closed
          row,       \* the session's row: none, failed, open, closed, closedAgain
          answers,   \* the number of answers each session read
          evict,     \* the sessions the sweep removed and has still to close
          written    \* datagrams were written to the session's socket

tableVars == <<opened, client, sessions>>
sessionVars == <<stale, socket, row, answers, written>>
vars == <<settings, stop, read, pc, from, current, tableVars, sessionVars,
          evict>>

TypeOK ==
  /\ settings \in [Dirs -> BOOLEAN]
  /\ stop \in {"running", "cancelled", "unbound", "waiting"}
  /\ read \in 0..Datagrams
  /\ pc \in [Carriers -> {"none", "read", "lookup", "dial", "insert", "touch",
                          "hold", "held", "write", "dropped", "ended"}]
  /\ from \in Clients \cup {NoClient}
  /\ current \in 0..opened
  /\ opened \in 0..Datagrams
  /\ client \in [Sessions -> Clients \cup {NoClient}]
  /\ sessions \subseteq {i \in 1..opened : socket[i] # "none"}
  /\ stale \in [Sessions -> BOOLEAN]
  /\ socket \in [Sessions -> {"none", "open", "closed"}]
  /\ row \in [Sessions -> {"none", "failed", "open", "closed", "closedAgain"}]
  /\ answers \in [Sessions -> 0..Answers]
  /\ evict \subseteq Sessions
  /\ written \in [Sessions -> BOOLEAN]

Init ==
  /\ settings = [d \in Dirs |-> FALSE]
  /\ stop = "running"
  /\ read = 0
  /\ pc = [k \in Carriers |-> IF k = 0 THEN "read" ELSE "none"]
  /\ from = NoClient
  /\ current = 0
  /\ opened = 0
  /\ client = [i \in Sessions |-> NoClient]
  /\ sessions = {}
  /\ stale = [i \in Sessions |-> FALSE]
  /\ socket = [i \in Sessions |-> "none"]
  /\ row = [i \in Sessions |-> "none"]
  /\ answers = [i \in Sessions |-> 0]
  /\ evict = {}
  /\ written = [i \in Sessions |-> FALSE]

Goto(k, l) == pc' = [pc EXCEPT ![k] = l]

Dir(k) == IF k = 0 THEN "up" ELSE "down"

Session(k) == IF k = 0 THEN current ELSE k

Stopping == stop # "running"

-----------------------------------------------------------------------------
(* The target's reader: ReadFromUDP, udpSessionFor, lastActivity.          *)

ReadDatagram(c) ==
  /\ pc[0] = "read"
  /\ stop \in {"running", "cancelled"}
  /\ read < Datagrams
  /\ read' = read + 1
  /\ from' = c
  /\ Goto(0, "lookup")
  /\ UNCHANGED <<settings, stop, current, tableVars, sessionVars, evict>>

\* The listener was closed, or reading from it fails on its own.
ReaderEnds ==
  /\ pc[0] = "read"
  /\ Goto(0, "ended")
  /\ UNCHANGED <<settings, stop, read, from, current, tableVars, sessionVars,
                 evict>>

\* The lookup under the mutex.
Lookup ==
  /\ pc[0] = "lookup"
  /\ LET found == {i \in sessions : client[i] = from}
     IN \/ found = {} /\ current' = 0 /\ Goto(0, "dial")
        \/ \E i \in found : current' = i /\ Goto(0, "touch")
  /\ UNCHANGED <<settings, stop, read, from, tableVars, sessionVars, evict>>

\* Dial and OpenSession.  When dialling fails the row is stored closed, and
\* the datagram is gone.
Dial ==
  /\ pc[0] = "dial"
  /\ opened' = opened + 1
  /\ client' = [client EXCEPT ![opened'] = from]
  /\ \/ /\ row' = [row EXCEPT ![opened'] = "open"]
        /\ socket' = [socket EXCEPT ![opened'] = "open"]
        /\ current' = opened'
        /\ Goto(0, "insert")
     \/ /\ row' = [row EXCEPT ![opened'] = "failed"]
        /\ Goto(0, "read")
        /\ UNCHANGED <<socket, current>>
  /\ UNCHANGED <<settings, stop, read, from, sessions, stale, answers, written,
                 evict>>

\* Mutant: a service that is stopping takes no more sessions into its table.
InsertUnlessStopping ==
  /\ pc[0] = "insert"
  /\ sessions' = IF Stopping THEN sessions ELSE sessions \cup {current}
  /\ pc' = [pc EXCEPT ![0] = "touch", ![current] = "read"]
  /\ UNCHANGED <<settings, stop, read, from, current, opened, client, sessionVars,
                 evict>>

\* The insertion under the mutex, and the session's own goroutine.
Insert ==
  /\ pc[0] = "insert"
  /\ sessions' = sessions \cup {current}
  /\ pc' = [pc EXCEPT ![0] = "touch", ![current] = "read"]
  /\ UNCHANGED <<settings, stop, read, from, current, opened, client, sessionVars,
                 evict>>

Touch ==
  /\ pc[0] = "touch"
  /\ stale' = [stale EXCEPT ![current] = FALSE]
  /\ Goto(0, "hold")
  /\ UNCHANGED <<settings, stop, read, from, current, tableVars, socket, row,
                 answers, written, evict>>

-----------------------------------------------------------------------------
(* The downstream readers.                                                 *)

ReadAnswer(i) ==
  /\ i > 0
  /\ pc[i] = "read"
  /\ socket[i] = "open"
  /\ answers[i] < Answers
  /\ answers' = [answers EXCEPT ![i] = @ + 1]
  /\ Goto(i, "hold")
  /\ UNCHANGED <<settings, stop, read, from, current, tableVars, stale, socket,
                 row, written, evict>>

\* Read fails, and the goroutine returns: the socket was closed, or the
\* upstream's host refused what was sent to it.
AnswersEnd(i) ==
  /\ i > 0
  /\ pc[i] = "read"
  /\ socket[i] = "closed" \/ (MayRefuse /\ written[i])
  /\ Goto(i, "ended")
  /\ UNCHANGED <<settings, stop, read, from, current, tableVars, sessionVars,
                 evict>>

-----------------------------------------------------------------------------
(* What every carrier does with its datagram.                              *)

Hold(k) ==
  /\ pc[k] = "hold"
  /\ Goto(k, IF settings[Dir(k)] THEN "held" ELSE "write")
  /\ UNCHANGED <<settings, stop, read, from, current, tableVars, sessionVars,
                 evict>>

\* The user forwards it, edited or not, or drops it: then it is stored, but
\* not written.
Resolve(k) ==
  /\ pc[k] = "held"
  /\ Goto(k, "write") \/ Goto(k, "dropped")
  /\ UNCHANGED <<settings, stop, read, from, current, tableVars, sessionVars,
                 evict>>

\* Mutant: a hold ends with its session, not with the service.
AutoForwardEvicted(k) ==
  /\ pc[k] = "held"
  /\ TimeoutOn \/ Session(k) \in evict
  /\ Goto(k, "write")
  /\ UNCHANGED <<settings, stop, read, from, current, tableVars, sessionVars,
                 evict>>

\* The timeout, or the service's context.
AutoForward(k) ==
  /\ pc[k] = "held"
  /\ TimeoutOn \/ Stopping
  /\ Goto(k, "write")
  /\ UNCHANGED <<settings, stop, read, from, current, tableVars, sessionVars,
                 evict>>

\* Turning a direction off releases what is held there.
SetSettings ==
  /\ \E s \in [Dirs -> BOOLEAN] :
       /\ settings' = s
       /\ pc' = [k \in Carriers |->
                   IF pc[k] = "held" /\ settings[Dir(k)] /\ ~s[Dir(k)]
                   THEN "write" ELSE pc[k]]
  /\ UNCHANGED <<stop, read, from, current, tableVars, sessionVars, evict>>

\* Store it, write it, count it.  Writing to a socket that was closed in the
\* meantime is only logged.  An answer is activity, too; a client's datagram
\* was when it came.
Write(k) ==
  /\ pc[k] \in {"write", "dropped"}
  /\ written' = IF k = 0 /\ pc[k] = "write" /\ socket[current] = "open"
                THEN [written EXCEPT ![current] = TRUE] ELSE written
  /\ stale' = IF k = 0 THEN stale ELSE [stale EXCEPT ![k] = FALSE]
  /\ Goto(k, "read")
  /\ UNCHANGED <<settings, stop, read, from, current, tableVars, socket, row,
                 answers, evict>>

-----------------------------------------------------------------------------
(* The idle sweep.                                                         *)

\* The idle timeout of a session runs out.
Idle(i) ==
  /\ socket[i] = "open"
  /\ stale' = [stale EXCEPT ![i] = TRUE]
  /\ UNCHANGED <<settings, stop, read, pc, from, current, tableVars, socket, row,
                 answers, written, evict>>

\* Mutant: a session is left alone while one of its datagrams is held.
SweepUnheld ==
  /\ evict = {}
  /\ {i \in sessions : stale[i] /\ pc[i] # "held"} # {}
  /\ evict' = {i \in sessions : stale[i] /\ pc[i] # "held"}
  /\ sessions' = sessions \ evict'
  /\ UNCHANGED <<settings, stop, read, pc, from, current, opened, client,
                 sessionVars>>

\* The removal under the mutex.  A tick may still win the select against
\* ctx.Done().
Sweep ==
  /\ evict = {}
  /\ {i \in sessions : stale[i]} # {}
  /\ evict' = {i \in sessions : stale[i]}
  /\ sessions' = sessions \ evict'
  /\ UNCHANGED <<settings, stop, read, pc, from, current, opened, client,
                 sessionVars>>

EvictSocket(i) ==
  /\ i \in evict
  /\ socket[i] = "open"
  /\ socket' = [socket EXCEPT ![i] = "closed"]
  /\ UNCHANGED <<settings, stop, read, pc, from, current, tableVars, stale, row,
                 answers, written, evict>>

\* CloseSession.
EvictRow(i) ==
  /\ i \in evict
  /\ socket[i] = "closed"
  /\ row' = [row EXCEPT ![i] = IF @ = "open" THEN "closed" ELSE "closedAgain"]
  /\ evict' = evict \ {i}
  /\ UNCHANGED <<settings, stop, read, pc, from, current, tableVars, stale,
                 socket, answers, written>>

-----------------------------------------------------------------------------
(* Service.Shutdown.                                                       *)

Cancel ==
  /\ stop = "running"
  /\ stop' = "cancelled"
  /\ UNCHANGED <<settings, read, pc, from, current, tableVars, sessionVars, evict>>

CloseListener ==
  /\ stop = "cancelled"
  /\ stop' = "unbound"
  /\ UNCHANGED <<settings, read, pc, from, current, tableVars, sessionVars, evict>>

CloseSockets ==
  /\ stop = "unbound"
  /\ stop' = "waiting"
  /\ socket' = [i \in Sessions |-> IF i \in sessions THEN "closed" ELSE socket[i]]
  /\ UNCHANGED <<settings, read, pc, from, current, tableVars, stale, row,
                 answers, written, evict>>

-----------------------------------------------------------------------------

Reader ==
  \/ (\E c \in Clients : ReadDatagram(c))
  \/ ReaderEnds \/ Lookup \/ Dial \/ Insert \/ Touch

Carrier(k) ==
  \/ ReadAnswer(k) \/ AnswersEnd(k) \/ Hold(k) \/ AutoForward(k) \/ Write(k)

Evict == \E i \in Sessions : EvictSocket(i) \/ EvictRow(i)

Shutdown == Cancel \/ CloseListener \/ CloseSockets

Next ==
  \/ Reader
  \/ \E k \in Carriers : Carrier(k) \/ Resolve(k)
  \/ SetSettings
  \/ \E i \in Sessions : Idle(i)
  \/ Sweep \/ Evict \/ Shutdown

Spec == Init /\ [][Next]_vars

\* The goroutines run: a reader that has something, or an error, to read
\* reads it, the ticker ticks until the service stops, and Shutdown, once
\* called, goes on.  Clients, upstreams and users owe nothing.
Fairness ==
  /\ WF_vars((stop \in {"unbound", "waiting"} \/ pc[0] # "read") /\ Reader)
  /\ WF_vars(Carrier(0))
  /\ \A i \in Sessions :
       WF_vars((socket[i] = "closed" \/ pc[i] # "read") /\ Carrier(i))
  /\ WF_vars(~Stopping /\ Sweep)
  /\ WF_vars(Evict)
  /\ WF_vars(CloseListener \/ CloseSockets)

FairSpec == Spec /\ Fairness

-----------------------------------------------------------------------------
(* Properties.                                                             *)

\* No socket gets out of sight: an open one belongs to a session that the
\* reader is about to put into the table, that the table has, or that the
\* sweep has taken from it, and the table has one session per client.
NoSessionIsLost ==
  /\ \A i \in Sessions :
       socket[i] = "open" =>
         i \in sessions \cup evict \cup {k \in {current} : pc[0] = "insert"}
  /\ \A i, j \in sessions : client[i] = client[j] => i = j

\* The connections and the table, as far as a session is seen there; what is stored of
\* the datagrams is left out.
Tables ==
  INSTANCE Sessions WITH
    Conns <- Sessions,
    Source <- [i \in Sessions |-> "relay"],
    conn <- [i \in Sessions |-> [pc |-> row[i], id |-> IF row[i] = "none" THEN 0 ELSE i]],
    sessions <- [i \in 1..opened |->
                   [of |-> i, source |-> "relay",
                    closed |-> IF row[i] \in {"failed", "closed"} THEN {i} ELSE {}]],
    chunks <- {}

\* What the store sees of the sessions: a row each, also of those that could not be
\* dialled, which is closed once, with byte counts that nobody overwrites (udp.go:185).
ImplementsSessions == Tables!SessionsSpec

\* A session that stays idle is evicted (README.md:424), also while one of
\* its datagrams, or one of another client, is held.
IdleSessionIsEvicted ==
  \A i \in Sessions : []<>(row[i] = "open" => ~stale[i] \/ Stopping)

\* The downstream reader of a closed socket ends; without a timeout the
\* service's end is enough for one that holds an answer.
ReaderEndsWithSocket ==
  \A i \in Sessions :
    socket[i] = "closed" /\ (TimeoutOn \/ Stopping) ~> pc[i] = "ended"

\* The only way a session ends is going idle, or a shutdown (README.md:424):
\* until then its answers are read.
\* Not so: README, section 5.
LiveSessionIsRead ==
  \A i \in sessions : ~Stopping => pc[i] # "ended"

=============================================================================
