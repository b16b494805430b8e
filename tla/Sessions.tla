-------------------------------- MODULE Sessions --------------------------------
(***************************************************************************)
(* The two tables that the relay and the system capture share              *)
(* (internal/store/store.go): sessions of both under one sequence of ids,  *)
(* and the chunks of each; and what their two tabs of the web UI get to    *)
(* see of them (internal/ui/relay.go, internal/ui/syscapture.go).          *)
(*                                                                         *)
(* A connection is RelayTCP, RelayUDP or SysCapture seen from the store,   *)
(* and each of them implements this module: it opens its session once,     *)
(* closes it once, and stores chunks of it, also of what was under way     *)
(* when it was evicted.  Any of these writes may fail, which is logged and *)
(* changes nothing else.                                                   *)
(***************************************************************************)
EXTENDS Integers, FiniteSets

CONSTANTS Conns,      \* connections that are relayed or captured
          Source      \* [Conns -> {"relay", "syscapture"}]

ASSUME SessionsAssumption == Source \in [Conns -> {"relay", "syscapture"}]

Sources == {"relay", "syscapture"}

VARIABLES conn,      \* [Conns -> [pc, id]]: its session's id, 0 if it was not stored
          sessions,  \* relay_sessions: whose row, and who has closed it
          chunks     \* relay_chunks: the session id and the connection of each

sessionVars == <<conn, sessions, chunks>>

Ids == DOMAIN sessions

SessionsTypeOK ==
  /\ conn \in [Conns -> [pc : {"none", "failed", "open", "closed"}, id : 0..Cardinality(Conns)]]
  /\ Ids = 1..Cardinality(Ids)
  /\ \A i \in Ids : sessions[i] \in [of : Conns, source : Sources, closed : SUBSET Conns]
  /\ chunks \subseteq [session : 0..Cardinality(Conns), of : Conns]

SessionsInit ==
  /\ conn = [c \in Conns |-> [pc |-> "none", id |-> 0]]
  /\ sessions = <<>>
  /\ chunks = {}

\* Mutant: the id is the last one that any insert got.
FailedIdLast == Cardinality(Ids)

\* The id of a session whose insert fails.
FailedId == 0

\* A session that could not be dialled is stored closed.
NewRow(c, pc) ==
  [of |-> c, source |-> Source[c], closed |-> IF pc = "failed" THEN {c} ELSE {}]

\* saveSession, with OpenSession: a failure is logged, and the session goes on.
OpenSession(c) ==
  /\ conn[c].pc = "none"
  /\ \E pc \in {"open"} \cup {p \in {"failed"} : Source[c] = "relay"} :
       LET new == Cardinality(Ids) + 1 IN
       \/ /\ sessions' = [i \in Ids \cup {new} |->
                            IF i = new THEN NewRow(c, pc) ELSE sessions[i]]
          /\ conn' = [conn EXCEPT ![c] = [pc |-> pc, id |-> new]]
       \/ /\ UNCHANGED sessions
          /\ conn' = [conn EXCEPT ![c] = [pc |-> pc, id |-> FailedId]]
  /\ UNCHANGED chunks

\* storeChunk, with SaveChunk: under whatever id the session has.  What was held, or
\* on its way, when the session was evicted is stored afterwards.
SaveChunk(c) ==
  /\ conn[c].pc \in {"open", "closed"}
  /\ chunks' = chunks \cup {[session |-> conn[c].id, of |-> c]}
  /\ UNCHANGED <<conn, sessions>>

\* closeSession, with CloseSession: an UPDATE of the rows with that id, or a failure.
CloseSession(c) ==
  /\ conn[c].pc = "open"
  /\ conn' = [conn EXCEPT ![c].pc = "closed"]
  /\ \/ sessions' = [i \in Ids |->
                       IF i = conn[c].id THEN [sessions[i] EXCEPT !.closed = @ \cup {c}]
                       ELSE sessions[i]]
     \/ UNCHANGED sessions
  /\ UNCHANGED chunks

SessionsNext == \E c \in Conns : OpenSession(c) \/ SaveChunk(c) \/ CloseSession(c)

SessionsSpec == SessionsInit /\ [][SessionsNext]_sessionVars

-----------------------------------------------------------------------------
(* What the tab of a source gets.                                          *)

\* handleRelaySessions and its counterpart, with ListRelaySessions.
Listed(source) == {i \in Ids : sessions[i].source = source}

\* Mutant: any session's details, whichever tab asks.
FoundAnywhere(source, i) == i \in Ids

\* sessionDetail answers 404 for a session of the other tab.
Found(source, i) == i \in Ids /\ sessions[i].source = source

\* ListRelayChunks.
ChunksOf(i) == {k \in chunks : k.session = i}

-----------------------------------------------------------------------------

\* "Keeping the two tabs' data strictly separate even though session ids are one
\* shared sequence" (ui/relay.go:208): what a tab gets for an id, whichever it asks
\* for, is of one connection of its source - the row, the byte counts of each closing
\* and every chunk -, though chunks of sessions that were not stored are there too.
DetailsAreOfOneConnection ==
  \A source \in Sources :
    /\ \A i \in Listed(source) : Found(source, i)
    /\ \A i \in 0..Cardinality(Ids) : Found(source, i) =>
         LET c == sessions[i].of
         IN /\ Source[c] = source
            /\ sessions[i].closed \subseteq {c}
            /\ \A k \in ChunksOf(i) : k.of = c

=============================================================================
