------------------------------- MODULE RelayTCP -------------------------------
(***************************************************************************)
(* One TCP session of the relay (internal/relay/tcp.go, storeChunk and     *)
(* Shutdown of relay.go): two pumps that read, hold, capture and write     *)
(* chunks, one per direction, with a sequence counter between them; two    *)
(* peers that send, half-close and reset; the user's toggles; and a        *)
(* shutdown of the service.  A chunk is what one Read returned: a number   *)
(* of bytes, not its bytes.  Holding is taken at the level of HoldContract.*)
(***************************************************************************)
EXTENDS Integers, Sequences, FiniteSetsExt

CONSTANTS ChunksSent,  \* how many chunks the peers may send, per direction
          Sizes,       \* how much one Read may return
          Edits,       \* the sizes a user may edit a chunk to
          MaxCapture,  \* -relay-max-capture
          TimeoutOn,   \* -intercept-timeout is greater than zero
          MayReset     \* the connections whose peers may reset (a bound)

Dirs == {"up", "down"}

Other(d) == IF d = "up" THEN "down" ELSE "up"

\* The pump of direction d reads the connection Src(d), writes the other one.
Src(d) == IF d = "up" THEN "client" ELSE "upstream"
Dst(d) == Src(Other(d))

ASSUME RelayTCPAssumption ==
  /\ ChunksSent \in [Dirs -> Nat]
  /\ Sizes \subseteq Nat \ {0}
  /\ Edits \subseteq Nat
  /\ MaxCapture \in Nat
  /\ TimeoutOn \in BOOLEAN
  /\ MayReset \subseteq {"client", "upstream"}

VARIABLES settings,   \* the target's toggles
          stopping,   \* Service.ctx is done
          session,    \* the session's row: none, failed, open or closed
          bytes,      \* ... and its byte counts, once closed
          pc,         \* where each pump is
          chunk,      \* what each pump is carrying
          total, captured, capReached, failed,  \* the pumps' locals
          seq,        \* the session's sequence counter
          rows,       \* the chunk rows that were stored
          closed,     \* the connections the relay closed
          reset,      \* the connections their peers reset
          sent,       \* the number of chunks each peer has sent
          wire,       \* the chunks sent in each direction and not yet read
          fin,        \* the peers that closed their sending side
          received,   \* the chunks that reached the other peer, in order
          dropped     \* the chunks a user dropped

peerVars == <<reset, sent, wire, fin, received>>
localVars == <<total, captured, capReached, failed>>
vars == <<settings, stopping, session, bytes, pc, chunk, localVars, seq, rows,
          closed, peerVars, dropped>>

\* A chunk on the wire: its number, and how many of the other direction its
\* sender had received.
Sent(d) == [n : 1..ChunksSent[d], after : 0..ChunksSent[Other(d)]]

Carried(d) == [n : 1..ChunksSent[d], after : 0..ChunksSent[Other(d)],
               size : Nat, edited : BOOLEAN, drop : BOOLEAN, seq : Nat]

TypeOK ==
  /\ settings \in [Dirs -> BOOLEAN]
  /\ stopping \in BOOLEAN
  /\ session \in {"none", "failed", "open", "closed"}
  /\ bytes \in [Dirs -> Nat]
  /\ pc \in [Dirs -> {"dial", "read", "hold", "held", "capture", "save",
                      "write", "closing", "ended"}]
  /\ \A d \in Dirs : chunk[d] \in SUBSET Carried(d)
  /\ total \in [Dirs -> Nat]
  /\ captured \in [Dirs -> 0..MaxCapture]
  /\ capReached \in [Dirs -> BOOLEAN]
  /\ failed \in [Dirs -> BOOLEAN]
  /\ seq \in Nat
  /\ \A r \in rows : r.seq \in 1..seq /\ r.stored \in 0..MaxCapture
  /\ closed \in SUBSET {"client", "upstream"}
  /\ reset \in SUBSET {"client", "upstream"}
  /\ \A d \in Dirs : /\ sent[d] \in 0..ChunksSent[d]
                     /\ wire[d] \in Seq(Sent(d))
                     /\ fin[d] \in BOOLEAN
                     /\ received[d] \in Seq([n : 1..ChunksSent[d], size : Nat])
                     /\ dropped[d] \in SUBSET (1..ChunksSent[d])

Init ==
  /\ settings = [d \in Dirs |-> FALSE]
  /\ stopping = FALSE
  /\ session = "none"
  /\ bytes = [d \in Dirs |-> 0]
  /\ pc = [d \in Dirs |-> "dial"]
  /\ chunk = [d \in Dirs |-> {}]
  /\ total = [d \in Dirs |-> 0]
  /\ captured = [d \in Dirs |-> 0]
  /\ capReached = [d \in Dirs |-> FALSE]
  /\ failed = [d \in Dirs |-> FALSE]
  /\ seq = 0
  /\ rows = {}
  /\ closed = {}
  /\ reset = {}
  /\ sent = [d \in Dirs |-> 0]
  /\ wire = [d \in Dirs |-> <<>>]
  /\ fin = [d \in Dirs |-> FALSE]
  /\ received = [d \in Dirs |-> <<>>]
  /\ dropped = [d \in Dirs |-> {}]

Goto(d, l) == pc' = [pc EXCEPT ![d] = l]

-----------------------------------------------------------------------------
(* The peers.  None of them owes anything.                                 *)

Connected(c) == c \notin closed \cup reset

\* How many chunks of direction d the peer at its end knows of.
Seen(d) == IF received[d] = <<>> THEN 0 ELSE received[d][Len(received[d])].n

PeerSends(d) ==
  /\ pc[d] # "dial"
  /\ Connected(Src(d))
  /\ ~fin[d]
  /\ sent[d] < ChunksSent[d]
  /\ sent' = [sent EXCEPT ![d] = @ + 1]
  /\ wire' = [wire EXCEPT ![d] =
                Append(@, [n |-> sent'[d], after |-> Seen(Other(d))])]
  /\ UNCHANGED <<settings, stopping, session, bytes, pc, chunk, localVars, seq,
                 rows, closed, reset, fin, received, dropped>>

PeerCloses(d) ==
  /\ Connected(Src(d))
  /\ fin' = [fin EXCEPT ![d] = TRUE]
  /\ UNCHANGED <<settings, stopping, session, bytes, pc, chunk, localVars, seq,
                 rows, closed, reset, sent, wire, received, dropped>>

PeerResets(d) ==
  /\ Connected(Src(d))
  /\ Src(d) \in MayReset
  /\ reset' = reset \cup {Src(d)}
  /\ UNCHANGED <<settings, stopping, session, bytes, pc, chunk, localVars, seq,
                 rows, closed, sent, wire, fin, received, dropped>>

-----------------------------------------------------------------------------
(* handleTCPConn.                                                          *)

\* The row of a session that could not be dialled is stored closed.
DialFails ==
  /\ pc = [d \in Dirs |-> "dial"]
  /\ session' = "failed"
  /\ closed' = closed \cup {"client"}
  /\ pc' = [d \in Dirs |-> "ended"]
  /\ UNCHANGED <<settings, stopping, bytes, chunk, localVars, seq, rows,
                 peerVars, dropped>>

Dialled ==
  /\ pc = [d \in Dirs |-> "dial"]
  /\ session' = "open"
  /\ pc' = [d \in Dirs |-> "read"]
  /\ UNCHANGED <<settings, stopping, bytes, chunk, localVars, seq, rows, closed,
                 peerVars, dropped>>

\* Mutant: the row is closed as soon as one direction ends.
CloseSessionEarly ==
  /\ session = "open"
  /\ \E d \in Dirs : pc[d] = "ended"
  /\ session' = "closed"
  /\ bytes' = total
  /\ UNCHANGED <<settings, stopping, pc, chunk, localVars, seq, rows, closed,
                 peerVars, dropped>>

\* Both pumps are done: the row gets its totals.
CloseSession ==
  /\ session = "open"
  /\ \A d \in Dirs : pc[d] = "ended"
  /\ session' = "closed"
  /\ bytes' = total
  /\ UNCHANGED <<settings, stopping, pc, chunk, localVars, seq, rows, closed,
                 peerVars, dropped>>

-----------------------------------------------------------------------------
(* pump.                                                                   *)

\* Read returns bytes: what a peer sent before it reset may still be there.
ReadChunk(d) ==
  /\ pc[d] = "read"
  /\ Src(d) \notin closed
  /\ wire[d] # <<>>
  /\ \E size \in Sizes :
       /\ chunk' = [chunk EXCEPT ![d] =
                      {[n |-> Head(wire[d]).n, after |-> Head(wire[d]).after,
                        size |-> size, edited |-> FALSE, drop |-> FALSE,
                        seq |-> 0]}]
       /\ total' = [total EXCEPT ![d] = @ + size]
  /\ wire' = [wire EXCEPT ![d] = Tail(@)]
  /\ Goto(d, "hold")
  /\ UNCHANGED <<settings, stopping, session, bytes, captured, capReached,
                 failed, seq, rows, closed, reset, sent, fin, received, dropped>>

\* Read fails: the end of the stream and a connection this process closed
\* are clean, a reset is an error.
ReadEnds(d) ==
  /\ pc[d] = "read"
  /\ \/ wire[d] = <<>> /\ fin[d]
     \/ ~Connected(Src(d))
  /\ failed' = [failed EXCEPT ![d] = Src(d) \in reset \ closed]
  /\ Goto(d, "closing")
  /\ UNCHANGED <<settings, stopping, session, bytes, chunk, total, captured,
                 capReached, seq, rows, closed, peerVars, dropped>>

\* holdQueue.Hold.
Hold(d) ==
  /\ pc[d] = "hold"
  /\ Goto(d, IF settings[d] THEN "held" ELSE "capture")
  /\ UNCHANGED <<settings, stopping, session, bytes, chunk, localVars, seq, rows,
                 closed, peerVars, dropped>>

\* The user forwards as is, edits, or drops.
Resolve(d) ==
  /\ pc[d] = "held"
  /\ \/ UNCHANGED <<chunk, dropped>>
     \/ /\ chunk' = [chunk EXCEPT ![d] = {[c EXCEPT !.drop = TRUE] : c \in @}]
        /\ dropped' = [dropped EXCEPT ![d] = @ \cup {c.n : c \in chunk[d]}]
     \/ /\ \E size \in Edits :
             chunk' = [chunk EXCEPT ![d] =
                         {[c EXCEPT !.size = size, !.edited = TRUE] : c \in @}]
        /\ UNCHANGED dropped
  /\ Goto(d, "capture")
  /\ UNCHANGED <<settings, stopping, session, bytes, localVars, seq, rows,
                 closed, peerVars>>

\* The timeout, or ctx.Done(): forwarded unmodified.
AutoForward(d) ==
  /\ pc[d] = "held"
  /\ TimeoutOn \/ stopping
  /\ Goto(d, "capture")
  /\ UNCHANGED <<settings, stopping, session, bytes, chunk, localVars, seq, rows,
                 closed, peerVars, dropped>>

\* PUT /api/relay/targets/{name}/settings: turning off releases.
SetSettings ==
  /\ \E s \in [Dirs -> BOOLEAN] :
       /\ settings' = s
       /\ pc' = [d \in Dirs |-> IF pc[d] = "held" /\ settings[d] /\ ~s[d]
                               THEN "capture" ELSE pc[d]]
  /\ UNCHANGED <<stopping, session, bytes, chunk, localVars, seq, rows, closed,
                 peerVars, dropped>>

\* Mutant: each direction counts its own chunks.
NextSeqPerDir(d) == Cardinality({r \in rows : r.dir = d}) + 1

NextSeq(d) == seq + 1

\* Mutant: the chunk that reaches the cap is stored whole.
RoomUncut(d, size) == IF captured[d] < MaxCapture THEN size ELSE 0

\* How much of a chunk still fits.
Room(d, size) ==
  IF captured[d] + size > MaxCapture THEN MaxCapture - captured[d] ELSE size

\* storeChunk up to seq.Add; not called any more once the cap was reached.
Capture(d) ==
  /\ pc[d] = "capture"
  /\ ~capReached[d]
  /\ seq' = NextSeq(d)
  /\ chunk' = [chunk EXCEPT ![d] = {[c EXCEPT !.seq = NextSeq(d)] : c \in @}]
  /\ Goto(d, "save")
  /\ UNCHANGED <<settings, stopping, session, bytes, localVars, rows, closed,
                 peerVars, dropped>>

\* Mutant: what is not captured is not relayed.
SkipCaptureAndWrite(d) ==
  /\ pc[d] = "capture"
  /\ capReached[d]
  /\ chunk' = [chunk EXCEPT ![d] = {}]
  /\ Goto(d, "read")
  /\ UNCHANGED <<settings, stopping, session, bytes, localVars, seq, rows,
                 closed, peerVars, dropped>>

SkipCapture(d) ==
  /\ pc[d] = "capture"
  /\ capReached[d]
  /\ Goto(d, "write")
  /\ UNCHANGED <<settings, stopping, session, bytes, chunk, localVars, seq, rows,
                 closed, peerVars, dropped>>

Row(d, c) ==
  [dir |-> d, n |-> c.n, after |-> c.after, seq |-> c.seq, size |-> c.size,
   stored |-> Room(d, c.size), edited |-> c.edited,
   noted |-> captured[d] + c.size > MaxCapture]

\* SaveChunk: a failure is only logged.
SaveChunk(d) ==
  /\ pc[d] = "save"
  /\ \E c \in chunk[d] :
       /\ rows' \in {rows \cup {Row(d, c)}, rows}
       /\ captured' = [captured EXCEPT ![d] = @ + Room(d, c.size)]
       /\ capReached' = [capReached EXCEPT ![d] = Row(d, c).noted]
  /\ Goto(d, "write")
  /\ UNCHANGED <<settings, stopping, session, bytes, chunk, total, failed, seq,
                 closed, peerVars, dropped>>

Write(d) ==
  /\ pc[d] = "write"
  /\ chunk' = [chunk EXCEPT ![d] = {}]
  /\ \E c \in chunk[d] :
       IF c.drop
       THEN Goto(d, "read") /\ UNCHANGED <<failed, received>>
       ELSE \/ /\ Connected(Dst(d))
               /\ received' = [received EXCEPT ![d] =
                                 Append(@, [n |-> c.n, size |-> c.size])]
               /\ Goto(d, "read")
               /\ UNCHANGED failed
            \* Written to a peer that is gone: an error, or lost.
            \/ /\ Dst(d) \in reset
               /\ failed' \in {failed, [failed EXCEPT ![d] = TRUE]}
               /\ Goto(d, IF failed'[d] THEN "closing" ELSE "read")
               /\ UNCHANGED received
  /\ UNCHANGED <<settings, stopping, session, bytes, total, captured,
                 capReached, seq, rows, closed, reset, sent, wire, fin, dropped>>

\* Mutant: the pump does not unblock the other one.
ClosesNothing(d) ==
  /\ pc[d] = "closing"
  /\ Goto(d, "ended")
  /\ UNCHANGED <<settings, stopping, session, bytes, chunk, localVars, seq, rows,
                 closed, peerVars, dropped>>

\* The pump's goroutine closes the connection it was writing to.
PumpEnds(d) ==
  /\ pc[d] = "closing"
  /\ closed' = closed \cup {Dst(d)}
  /\ Goto(d, "ended")
  /\ UNCHANGED <<settings, stopping, session, bytes, chunk, localVars, seq, rows,
                 peerVars, dropped>>

\* Service.Shutdown: cancels ctx and closes the listeners.
Shutdown ==
  /\ ~stopping
  /\ stopping' = TRUE
  /\ UNCHANGED <<settings, session, bytes, pc, chunk, localVars, seq, rows,
                 closed, peerVars, dropped>>

Pump(d) ==
  \/ ReadChunk(d) \/ ReadEnds(d)    \/ Hold(d)      \/ AutoForward(d)
  \/ Capture(d)   \/ SkipCapture(d) \/ SaveChunk(d) \/ Write(d)
  \/ PumpEnds(d)

Next ==
  \/ DialFails \/ Dialled \/ CloseSession \/ SetSettings \/ Shutdown
  \/ \E d \in Dirs : \/ Pump(d) \/ Resolve(d)
                     \/ PeerSends(d) \/ PeerCloses(d) \/ PeerResets(d)

Spec == Init /\ [][Next]_vars

\* The goroutines of a session run; in particular a write returns, because
\* the peer reads or is gone.  Peers and users owe nothing else.
Fairness ==
  /\ WF_vars(DialFails \/ Dialled)
  /\ \A d \in Dirs : WF_vars(Pump(d))
  /\ WF_vars(CloseSession)

FairSpec == Spec /\ Fairness

-----------------------------------------------------------------------------
(* Properties.                                                             *)

RowsOf(d) == {r \in rows : r.dir = d}

Stored(d) == MapThenSumSet(LAMBDA r : r.stored, RowsOf(d))

\* The stored history of a session is a true chronological interleaving
\* (README.md:426): in each direction rows follow the stream, and what a peer
\* sent after it had received a chunk comes after that chunk.
RowsAreChronological ==
  \A r, t \in rows :
    \/ r.dir = t.dir /\ r.n < t.n
    \/ r.dir # t.dir /\ r.n <= t.after
    => r.seq < t.seq

\* The cap bounds what is stored of a direction, and the history does not
\* hide it: a row cut short says so, and is the last of its direction.
CaptureIsCapped ==
  \A d \in Dirs :
    /\ Stored(d) <= MaxCapture
    /\ \A r \in RowsOf(d) :
         r.noted <=> r.stored < r.size
    /\ \A r, t \in RowsOf(d) : r.noted => t.seq <= r.seq

\* The cap never keeps anything from being relayed: back at its Read, a pump
\* has forwarded every chunk it read, in order, but for what a user dropped.
ReadIsRelayed ==
  \A d \in Dirs : pc[d] = "read" /\ Dst(d) \notin reset =>
    LET ns == {received[d][i].n : i \in DOMAIN received[d]}
    IN /\ ns \cup dropped[d] = 1..(sent[d] - Len(wire[d]))
       /\ \A i, j \in DOMAIN received[d] :
            i < j => received[d][i].n < received[d][j].n

\* Once the row of a session is closed nothing of it changes any more: no
\* chunk is stored or relayed after, and its byte counts are the totals.
ClosedSessionIsFinal ==
  [][session = "closed" => UNCHANGED <<rows, total, received, bytes>>]_vars

\* The connection and the two tables, as far as the session is seen there.
Tables ==
  INSTANCE Sessions WITH
    Conns <- {1},
    Source <- [c \in {1} |-> "relay"],
    conn <- [c \in {1} |-> [pc |-> session, id |-> IF session = "none" THEN 0 ELSE 1]],
    sessions <- [i \in {k \in {1} : session # "none"} |->
                   [of |-> 1, source |-> "relay",
                    closed |-> IF session \in {"failed", "closed"} THEN {1} ELSE {}]],
    chunks <- {[session |-> 1, of |-> 1] : r \in rows}

\* What the store sees of the session: one row, inserted before any chunk and under
\* whose id all chunks are, and closed once: by its insertion when nothing could be
\* dialled, and otherwise when both pumps have ended (tcp.go:37, :80).
ImplementsSessions == Tables!SessionsSpec

\* Whatever ends one direction ends the session: the other pump does not stay
\* blocked in its read (the Close after each pump in handleTCPConn).  Only a
\* chunk that is held without a timeout keeps it.
OnePumpEndsBoth ==
  (\E d \in Dirs : pc[d] = "ended") ~>
    \/ session \in {"failed", "closed"}
    \/ ~TimeoutOn /\ \E d \in Dirs : pc[d] = "held"

\* Shutdown stops every live session (relay.go:163).
\* Not so: README, section 5.
ShutdownEndsSession == stopping ~> session \in {"failed", "closed"}

\* The full stream is always forwarded (README.md:430): a session that ends
\* without an error, with peers that were there, forwarded all they sent.
FullStreamForwarded ==
  session = "closed" /\ reset = {} /\ (\A d \in Dirs : ~failed[d]) =>
    \A d \in Dirs :
      Len(received[d]) + Cardinality(dropped[d]) = sent[d]

=============================================================================
