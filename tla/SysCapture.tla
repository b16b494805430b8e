------------------------------ MODULE SysCapture ------------------------------
(***************************************************************************)
(* System-level capture (internal/sysCapture): one loop that receives a    *)
(* packet, finds or opens the session of its flow, holds it, stores it and *)
(* injects it again; a sweep that evicts idle sessions; the handlers of    *)
(* ui/syscapture.go; and a shutdown.  There is one handle and one loop, so *)
(* at most one packet is held, and whoever removes it from the queue's map *)
(* decides what becomes of it: that is one step here (HoldContract).       *)
(***************************************************************************)
EXTENDS Packet, FiniteSets, SequencesExt, Functions

CONSTANTS Arrivals,    \* what may be received: packets, and whether outbound
          MaxPackets,  \* how many packets are received (a bound)
          Edits,       \* the payloads a user may enter
          MaxCapture,  \* -syscapture-max-capture
          TimeoutOn    \* -intercept-timeout is greater than zero

ASSUME SysCaptureAssumption ==
  /\ Arrivals \subseteq [packet : Packet, outbound : BOOLEAN]
  /\ \A a \in Arrivals : Whole(a.packet)
  /\ Edits \subseteq Seq(Bytes)
  /\ MaxPackets \in Nat /\ MaxCapture \in Nat
  /\ TimeoutOn \in BOOLEAN

Dirs == {"up", "down"}
Sessions == 1..MaxPackets   \* in the order in which they were opened

\* What a user may ask for: a RelayResolution.
Resolutions == [kind : {"forward", "drop"}] \cup [kind : {"edit"}, data : Edits]
None == [kind |-> "none"]
Nothing == [n |-> 0]

VARIABLES handle,     \* WinDivert's: none, open, closed
          cancelled,  \* Service.ctx is done
          stop,       \* how far Shutdown is
          pc,         \* where the receive loop is
          received,   \* the number of packets received
          pkt,        \* the packet the loop works on
          current,    \* ... and its session
          chunk,      \* what Hold made of its payload
          settings,   \* the pause-point toggles
          told,       \* the resolution a user got a 204 for, for this packet
          how,        \* who ended the hold: none, user, timer, toggle, shutdown
          opened, session, sessions,  \* sessions opened, their data, the table
          stale,      \* lastActivity is longer ago than the idle timeout
          row,        \* the session's row: none, open, closed, closedAgain
          captured, capReached,  \* per session and direction
          rows,       \* the chunk rows of each session, in order
          evict,      \* sessions the sweep removed and has still to close
          closing,    \* sessions Shutdown removed and has still to close
          injected    \* the packet that was injected last

localVars == <<pkt, current, chunk, told, how>>
packetVars == <<received, localVars>>
tableVars == <<opened, session, sessions>>
rowVars == <<row, captured, capReached, rows>>
stopVars == <<handle, cancelled, stop>>
vars == <<stopVars, pc, packetVars, settings, tableVars, stale, rowVars, evict,
          closing, injected>>

\* The locals of the loop between two packets.
Forget == /\ pkt' = Nothing /\ current' = 0 /\ chunk' = Nothing
          /\ told' = None /\ how' = "none"

Dir == IF pkt.outbound THEN "up" ELSE "down"

Chunk == [data : Seq(Bytes), edited : BOOLEAN, drop : BOOLEAN]
ChunkRow == [n : 1..MaxPackets, dir : Dirs, data : Seq(Bytes), size : Nat,
             edited : BOOLEAN]

TypeOK ==
  /\ handle \in {"none", "open", "closed"}
  /\ cancelled \in BOOLEAN
  /\ stop \in {"running", "begun", "cancelled", "closing"}
  /\ pc \in {"none", "recv", "lookup", "open", "insert", "hold", "held", "store",
             "track", "send", "ended"}
  /\ received \in 0..MaxPackets
  /\ pkt \in Arrivals \cup {Nothing}
  /\ current \in 0..opened
  /\ chunk \in Chunk \cup {Nothing}
  /\ settings \in [Dirs -> BOOLEAN]
  /\ told \in Resolutions \cup {None}
  /\ how \in {"none", "user", "timer", "toggle", "shutdown"}
  /\ opened \in 0..MaxPackets
  /\ sessions \subseteq 1..opened
  /\ stale \in [Sessions -> BOOLEAN]
  /\ row \in [Sessions -> {"none", "open", "closed", "closedAgain"}]
  /\ captured \in [Sessions -> [Dirs -> 0..MaxCapture]]
  /\ capReached \in [Sessions -> [Dirs -> BOOLEAN]]
  /\ rows \in [Sessions -> Seq(ChunkRow)]
  /\ evict \subseteq 1..opened /\ closing \subseteq 1..opened

Init ==
  /\ handle = "none" /\ cancelled = FALSE
  /\ stop = "running"
  /\ pc = "none"
  /\ received = 0
  /\ pkt = Nothing /\ current = 0 /\ chunk = Nothing
  /\ told = None /\ how = "none"
  /\ settings = [d \in Dirs |-> FALSE]
  /\ opened = 0 /\ sessions = {}
  /\ session = [i \in Sessions |-> <<>>]
  /\ stale = [i \in Sessions |-> FALSE]
  /\ row = [i \in Sessions |-> "none"]
  /\ captured = [i \in Sessions |-> [d \in Dirs |-> 0]]
  /\ capReached = [i \in Sessions |-> [d \in Dirs |-> FALSE]]
  /\ rows = [i \in Sessions |-> <<>>]
  /\ evict = {} /\ closing = {}
  /\ injected = Nothing

-----------------------------------------------------------------------------
(* ListenAndServe: the handle, the sweep's goroutine and the loop.         *)

\* Opening the handle fails without the driver or the privileges.
Start ==
  /\ pc = "none"
  /\ \/ handle' = "open" /\ pc' = "recv"
     \/ pc' = "ended" /\ UNCHANGED handle
  /\ UNCHANGED <<cancelled, stop, packetVars, settings, tableVars, stale, rowVars,
                 evict, closing, injected>>

Recv ==
  /\ pc = "recv" /\ handle = "open" /\ received < MaxPackets
  /\ received' = received + 1
  /\ \E p \in Arrivals :
       /\ pkt' = p
       /\ \/ /\ parsePacket(p.packet)
             /\ chunk' = [data |-> payload(p.packet), edited |-> FALSE,
                          drop |-> FALSE]
             /\ pc' = "lookup"
          \/ ~parsePacket(p.packet) /\ pc' = "send" /\ UNCHANGED chunk
  /\ injected' = Nothing
  /\ UNCHANGED <<stopVars, current, told, how, settings, tableVars, stale, rowVars,
                 evict, closing>>

\* Receiving fails once the handle is closed; until the context is done the
\* loop only tries again.
RecvFails ==
  /\ pc = "recv" /\ handle = "closed" /\ cancelled
  /\ pc' = "ended"
  /\ UNCHANGED <<stopVars, packetVars, settings, tableVars, stale, rowVars, evict,
                 closing, injected>>

Out == IF chunk # Nothing /\ chunk.edited /\ Replaceable(pkt.packet, chunk.data)
       THEN replacePayload(pkt.packet, chunk.data)
       ELSE pkt.packet

\* winDivertSend: with a closed handle the packet is lost.
Send ==
  /\ pc = "send"
  /\ pc' = "recv"
  /\ IF handle = "open"
     THEN injected' = [n |-> received, was |-> pkt.packet, out |-> Out, told |-> told]
     ELSE UNCHANGED injected
  /\ Forget
  /\ UNCHANGED <<stopVars, received, settings, tableVars, stale, rowVars, evict,
                 closing>>

-----------------------------------------------------------------------------
(* sessionFor: the mutex is released between finding and inserting.        *)

Lookup ==
  /\ pc = "lookup"
  /\ LET found == {i \in sessions : session[i].key = flowKey(pkt.packet)}
     IN \/ found = {} /\ pc' = "open" /\ UNCHANGED current
        \/ \E i \in found : current' = i /\ pc' = "hold"
  /\ UNCHANGED <<stopVars, received, pkt, chunk, told, how, settings,
                 tableVars, stale, rowVars, evict, closing, injected>>

\* The row of the new session.  (Storing it may fail, which is only logged:
\* History has what becomes of a session without a row.)
saveSession ==
  /\ pc = "open"
  /\ opened' = opened + 1
  /\ current' = opened'
  /\ LET p == pkt.packet
     IN session' = [session EXCEPT ![opened'] =
          [key      |-> flowKey(p), protocol |-> p.protocol,
           client   |-> IF pkt.outbound THEN p.src ELSE p.dst,
           upstream |-> IF pkt.outbound THEN p.dst ELSE p.src]]
  /\ row' = [row EXCEPT ![opened'] = "open"]
  /\ pc' = "insert"
  /\ UNCHANGED <<stopVars, received, pkt, chunk, told, how, settings,
                 sessions, stale, captured, capReached, rows, evict, closing,
                 injected>>

Insert ==
  /\ pc = "insert"
  /\ sessions' = sessions \cup {current}
  /\ pc' = "hold"
  /\ UNCHANGED <<stopVars, packetVars, settings, opened, session, stale, rowVars,
                 evict, closing, injected>>

-----------------------------------------------------------------------------
(* The hold, and the user.                                                 *)

Hold ==
  /\ pc = "hold"
  /\ pc' = IF settings[Dir] THEN "held" ELSE "store"
  /\ UNCHANGED <<stopVars, packetVars, settings, tableVars, stale, rowVars, evict,
                 closing, injected>>

\* What the resolution makes of the payload; an edit that changes nothing is
\* none.
Outcome(res) ==
  [data   |-> IF res.kind = "edit" THEN res.data ELSE chunk.data,
   edited |-> res.kind = "edit" /\ res.data # chunk.data,
   drop   |-> res.kind = "drop"]

\* The status of the handlers' answer: a packet that is not held any more is a
\* conflict, an edit of a TCP payload to another length a bad request.
resolveSysCapture(res) ==
  IF pc # "held" THEN 409
  ELSE IF res.kind = "edit" /\ ~Replaceable(pkt.packet, res.data) THEN 400
  ELSE 204

\* Mutant: the length of an edit is not looked at.
ResolveUnchecked ==
  /\ pc = "held"
  /\ \E res \in Resolutions :
       /\ told' = res
       /\ chunk' = Outcome(res)
  /\ how' = "user"
  /\ pc' = "store"
  /\ UNCHANGED <<stopVars, received, pkt, current, settings, tableVars, stale,
                 rowVars, evict, closing, injected>>

\* Otherwise the packet stays as it is, held or not.
Resolve ==
  /\ \E res \in Resolutions :
       /\ resolveSysCapture(res) = 204
       /\ told' = res
       /\ chunk' = Outcome(res)
  /\ how' = "user"
  /\ pc' = "store"
  /\ UNCHANGED <<stopVars, received, pkt, current, settings, tableVars, stale,
                 rowVars, evict, closing, injected>>

\* Mutant: only the timeout ends a hold.
TimerReleases ==
  /\ pc = "held"
  /\ TimeoutOn /\ how' = "timer"
  /\ pc' = "store"
  /\ UNCHANGED <<stopVars, received, pkt, current, chunk, told, settings,
                 tableVars, stale, rowVars, evict, closing, injected>>

\* The timeout, or the service's context: forwarded unmodified.
Release ==
  /\ pc = "held"
  /\ \/ TimeoutOn /\ how' = "timer"
     \/ cancelled /\ how' = "shutdown"
  /\ pc' = "store"
  /\ UNCHANGED <<stopVars, received, pkt, current, chunk, told, settings,
                 tableVars, stale, rowVars, evict, closing, injected>>

\* Turning a direction off releases what is held there.
SetSettings ==
  /\ \E s \in [Dirs -> BOOLEAN] :
       /\ settings' = s
       /\ LET off == pc = "held" /\ settings[Dir] /\ ~s[Dir]
          IN /\ pc' = IF off THEN "store" ELSE pc
             /\ how' = IF off THEN "toggle" ELSE how
  /\ UNCHANGED <<stopVars, received, pkt, current, chunk, told, tableVars,
                 stale, rowVars, evict, closing, injected>>

-----------------------------------------------------------------------------
(* After the hold: the new packet, the chunk's row, the counters.          *)

Room == MaxCapture - captured[current][Dir]

\* The last row that is stored for a direction is cut to what fits.
storeChunk(data, edited) ==
  LET stored == SubSeq(data, 1, Smaller(Len(data), Room))
  IN IF capReached[current][Dir]
     THEN UNCHANGED <<captured, capReached, rows>>
     ELSE /\ captured' = [captured EXCEPT ![current][Dir] = @ + Len(stored)]
          /\ capReached' = [capReached EXCEPT ![current][Dir] = Len(data) > Room]
          /\ rows' = [rows EXCEPT ![current] = Append(@,
               [n |-> received, dir |-> Dir, data |-> stored, size |-> Len(data),
                edited |-> edited])]

\* An edit that cannot be applied is not, and the row says so.
Store ==
  /\ pc = "store"
  /\ IF chunk.edited /\ ~Replaceable(pkt.packet, chunk.data)
     THEN storeChunk(payload(pkt.packet), FALSE)
     ELSE storeChunk(chunk.data, chunk.edited)
  /\ pc' = "track"
  /\ UNCHANGED <<stopVars, received, pkt, current, chunk, told, how, settings,
                 tableVars, stale, row, evict, closing, injected>>

\* A dropped packet counts, and is not sent.
trackBytes ==
  /\ pc = "track"
  /\ stale' = [stale EXCEPT ![current] = FALSE]
  /\ \/ chunk.drop /\ pc' = "recv" /\ Forget
     \/ ~chunk.drop /\ pc' = "send" /\ UNCHANGED localVars
  /\ UNCHANGED <<stopVars, received, settings, tableVars, rowVars, evict, closing,
                 injected>>

-----------------------------------------------------------------------------
(* The idle sweep.                                                         *)

\* The idle timeout runs out, which it may do while a packet is held.
Idle(i) ==
  /\ i \in sessions
  /\ stale' = [stale EXCEPT ![i] = TRUE]
  /\ UNCHANGED <<stopVars, pc, packetVars, settings, tableVars, rowVars, evict,
                 closing, injected>>

\* Mutant: a session stays in the table until its row is closed.
sweepIdleKept ==
  /\ handle # "none" /\ evict = {}
  /\ LET idle == {i \in sessions : stale[i]}
     IN /\ idle # {}
        /\ evict' = idle
  /\ UNCHANGED <<stopVars, pc, packetVars, settings, tableVars, stale,
                 rowVars, closing, injected>>

\* The removal under the mutex, from when the loop began.  A tick may still win
\* the select against ctx.Done().
sweepIdle ==
  /\ handle # "none" /\ evict = {}
  /\ LET idle == {i \in sessions : stale[i]}
     IN /\ idle # {}
        /\ evict' = idle
        /\ sessions' = sessions \ idle
  /\ UNCHANGED <<stopVars, pc, packetVars, settings, opened, session, stale,
                 rowVars, closing, injected>>

\* closeSession, by the sweep and by Shutdown.  The UPDATE looks at nothing: of a row
\* that was closed it overwrites the time and the byte counts.
closeSession(i) == row' = [row EXCEPT ![i] = IF @ = "open" THEN "closed" ELSE "closedAgain"]

Evict(i) ==
  /\ i \in evict
  /\ closeSession(i)
  /\ evict' = evict \ {i}
  /\ UNCHANGED <<stopVars, pc, packetVars, settings, tableVars, stale, captured,
                 capReached, rows, closing, injected>>

-----------------------------------------------------------------------------
(* Shutdown, and shutdownCommon.                                           *)

\* A handle that is not open yet is not closed, now or later.
CloseHandle ==
  /\ stop = "running"
  /\ stop' = "begun"
  /\ handle' = IF handle = "open" THEN "closed" ELSE handle
  /\ UNCHANGED <<cancelled, pc, packetVars, settings, tableVars, stale,
                 rowVars, evict, closing, injected>>

Cancel ==
  /\ stop = "begun"
  /\ stop' = "cancelled" /\ cancelled' = TRUE
  /\ UNCHANGED <<handle, pc, packetVars, settings, tableVars, stale,
                 rowVars, evict, closing, injected>>

EmptyTable ==
  /\ stop = "cancelled"
  /\ stop' = "closing"
  /\ closing' = sessions /\ sessions' = {}
  /\ UNCHANGED <<handle, cancelled, pc, packetVars, settings, opened,
                 session, stale, rowVars, evict, injected>>

CloseOpen(i) ==
  /\ i \in closing
  /\ closeSession(i)
  /\ closing' = closing \ {i}
  /\ UNCHANGED <<stopVars, pc, packetVars, settings, tableVars, stale, captured,
                 capReached, rows, evict, injected>>

-----------------------------------------------------------------------------

LoopStep ==
  \/ RecvFails \/ Send \/ Lookup \/ saveSession \/ Insert \/ Hold
  \/ Release \/ Store \/ trackBytes

Sweep == sweepIdle \/ \E i \in Sessions : Evict(i)

Shutdown ==
  CloseHandle \/ Cancel \/ EmptyTable \/ \E i \in Sessions : CloseOpen(i)

Next ==
  \/ Start \/ Recv \/ LoopStep \/ Resolve \/ SetSettings
  \/ \E i \in Sessions : Idle(i)
  \/ Sweep \/ Shutdown

Spec == Init /\ [][Next]_vars

\* The goroutines run and the ticker ticks; nobody owes a packet, and a user
\* owes nothing.
Fairness ==
  /\ WF_vars(LoopStep)
  /\ WF_vars(~cancelled /\ sweepIdle)
  /\ WF_vars(\E i \in Sessions : Evict(i))
  /\ WF_vars(stop # "running" /\ Shutdown)

FairSpec == Spec /\ Fairness

-----------------------------------------------------------------------------
(* Properties.                                                             *)

\* The length fields that the code does not check: those that it patches, which an
\* edit may be too long for, and UDP's own length of a packet that came in.
Sized(j) ==
  /\ j.told.kind = "edit" => payloadOff(j.was) + Len(j.told.data) < LenMod
  /\ j.was.protocol = "udp" => j.was.udpLength = 8 + payloadLen(j.was)

\* What the other host's stack takes from an injected packet is what the user
\* was told: a 204 for an edit means these bytes, in this flow; nothing that
\* was dropped goes out; and without a user's edit, the packet goes out as it
\* came, header fields included (README.md:501).
AckedIsInjected ==
  injected # Nothing =>
    /\ injected.told.kind # "drop"
    /\ injected.told.kind # "edit" => injected.out = injected.was
    /\ injected.told.kind = "edit" /\ Sized(injected) =>
         /\ parsePacket(injected.out)
         /\ flowKey(injected.out) = flowKey(injected.was)
         /\ Delivered(injected.out) = injected.told.data

\* The history tells what was on the wire: the row of an injected packet has
\* its size, the bytes of it that fit, and whether they were edited
\* (sysCapture.go:144 stores before anything is sent).
HistoryTellsWire ==
  \A i \in Sessions : \A r \in Range(rows[i]) :
    r.n = injected.n /\ Sized(injected) =>
      /\ r.size = Len(Delivered(injected.out))
      /\ IsPrefix(r.data, Delivered(injected.out))
      /\ r.edited <=> injected.out # injected.was

\* No session gets out of sight while its row is open: the table has it, or
\* somebody who is about to close it, or to insert it; and packets of both
\* directions of a conversation find the same one (README.md:489).
NoSessionIsLost ==
  /\ \A i \in Sessions :
       row[i] = "open" =>
         i \in sessions \cup evict \cup closing \cup {k \in {current} : pc = "insert"}
  /\ \A i, j \in sessions :
       /\ session[i].protocol = session[j].protocol
       /\ session[i].client = session[j].client
       /\ session[i].upstream = session[j].upstream
       => i = j

\* The connections and the two tables, as far as a session is seen there.
Tables ==
  INSTANCE Sessions WITH
    Conns <- Sessions,
    Source <- [i \in Sessions |-> "syscapture"],
    conn <- [i \in Sessions |-> [pc |-> row[i], id |-> IF row[i] = "none" THEN 0 ELSE i]],
    sessions <- [i \in 1..opened |->
                   [of |-> i, source |-> "syscapture",
                    closed |-> IF row[i] = "closed" THEN {i} ELSE {}]],
    chunks <- {[session |-> i, of |-> i] : i \in {k \in Sessions : rows[k] # <<>>}}

\* What the store sees of the sessions: a chunk is under the id of a row that was
\* inserted before it, and a row is closed once, by the sweep or by Shutdown, with
\* byte counts that nobody overwrites (session.go:77, sysCapture.go:213).
ImplementsSessions == Tables!SessionsSpec

\* The loop ends with its handle, whatever it holds, and without a user.
LoopEndsWithHandle == handle = "closed" /\ cancelled ~> pc = "ended"

\* "ctx.Done(): Shutdown only: forward unmodified, not drop -- a captured
\* connection is still alive on the wire" (hold.go:145).
\* Not so: README, section 5.
ShutdownForwardsHeld == pc = "send" /\ how = "shutdown" => handle = "open"

=============================================================================
