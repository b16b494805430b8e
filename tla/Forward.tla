------------------------------- MODULE Forward -------------------------------
(***************************************************************************)
(* One exchange through the proxy: Proxy.forward (internal/proxy/proxy.go) *)
(* with what it calls in internal/outbound and the rule engine, while the  *)
(* user toggles intercept and reloads rules, the client may go away, and   *)
(* the transport sends the request body on a goroutine of its own.         *)
(*                                                                         *)
(* The two pause points run the same steps, so `at' says which one the     *)
(* exchange is at.  A message is a head (method, URL and headers, or       *)
(* status and other headers), the body its Content-Length is that of, and  *)
(* its body; a body that is not buffered is Streamed, in chunks.  Holding  *)
(* is taken at the level of HoldContract, which Intercept implements.      *)
(***************************************************************************)
EXTENDS Naturals, FiniteSets

CONSTANTS Heads,      \* what rules and users may make of a head
          Bodyless,   \* those of HEAD requests and of 204 and 304 responses
          Bodies,     \* whole bodies, the empty one included
          WireHead,   \* the head that arrives at each pause point
          WireBody,   \* the body that arrives at each, if there is one
          RuledHead,  \* what the head rule of each direction makes of a head
          RuledLength, \* ... what a rule on Content-Length makes of that one
          RuledBody,  \* what the body rule of each makes of a body
          RuleSets,   \* rule files: the kinds of enabled rules, per direction
          Chunks,     \* the reads it takes to stream a whole body
          Empty,      \* the empty body
          Streamed    \* a body that is relayed without being buffered

Points == {"request", "response"}
\* What rules work on: a rule on Content-Length, which is a header like any other to
\* them, is told apart from the rest of the head.
Parts == {"head", "length", "body"}

ASSUME ForwardAssumption ==
  /\ Bodyless \subseteq Heads
  /\ Empty \in Bodies
  /\ Streamed \notin Bodies
  /\ WireHead \in [Points -> Heads]
  /\ WireBody \in [Points -> Bodies \ {Empty}]
  /\ RuledHead \in [Points -> [Heads -> Heads]]
  /\ RuledLength \in [Points -> [Bodies -> Bodies]]
  /\ RuledBody \in [Points -> [Bodies -> Bodies]]
  /\ RuleSets \subseteq [Points -> SUBSET Parts]
  /\ Chunks \in Nat
  /\ {"0", "400", "403", "502", ""} \cap Heads = {}

\* A body is absent, within -max-body, over it, an event stream, or its
\* sender fails before the end.
Kinds == {"none", "whole", "large", "stream", "broken"}

Messages ==
  [head : Heads, length : Bodies, body : Bodies \cup {Streamed}]

Pages == {"400", "403", "502"}  \* plainError; "502" stands for 504 as well

Verdicts == {"forward", "edit", "drop"}

Statuses == Heads \cup Pages \cup {"0"}

VARIABLES settings,   \* intercept.Manager's toggles
          active,     \* rules.Engine.active
          gone,       \* the request's context is done
          pc, at,     \* where the handler is, and at which pause point
          kind,       \* the kind of body at each pause point
          needIntercept,  \* the toggle as read before buffering
          buffered,   \* buffered, bufferedResp
          msg,        \* req and deliver
          verdict,    \* the Outcome of the hold: forward, edit or drop
          decided,    \* what was decided of the message held at each point
          sent,       \* the request BuildRequest made, once it is sent
          up,         \* chunks of a streamed request body read so far
          reply,      \* what the handler wrote to the client
          aborted,    \* the handler ended in panic(http.ErrAbortHandler)
          ex,         \* the exchange record
          saved       \* the rows the sink stored

envVars == <<settings, active, gone>>
messageVars == <<kind, needIntercept, buffered, msg, verdict, decided>>
vars == <<envVars, pc, at, messageVars, sent, up, reply, aborted, ex, saved>>

Rows ==
  [reqHead : Heads, reqLength : Bodies, reqBody : Bodies \cup {Streamed},
   reqChunks : 0..Chunks, status : Statuses, respHead : Heads \cup {""},
   respLength : Bodies, respBody : Bodies \cup {Streamed},
   respChunks : 0..Chunks,
   edited : SUBSET Points, rules : SUBSET (Points \X Parts), error : BOOLEAN]

TypeOK ==
  /\ settings \in [Points -> BOOLEAN]
  /\ active \in RuleSets
  /\ gone \in BOOLEAN
  /\ pc \in {"buffer", "rules", "hold", "held", "resolved", "proceed",
             "upstream", "copy", "closing", "saving", "done"}
  /\ at \in Points
  /\ kind \in [Points -> Kinds]
  /\ needIntercept \in BOOLEAN
  /\ buffered \in [Points -> BOOLEAN]
  /\ msg \in [Points -> Messages]
  /\ \A p \in Points : buffered[p] => msg[p].body # Streamed
  /\ verdict \in Verdicts
  /\ decided \in [Points -> SUBSET (Verdicts \X Messages)]
  /\ sent \in SUBSET Messages
  /\ up \in 0..Chunks
  /\ reply \in [status : Statuses, length : Bodies,
                body : Bodies \cup {Streamed}, chunks : 0..Chunks]
  /\ aborted \in BOOLEAN
  /\ ex \in Rows
  /\ saved \in SUBSET Rows

-----------------------------------------------------------------------------

\* The message as it arrives, before anything is buffered.
OnWire(p, k) ==
  [head   |-> WireHead[p],
   length |-> IF k = "none" THEN Empty ELSE WireBody[p],
   body   |-> IF k = "none" THEN Empty ELSE Streamed]

Init ==
  /\ settings \in [Points -> BOOLEAN]
  /\ active \in RuleSets
  /\ gone = FALSE
  /\ pc = "buffer"
  /\ at = "request"
  /\ kind \in {k \in [Points -> Kinds] :
                 k["request"] # "stream" /\ k["response"] = "none"}
  /\ needIntercept = FALSE
  /\ buffered = [p \in Points |-> FALSE]
  /\ msg = [p \in Points |-> OnWire(p, kind[p])]
  /\ verdict = "forward"
  /\ decided = [p \in Points |-> {}]
  /\ sent = {}
  /\ up = 0
  /\ reply = [status |-> "0", length |-> Empty, body |-> Empty, chunks |-> 0]
  /\ aborted = FALSE
  /\ ex = [reqHead |-> msg["request"].head, reqLength |-> msg["request"].length,
           reqBody |-> Empty, reqChunks |-> 0, status |-> "0", respHead |-> "",
           respLength |-> Empty, respBody |-> Empty, respChunks |-> 0,
           edited |-> {}, rules |-> {}, error |-> FALSE]
  /\ saved = {}

-----------------------------------------------------------------------------
(* How an exchange ends early.                                             *)

\* The record says status s and an error, and has no response headers.
Failed(s) ==
  [ex EXCEPT !.status = s, !.respHead = "", !.respLength = Empty,
             !.error = TRUE]

\* plainError, and the record says the same.
AnswerPage(page) ==
  /\ ex' = Failed(page)
  /\ reply' = [reply EXCEPT !.status = page]

\* Nobody to answer.
AnswerNobody ==
  /\ ex' = Failed("0")
  /\ UNCHANGED reply

-----------------------------------------------------------------------------
(* The steps of a pause point.                                             *)

WantsBody == settings[at] \/ "body" \in active[at]

StreamThrough ==
  /\ pc = "buffer"
  /\ ~WantsBody
  /\ needIntercept' = FALSE
  /\ pc' = "rules"
  /\ UNCHANGED <<envVars, at, kind, buffered, msg, verdict, decided, sent,
                 up, reply, aborted, ex, saved>>

\* ReadUpTo gets the whole body.
BufferBody ==
  /\ pc = "buffer"
  /\ WantsBody
  /\ kind[at] \in {"none", "whole"}
  /\ needIntercept' = settings[at]
  /\ buffered' = [buffered EXCEPT ![at] = TRUE]
  /\ msg' = [msg EXCEPT ![at].body = IF kind[at] = "none" THEN Empty
                                     ELSE WireBody[at]]
  /\ pc' = "rules"
  /\ UNCHANGED <<envVars, at, kind, verdict, decided, sent, up, reply,
                 aborted, ex, saved>>

\* Too large (to break off beyond -max-body, perhaps), or an event stream:
\* it flows through.
SkipBuffer ==
  /\ pc = "buffer"
  /\ WantsBody
  /\ kind[at] \in {"large", "stream", "broken"}
  /\ needIntercept' = settings[at]
  /\ pc' = "rules"
  /\ UNCHANGED <<envVars, at, kind, buffered, msg, verdict, decided, sent, up,
                 reply, aborted, ex, saved>>

\* ReadUpTo fails: its sender did, or the client is gone.
BufferFails ==
  /\ pc = "buffer"
  /\ WantsBody
  /\ kind[at] = "broken" \/ (gone /\ kind[at] \in {"whole", "large"})
  /\ IF at = "request" THEN AnswerPage("400")
     ELSE IF gone THEN AnswerNobody ELSE AnswerPage("502")
  /\ pc' = "closing"
  /\ UNCHANGED <<envVars, at, messageVars, sent, up, aborted, saved>>

Ruled(p, m, parts) ==
  [m EXCEPT !.head = IF "head" \in parts THEN RuledHead[p][@] ELSE @,
            !.length = IF "length" \in parts THEN RuledLength[p][@] ELSE @,
            !.body = IF "body" \in parts THEN RuledBody[p][@] ELSE @]

\* A rule that touches the body never fires without the whole body.
Firing(p) == {x \in active[p] : x = "body" => buffered[p]}

\* Engine.ApplyRequest / ApplyResponse, with the set active now.
ApplyRules ==
  /\ pc = "rules"
  /\ msg' = [msg EXCEPT ![at] = Ruled(at, @, Firing(at))]
  /\ ex' = [ex EXCEPT !.rules = @ \cup ({at} \X Firing(at))]
  /\ pc' = "hold"
  /\ UNCHANGED <<envVars, at, kind, needIntercept, buffered, verdict, decided,
                 sent, up, reply, aborted, saved>>

\* HoldRequest / HoldResponse: held if the toggle is on now as well.
Hold ==
  /\ pc = "hold"
  /\ pc' = IF ~(buffered[at] /\ needIntercept) THEN "proceed"
           ELSE IF settings[at] THEN "held" ELSE "resolved"
  /\ verdict' = "forward"
  /\ UNCHANGED <<envVars, at, kind, needIntercept, buffered, msg, decided, sent,
                 up, reply, aborted, ex, saved>>

\* The queue decides: v becomes of the held message, which is now m.
Decided(v, m) ==
  /\ verdict' = v
  /\ msg' = [msg EXCEPT ![at] = m]
  /\ decided' = [decided EXCEPT ![at] = {<<v, m>>}]
  /\ pc' = "resolved"
  /\ UNCHANGED <<at, kind, needIntercept, buffered, sent, up, reply, aborted,
                 ex, saved>>

\* The user forwards, as is or edited, or drops.  (The Content-Length of an
\* edit is left out: the whole body is there, and goes under its own.)
Resolve ==
  /\ pc = "held"
  /\ \/ Decided("drop", msg[at])
     \/ \E h \in Heads, b \in Bodies :
          LET m == [msg[at] EXCEPT !.head = h, !.body = b]
          IN Decided(IF m = msg[at] THEN "forward" ELSE "edit", m)
  /\ UNCHANGED envVars

\* -intercept-timeout forwards; a cancelled context drops.
AutoResolve ==
  /\ pc = "held"
  /\ \/ Decided("forward", msg[at])
     \/ gone /\ Decided("drop", msg[at])
  /\ UNCHANGED envVars

\* Mutant: turning off is for the messages that come after.
SetSettingsLater ==
  /\ settings' \in [Points -> BOOLEAN]
  /\ UNCHANGED <<active, gone, pc, at, messageVars, sent, up, reply, aborted, ex, saved>>

\* PUT /api/intercept/settings: turning off releases what is held there.
SetSettings ==
  /\ \E s \in [Points -> BOOLEAN] :
       /\ settings' = s
       /\ IF pc = "held" /\ settings[at] /\ ~s[at]
          THEN Decided("forward", msg[at])
          ELSE UNCHANGED <<pc, at, messageVars, sent, up, reply, aborted, ex,
                           saved>>
  /\ UNCHANGED <<active, gone>>

\* ctx.Err() is looked at before the verdict.
ClientGone ==
  /\ pc = "resolved"
  /\ gone
  /\ AnswerNobody
  /\ pc' = "closing"
  /\ UNCHANGED <<envVars, at, messageVars, sent, up, aborted, saved>>

Dropped ==
  /\ pc = "resolved"
  /\ ~gone
  /\ verdict = "drop"
  /\ AnswerPage("403")
  /\ pc' = "closing"
  /\ UNCHANGED <<envVars, at, messageVars, sent, up, aborted, saved>>

Released ==
  /\ pc = "resolved"
  /\ ~gone
  /\ verdict # "drop"
  /\ ex' = [ex EXCEPT !.edited = IF verdict = "edit" THEN @ \cup {at} ELSE @]
  /\ pc' = "proceed"
  /\ UNCHANGED <<envVars, at, messageVars, sent, up, reply, aborted, saved>>
-----------------------------------------------------------------------------
(* The request goes upstream.                                              *)

Processed == buffered[at] \/ \E x \in Parts : <<at, x>> \in ex.rules

\* SyncContentLength, when the body is known.
Synced(m) == IF buffered[at] THEN [m EXCEPT !.length = m.body] ELSE m

\* The length that arrived with a body, whatever the headers say by now.
Arrived(p) == OnWire(p, kind[p]).length

\* What BuildRequest makes of a request and its body: net/http sends the length that
\* forward hands over, r.ContentLength for a body that streams, not the header's.
Built(m) ==
  [m EXCEPT !.length = IF buffered["request"] THEN m.body ELSE Arrived("request")]

\* Mutant: the rules run again on what the user released.
OutgoingRuled == Built(Ruled("request", msg["request"], Firing("request")))

Outgoing == Built(msg["request"])

\* Mutant: the row keeps the request as the client sent it.
RecordUnprocessed == ex

\* recordEditedRequest, and what reqCap captures of a buffered body.
RecordRequest ==
  LET m == Synced(msg["request"])
      row == IF Processed
             THEN [ex EXCEPT !.reqHead = m.head, !.reqLength = m.length]
             ELSE ex
  IN [row EXCEPT !.reqBody = m.body]

Send ==
  /\ pc = "proceed"
  /\ at = "request"
  /\ ex' = RecordRequest
  /\ sent' = {Outgoing}
  /\ pc' = "upstream"
  /\ UNCHANGED <<envVars, at, messageVars, up, reply, aborted, saved>>

\* The user's edit makes no request: BuildRequest fails.
InvalidRequest ==
  /\ pc = "proceed"
  /\ at = "request"
  /\ "request" \in ex.edited
  /\ ex' = [RecordRequest EXCEPT !.status = "400", !.error = TRUE]
  /\ reply' = [reply EXCEPT !.status = "400"]
  /\ pc' = "closing"
  /\ UNCHANGED <<envVars, at, messageVars, sent, up, aborted, saved>>

\* The transport's goroutine reads a streamed body through the TeeReader.
\* RoundTrip may have returned by then: the server may answer early.
Upload ==
  /\ sent # {}
  /\ pc # "done"
  /\ ~buffered["request"]
  /\ kind["request"] # "none"
  /\ up < Chunks
  /\ up' = up + 1
  /\ UNCHANGED <<envVars, pc, at, messageVars, sent, reply, aborted, ex, saved>>

\* Mutant: the upstream request has a context of its own.
RoundTripFailsByItself ==
  /\ pc = "upstream"
  /\ ~gone
  /\ AnswerPage("502")
  /\ pc' = "closing"
  /\ UNCHANGED <<envVars, at, messageVars, sent, up, aborted, saved>>

\* RoundTrip fails: the client is gone, or the upstream or the body failed.
RoundTripFails ==
  /\ pc = "upstream"
  /\ (gone /\ AnswerNobody) \/ AnswerPage("502")
  /\ pc' = "closing"
  /\ UNCHANGED <<envVars, at, messageVars, sent, up, aborted, saved>>

Respond ==
  /\ pc = "upstream"
  /\ \E k \in Kinds :
       /\ {msg["request"].head, WireHead["response"]} \cap Bodyless # {}
            => k = "none"
       /\ kind' = [kind EXCEPT !["response"] = k]
       /\ msg' = [msg EXCEPT !["response"] = OnWire("response", k)]
  /\ ex' = [ex EXCEPT !.status = msg'["response"].head,
                      !.respHead = msg'["response"].head,
                      !.respLength = msg'["response"].length]
  /\ at' = "response"
  /\ pc' = "buffer"
  /\ UNCHANGED <<envVars, needIntercept, buffered, verdict, decided, sent, up,
                 reply, aborted, saved>>

-----------------------------------------------------------------------------
(* The response goes to the client.                                        *)

BodyAllowed == {msg["request"].head, msg["response"].head} \cap Bodyless = {}

\* Mutant: the row keeps the response as the upstream sent it.
RecordResponseUnprocessed == ex

RecordResponse ==
  IF Processed
  THEN [ex EXCEPT !.status = msg["response"].head,
                  !.respHead = msg["response"].head,
                  !.respLength = msg["response"].length]
  ELSE ex

\* A whole body is written at once, under its own Content-Length.
Deliver ==
  /\ pc = "proceed"
  /\ at = "response"
  /\ buffered["response"]
  /\ LET m == msg["response"]
         body == IF BodyAllowed THEN m.body ELSE Empty
     IN /\ reply' = [status |-> m.head, body |-> body, chunks |-> 0,
                     length |-> IF BodyAllowed THEN m.body ELSE m.length]
        /\ \E err \in {FALSE, gone} :
             ex' = [RecordResponse EXCEPT !.respBody = body, !.error = err]
  /\ pc' = "closing"
  /\ UNCHANGED <<envVars, at, messageVars, sent, up, aborted, saved>>

WriteHeader ==
  /\ pc = "proceed"
  /\ at = "response"
  /\ ~buffered["response"]
  /\ LET m == msg["response"]
     IN /\ reply' = [status |-> m.head, length |-> m.length, body |-> m.body,
                     chunks |-> 0]
        /\ ex' = [RecordResponse EXCEPT !.respBody = m.body]
  /\ pc' = "copy"
  /\ UNCHANGED <<envVars, at, messageVars, sent, up, aborted, saved>>

\* A rule has declared another length for a body that streams.
Redeclared(p) == ~buffered[p] /\ msg[p].length # Arrived(p)

\* copyBody: a chunk is recorded, then written.  The write fails when the client
\* is gone, the status allows no body, or a rule has declared a shorter one.
CopyChunk ==
  /\ pc = "copy"
  /\ kind["response"] # "none"
  /\ ex.respChunks < Chunks
  /\ \E ok \in BOOLEAN :
       /\ IF ok THEN BodyAllowed ELSE gone \/ ~BodyAllowed \/ Redeclared("response")
       /\ ex' = [ex EXCEPT !.respChunks = @ + 1, !.error = ~ok]
       /\ reply' = [reply EXCEPT !.chunks = IF ok THEN @ + 1 ELSE @]
       /\ pc' = IF ok THEN "copy" ELSE "closing"
  /\ UNCHANGED <<envVars, at, messageVars, sent, up, aborted, saved>>

CopyEnds ==
  /\ pc = "copy"
  /\ \/ kind["response"] \in {"none", "stream"}
     \/ kind["response"] \in {"whole", "large"} /\ ex.respChunks = Chunks
  /\ pc' = "closing"
  /\ UNCHANGED <<envVars, at, messageVars, sent, up, reply, aborted, ex, saved>>

\* Mutant: an upstream failure ends the response as its end would.
CopyFailsQuietly ==
  /\ pc = "copy"
  /\ kind["response"] = "broken" \/ (gone /\ kind["response"] # "none")
  /\ ex' = [ex EXCEPT !.error = TRUE]
  /\ pc' = "closing"
  /\ UNCHANGED <<envVars, at, messageVars, sent, up, reply, aborted, saved>>

\* Reading from upstream fails: the client must not take it for the end.
CopyFails ==
  /\ pc = "copy"
  /\ kind["response"] = "broken" \/ (gone /\ kind["response"] # "none")
  /\ ex' = [ex EXCEPT !.error = TRUE]
  /\ aborted' = TRUE
  /\ pc' = "closing"
  /\ UNCHANGED <<envVars, at, messageVars, sent, up, reply, saved>>

-----------------------------------------------------------------------------
(* The deferred function, on every path.                                   *)

Close ==
  /\ pc = "closing"
  /\ ex' = [ex EXCEPT !.reqChunks = up]
  /\ pc' = "saving"
  /\ UNCHANGED <<envVars, at, messageVars, sent, up, reply, aborted, saved>>

\* save: a failure of the sink is only logged.
Save ==
  /\ pc = "saving"
  /\ saved' \in {{ex}, {}}
  /\ pc' = "done"
  /\ UNCHANGED <<envVars, at, messageVars, sent, up, reply, aborted, ex>>

-----------------------------------------------------------------------------
(* Around the handler.                                                     *)

\* SaveRules, SaveRaw or Load publish another set.  (One that comes after the rules
\* have been applied to the response is left out: nothing looks at it.)
Reload ==
  /\ at = "request" \/ pc \in {"buffer", "rules"}
  /\ active' \in RuleSets
  /\ UNCHANGED <<settings, gone, pc, at, messageVars, sent, up, reply, aborted,
                 ex, saved>>

Disconnect ==
  /\ pc # "done"
  /\ gone' = TRUE
  /\ UNCHANGED <<settings, active, pc, at, messageVars, sent, up, reply, aborted,
                 ex, saved>>

Handler ==
  \/ StreamThrough \/ BufferBody   \/ SkipBuffer \/ BufferFails \/ ApplyRules
  \/ Hold          \/ AutoResolve  \/ ClientGone \/ Dropped     \/ Released
  \/ Send          \/ InvalidRequest \/ Deliver  \/ WriteHeader
  \/ CopyChunk     \/ CopyEnds     \/ CopyFails  \/ Close       \/ Save

Next ==
  \/ Handler \/ Upload \/ RoundTripFails \/ Respond
  \/ Resolve \/ SetSettings \/ Reload \/ Disconnect

Spec == Init /\ [][Next]_vars

\* Once the context is done, whatever the handler waits for - the client's
\* body, the queue, the upstream, a write - returns, and the handler goes on.
\* Nobody owes a step before that.
Fairness == WF_vars(gone /\ (Handler \/ RoundTripFails))

FairSpec == Spec /\ Fairness

-----------------------------------------------------------------------------
(* Properties.                                                             *)

Relayed == reply.status \in Heads

\* The history stores what was actually sent (README.md:249): head and body of
\* the row are those of the request that went upstream, whatever rules, users, or
\* neither did to it; so is its Content-Length, unless a rule declared another
\* one for a body that was not buffered.
RecordedRequestIsSent ==
  pc = "done" =>
    \A m \in sent : /\ ex.reqHead = m.head
                    /\ ex.reqBody = m.body
                    /\ ~Redeclared("request") => ex.reqLength = m.length

\* ... and then too: "the stored copy must describe what was actually sent, whether a
\* rule, intercept, both, or [neither] changed it" (proxy.go:256).
\* Not so: README, section 5.
RecordedRequestLengthIsSent ==
  pc = "done" => \A m \in sent : ex.reqLength = m.length

\* ... and what was actually delivered: the status is the one the client got
\* ("0" if it got none), with the headers and body that went with it, or
\* none of the upstream's when the client got an error page.  A streamed row
\* has one read more than the client only if writing that one failed.
RecordedResponseIsDelivered ==
  pc = "done" =>
    /\ ex.status = reply.status
    /\ Relayed => /\ ex.respHead = reply.status
                  /\ ex.respBody = reply.body
                  /\ ex.respChunks = reply.chunks \/ ex.error
                  /\ ex.respChunks \in {reply.chunks, reply.chunks + 1}
    /\ ~Relayed => ex.respHead = "" /\ ex.respBody = Empty /\ ex.error

\* The row's Content-Length is that of the body the client got.
\* Not so: README, section 5.
RecordedLengthIsDelivered ==
  pc = "done" /\ Relayed => ex.respLength = reply.length

\* The row counts the whole of the request body that was read for upstream.
\* Not so: README, section 5.
RecordedUploadIsComplete == pc = "done" => ex.reqChunks = up

\* A client that is still there takes a response for complete only if it is:
\* no body read from an upstream that failed ends like a whole one, as long as the
\* client was told the length that the upstream declared.
NeverFalselyComplete ==
  /\ pc = "done" /\ Relayed /\ BodyAllowed /\ ~aborted /\ ~gone
  /\ ~Redeclared("response")
  =>
    /\ kind["response"] # "broken"
    /\ reply.body = Streamed /\ kind["response"] # "stream"
         => reply.chunks = Chunks

\* The user has the last word on what was held (README.md:378): what goes on
\* is what was decided, untouched by rules or by later steps, and nothing of
\* a dropped message goes on.
HeldGoesOnAsDecided ==
  /\ \A d \in decided["request"], m \in sent :
       d[1] # "drop" /\ m.head = d[2].head /\ m.body = d[2].body
  /\ \A d \in decided["response"] : Relayed =>
       /\ d[1] # "drop"
       /\ reply.status = d[2].head
       /\ reply.body = IF BodyAllowed THEN d[2].body ELSE Empty

\* The exchange as the end of the process sees it: one plain request, and a toggle
\* that is on as long as either is.
Seen == IF pc = "held" THEN "held" ELSE IF pc = "done" THEN "saved" ELSE "active"

Outside ==
  INSTANCE Lifecycle WITH
    Plain <- {1}, Tunnels <- {}, Spellings <- {}, IPs <- {}, Canonical <- <<>>,
    Invalid <- 0, NoName <- 0, MaxCache <- 1, tun <- <<>>, tracked <- {}, cache <- <<>>,
    main <- "serving", deadline <- FALSE, inTime <- FALSE, db <- "open", busy <- {},
    icptOn <- \E p \in Points : settings[p],
    ex <- [x \in {1} |-> Seen]

\* What the order of main's steps relies on (main.go:176): a message is only held
\* while a toggle is on, switching both off lets it go on in the same step, and the
\* row is handed to the store before the handler returns, and once.
ImplementsExchange == Seen = "active" /\ [][Outside!Next]_(Outside!vars)

\* A client that goes away frees its exchange, wherever it is: held, waiting
\* for the upstream, or in the middle of a stream.
GoneClientIsLetGo == gone ~> pc = "done"

=============================================================================
