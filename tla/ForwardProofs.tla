----------------------------- MODULE ForwardProofs -----------------------------
(***************************************************************************)
(* Rows, replies and what users decided, for any heads, bodies and rules.  *)
(***************************************************************************)
EXTENDS Forward, TLAPS

\* The places at a pause point, and those after the last thing the client got.
Early == {"buffer", "rules", "hold", "held", "resolved", "proceed"}
Late == {"closing", "saving", "done"}

NoReply == [status |-> "0", length |-> Empty, body |-> Empty, chunks |-> 0]

\* No rule fired at a pause point.
Unruled(p) == \A x \in Parts : <<p, x>> \notin ex.rules

PlaceAt ==
  /\ pc = "upstream" => at = "request"
  /\ pc = "copy" => at = "response" /\ ~buffered["response"]
  /\ pc = "buffer" => ~buffered[at]
  /\ pc = "held" => buffered[at]
  /\ pc \in Early /\ at = "request" => sent = {}
  /\ at = "request" => ~buffered["response"]

\* Only bodies that came whole are buffered, and the others are as they came.
BodyAt ==
  \A p \in Points :
    IF buffered[p] THEN kind[p] \in {"none", "whole"}
    ELSE msg[p].body = IF kind[p] = "none" THEN Empty ELSE Streamed

\* A row keeps the request as it came until it is recorded, and that is enough if
\* nothing was done to it; after that it is the one that was sent.
RequestAt ==
  /\ ~buffered["request"] /\ Unruled("request") =>
       /\ ex.reqHead = msg["request"].head
       /\ ex.reqLength = msg["request"].length
  /\ \A m \in sent :
       /\ m.head = msg["request"].head /\ m.body = msg["request"].body
       /\ ex.reqHead = m.head /\ ex.reqBody = m.body
       /\ ~Redeclared("request") => ex.reqLength = m.length

\* A decision is about the message as it is from then on, and a message that was
\* dropped goes no further.
DecidedAt ==
  /\ pc \in {"buffer", "rules", "hold", "held"} => decided[at] = {}
  /\ at = "request" => decided["response"] = {}
  /\ \A p \in Points : \A d \in decided[p] :
       /\ d[2] = msg[p] /\ buffered[p]
       /\ at = p /\ pc = "resolved" => d[1] = verdict
       /\ at = p /\ pc = "proceed" => d[1] # "drop"
  /\ \A d \in decided["request"] : sent # {} => d[1] # "drop"
  /\ \A d \in decided["response"] : Relayed => d[1] # "drop"

\* What NeverFalselyComplete says of the end, from the last write on.
Honest ==
  Relayed /\ BodyAllowed /\ ~aborted /\ ~gone /\ ~Redeclared("response") =>
    /\ kind["response"] # "broken"
    /\ reply.body = Streamed /\ kind["response"] # "stream" => reply.chunks = Chunks

\* ... and RecordedResponseIsDelivered.
Matching ==
  /\ ex.status = reply.status
  /\ Relayed => /\ ex.respHead = reply.status
                /\ ex.respBody = reply.body
                /\ ex.respChunks = reply.chunks \/ ex.error
                /\ ex.respChunks \in {reply.chunks, reply.chunks + 1}
  /\ ~Relayed => ex.respHead = "" /\ ex.respBody = Empty /\ ex.error

\* A buffered response that was relayed is the message.
Whole ==
  Relayed /\ buffered["response"] =>
    /\ reply.status = msg["response"].head
    /\ reply.body = IF BodyAllowed THEN msg["response"].body ELSE Empty

ReplyAt ==
  /\ pc \in Early \cup {"upstream"} =>
       /\ reply = NoReply /\ ~aborted
       /\ ex.respBody = Empty /\ ex.respChunks = 0
       /\ at = "request" => ex.respHead = ""
       /\ at = "response" /\ ~buffered["response"] /\ Unruled("response") =>
            /\ ex.status = msg["response"].head
            /\ ex.respHead = msg["response"].head
  /\ pc = "copy" =>
       /\ ~aborted
       /\ reply.status = msg["response"].head /\ reply.body = msg["response"].body
       /\ ex.status = reply.status /\ ex.respHead = reply.status
       /\ ex.respBody = reply.body /\ ex.respChunks = reply.chunks
  /\ pc \in Late => Honest /\ Matching /\ Whole

Inv == TypeOK /\ PlaceAt /\ BodyAt /\ RequestAt /\ DecidedAt /\ ReplyAt

LEMMA ChunksAreCounted == Chunks \in Nat /\ 0 \in 0..Chunks
  <1>1. Chunks \in Nat
    BY ForwardAssumption, Zenon
  <1>. QED
    BY <1>1

LEMMA BodiesAndHeads ==
  /\ Empty \in Bodies /\ Streamed \notin Bodies
  /\ \A p \in Points : /\ WireHead[p] \in Heads /\ WireBody[p] \in Bodies
                       /\ \A h \in Heads : RuledHead[p][h] \in Heads
                       /\ \A b \in Bodies : RuledLength[p][b] \in Bodies
                       /\ \A b \in Bodies : RuledBody[p][b] \in Bodies
  /\ RuleSets \subseteq [Points -> SUBSET Parts]
  <1>1. /\ Empty \in Bodies /\ Streamed \notin Bodies
        /\ WireHead \in [Points -> Heads] /\ WireBody \in [Points -> Bodies \ {Empty}]
        /\ RuledHead \in [Points -> [Heads -> Heads]]
        /\ RuledLength \in [Points -> [Bodies -> Bodies]]
        /\ RuledBody \in [Points -> [Bodies -> Bodies]]
        /\ RuleSets \subseteq [Points -> SUBSET Parts]
    BY ForwardAssumption, Zenon
  <1>. QED
    BY <1>1

LEMMA InitInv == Init => Inv
  <1>. SUFFICES ASSUME Init PROVE Inv
    OBVIOUS
  <1>1. \A p \in Points : msg[p] = OnWire(p, kind[p])
    BY DEF Init
  <1>2. \A p \in Points, k \in Kinds : OnWire(p, k) \in Messages
    BY ForwardAssumption DEF OnWire, Messages
  <1>3. kind \in [Points -> Kinds] /\ kind["response"] = "none"
    BY DEF Init
  <1>4. msg \in [Points -> Messages]
    BY <1>1, <1>2, <1>3 DEF Init
  <1>5. msg["request"] \in Messages /\ "request" \in Points /\ "response" \in Points
    BY <1>4 DEF Points
  <1>a. "0" \in Statuses /\ 0 \in 0..Chunks /\ Empty \in Bodies
    <2>1. "0" \in Statuses
      BY DEF Statuses
    <2>. QED
      BY <2>1, ChunksAreCounted, ForwardAssumption
  <1>6. ex \in Rows
    <2>1. msg["request"].head \in Heads /\ msg["request"].length \in Bodies
      BY <1>5 DEF Messages
    <2>. QED
      BY <2>1, <1>a DEF Init, Rows
  <1>7. reply \in [status : Statuses, length : Bodies, body : Bodies \cup {Streamed}, chunks : 0..Chunks]
    BY <1>a DEF Init
  <1>8. TypeOK
    BY <1>3, <1>4, <1>6, <1>7, ForwardAssumption
    DEF Init, TypeOK, Points, Verdicts
  <1>9. PlaceAt /\ BodyAt /\ RequestAt /\ DecidedAt
    BY <1>1, <1>3, <1>5 DEF Init, PlaceAt, BodyAt, RequestAt, DecidedAt, OnWire
  <1>10. ReplyAt
    BY DEF Init, ReplyAt, NoReply, Early, Late
  <1>. QED
    BY <1>8, <1>9, <1>10 DEF Inv

\* The user, the UI and the client: only the environment changes.
LEMMA EnvironmentInv ==
  ASSUME Inv,
         settings' \in [Points -> BOOLEAN], active' \in RuleSets,
         gone' \in BOOLEAN, gone => gone',
         UNCHANGED <<pc, at, messageVars, sent, up, reply, aborted, ex, saved>>
  PROVE  Inv'
  <1>1. TypeOK'
    BY DEF Inv, TypeOK, messageVars
  <1>2. PlaceAt' /\ BodyAt' /\ RequestAt' /\ DecidedAt'
    BY DEF Inv, PlaceAt, BodyAt, RequestAt, DecidedAt, Unruled, Relayed, Redeclared, Arrived,
           messageVars
  <1>3. ReplyAt'
    BY DEF Inv, ReplyAt, Honest, Matching, Whole, Unruled, Relayed, BodyAllowed, Redeclared,
           Arrived, messageVars
  <1>. QED
    BY <1>1, <1>2, <1>3 DEF Inv

-----------------------------------------------------------------------------
(* Steps by what they change.                                              *)

LEMMA NotRelayed ==
  /\ \A s \in Pages \cup {"0"} : s \notin Heads /\ s \in Statuses
  /\ "" \notin Heads
  BY ForwardAssumption, Zenon DEF Pages, Statuses

\* An exchange that ends before anything of the response was written.
LEMMA EarlyEndInv ==
  ASSUME Inv, pc \in {"buffer", "resolved", "upstream"},
         AnswerNobody \/ (\E page \in Pages : AnswerPage(page)),
         pc' = "closing",
         UNCHANGED <<envVars, at, messageVars, sent, up, aborted, saved>>
  PROVE  Inv'
  <1>1. PICK s \in Pages \cup {"0"} : ex' = Failed(s) /\ reply' = [reply EXCEPT !.status = s]
    <2>1. CASE AnswerNobody
      <3>1. reply = [reply EXCEPT !.status = "0"]
        <4>1. reply = NoReply
          BY DEF Inv, ReplyAt, Early
        <4>. QED
          BY <4>1 DEF NoReply
      <3>. QED
        BY <2>1, <3>1 DEF AnswerNobody
    <2>2. CASE \E page \in Pages : AnswerPage(page)
      BY <2>2 DEF AnswerPage
    <2>. QED
      BY <2>1, <2>2
  <1>2. /\ ex \in Rows /\ ex.respBody = Empty
        /\ reply = NoReply
        /\ reply \in [status : Statuses, length : Bodies, body : Bodies \cup {Streamed}, chunks : 0..Chunks]
    BY DEF Inv, TypeOK, ReplyAt, Early
  <1>3. s \notin Heads /\ s \in Statuses /\ Empty \in Bodies
    BY NotRelayed, ForwardAssumption
  <1>4. /\ ex' \in Rows
        /\ ex'.status = s /\ ex'.respHead = "" /\ ex'.error /\ ex'.respBody = Empty
        /\ ex'.reqHead = ex.reqHead /\ ex'.reqLength = ex.reqLength /\ ex'.reqBody = ex.reqBody
        /\ ex'.rules = ex.rules
    BY <1>1, <1>2, <1>3 DEF Failed, Rows
  <1>5. /\ reply' \in [status : Statuses, length : Bodies, body : Bodies \cup {Streamed}, chunks : 0..Chunks]
        /\ reply'.status = s
    BY <1>1, <1>2, <1>3
  <1>6. TypeOK'
    BY <1>4, <1>5 DEF Inv, TypeOK, messageVars, envVars
  <1>7. PlaceAt' /\ BodyAt' /\ DecidedAt'
    BY <1>3, <1>5 DEF Inv, PlaceAt, BodyAt, DecidedAt, Relayed, Early, messageVars
  <1>8. RequestAt'
    BY <1>4 DEF Inv, RequestAt, Unruled, Redeclared, Arrived, messageVars
  <1>9. ReplyAt'
    BY <1>3, <1>4, <1>5 DEF ReplyAt, Honest, Matching, Whole, Relayed, Early
  <1>. QED
    BY <1>6, <1>7, <1>8, <1>9 DEF Inv

\* Steps within a pause point that change no message.
LEMMA PlaceInv ==
  ASSUME Inv, pc \in {"buffer", "hold"},
         pc' \in {"rules", "held", "resolved", "proceed"},
         pc' = "held" => buffered[at],
         needIntercept' \in BOOLEAN, verdict' \in Verdicts,
         UNCHANGED <<envVars, at, kind, buffered, msg, decided, sent, up, reply, aborted, ex, saved>>
  PROVE  Inv'
  <1>1. TypeOK'
    BY DEF Inv, TypeOK, envVars
  <1>2. PlaceAt' /\ BodyAt' /\ RequestAt'
    BY DEF Inv, PlaceAt, BodyAt, RequestAt, Unruled, Redeclared, Arrived, Early
  <1>3. DecidedAt'
    BY DEF Inv, DecidedAt, Relayed, Early
  <1>4. ReplyAt'
    BY DEF Inv, ReplyAt, Unruled, Early, Late
  <1>. QED
    BY <1>1, <1>2, <1>3, <1>4 DEF Inv

\* Steps of a pause point that change the message at it, as far as the other
\* conjuncts depend on that.
LEMMA MessageInv ==
  ASSUME Inv, TypeOK', NEW m \in Messages,
         pc \in {"buffer", "rules", "held"}, pc' \in {"rules", "hold", "resolved"},
         buffered' \in [Points -> BOOLEAN],
         \A p \in Points : p # at => buffered'[p] = buffered[p],
         msg' = [msg EXCEPT ![at] = m],
         buffered[at] => buffered'[at],
         IF buffered'[at] THEN kind[at] \in {"none", "whole"}
                          ELSE m.body = IF kind[at] = "none" THEN Empty ELSE Streamed,
         pc' # "resolved" => decided' = decided /\ pc # "held",
         pc' = "resolved" => /\ buffered[at]
                             /\ decided' = [decided EXCEPT ![at] = {<<verdict', m>>}],
         \A p \in Points : Unruled(p)' => Unruled(p),
         Unruled(at)' /\ ~buffered'[at] => m = msg[at],
         ex'.reqHead = ex.reqHead, ex'.reqLength = ex.reqLength, ex'.reqBody = ex.reqBody,
         ex'.status = ex.status, ex'.respHead = ex.respHead, ex'.respBody = ex.respBody,
         ex'.respChunks = ex.respChunks,
         UNCHANGED <<gone, at, kind, sent, reply, aborted>>
  PROVE  Inv'
  <1>1. /\ at \in Points /\ msg \in [Points -> Messages] /\ decided \in [Points -> SUBSET (Verdicts \X Messages)]
        /\ buffered \in [Points -> BOOLEAN]
    BY DEF Inv, TypeOK
  <1>2. /\ \A p \in Points : msg'[p] = IF p = at THEN m ELSE msg[p]
        /\ \A p \in Points : p # at => decided'[p] = decided[p]
        /\ pc' = "resolved" => decided'[at] = {<<verdict', m>>}
        /\ pc' # "resolved" => decided'[at] = {}
    BY <1>1 DEF Inv, DecidedAt
  <1>3. at = "request" => sent = {} /\ buffered'["response"] = FALSE
    BY <1>1 DEF Inv, PlaceAt, Early, Points
  <1>4. PlaceAt'
    BY <1>1, <1>3 DEF Inv, PlaceAt, Early, Points
  <1>5. BodyAt'
    BY <1>1, <1>2 DEF Inv, BodyAt
  <1>6. RequestAt'
    BY <1>1, <1>2, <1>3 DEF Inv, RequestAt, Redeclared, Arrived, Points
  <1>7. reply = NoReply /\ ~Relayed
    <2>1. reply = NoReply
      BY DEF Inv, ReplyAt, Early
    <2>. QED
      BY <2>1, NotRelayed DEF NoReply, Relayed
  <1>8. DecidedAt'
    <2>1. ASSUME NEW p \in Points, NEW d \in decided'[p]
          PROVE  /\ d[2] = msg'[p] /\ buffered'[p]
                 /\ at' = p /\ pc' = "resolved" => d[1] = verdict'
                 /\ at' = p /\ pc' = "proceed" => d[1] # "drop"
      BY <1>1, <1>2, <2>1 DEF Inv, DecidedAt
    <2>2. /\ pc' \in {"buffer", "rules", "hold", "held"} => decided'[at'] = {}
          /\ at' = "request" => decided'["response"] = {}
      BY <1>1, <1>2 DEF Inv, DecidedAt, Points
    <2>3. \A d \in decided'["request"] : sent' # {} => d[1] # "drop"
      BY <1>1, <1>2, <1>3 DEF Inv, DecidedAt, Points
    <2>4. ~Relayed'
      BY <1>7 DEF Relayed
    <2>. QED
      BY <2>1, <2>2, <2>3, <2>4 DEF DecidedAt
  <1>9. ReplyAt'
    BY <1>1, <1>2, <1>7 DEF Inv, ReplyAt, Early, Late, Points
  <1>. QED
    BY <1>4, <1>5, <1>6, <1>8, <1>9 DEF Inv

-----------------------------------------------------------------------------
(* The steps of a pause point.                                             *)

LEMMA BufferBodyInv == ASSUME Inv, BufferBody PROVE Inv'
  <1>. DEFINE b == IF kind[at] = "none" THEN Empty ELSE WireBody[at]
              m == [msg[at] EXCEPT !.body = b]
  <1>1. /\ at \in Points /\ msg \in [Points -> Messages] /\ buffered \in [Points -> BOOLEAN]
        /\ settings \in [Points -> BOOLEAN]
    BY DEF Inv, TypeOK
  <1>2. b \in Bodies
    BY <1>1, BodiesAndHeads
  <1>3. m \in Messages /\ m.body = b /\ b # Streamed
    <2>1. msg[at] \in Messages
      BY <1>1
    <2>. QED
      BY <1>2, <2>1, BodiesAndHeads DEF Messages
  <1>. HIDE DEF m, b
  <1>4. /\ pc = "buffer" /\ pc' = "rules" /\ kind[at] \in {"none", "whole"}
        /\ needIntercept' \in BOOLEAN
        /\ buffered' = [buffered EXCEPT ![at] = TRUE]
        /\ msg' = [msg EXCEPT ![at] = m]
        /\ UNCHANGED <<envVars, at, kind, verdict, decided, sent, up, reply, aborted, ex, saved>>
    BY <1>1 DEF BufferBody, m, b
  <1>5. TypeOK'
    BY <1>1, <1>3, <1>4 DEF Inv, TypeOK, envVars
  <1>. QED
    BY <1>1, <1>3, <1>4, <1>5, MessageInv DEF Unruled, envVars

LEMMA ApplyRulesInv == ASSUME Inv, ApplyRules PROVE Inv'
  <1>. DEFINE f == Firing(at)
              h == IF "head" \in f THEN RuledHead[at][msg[at].head] ELSE msg[at].head
              l == IF "length" \in f THEN RuledLength[at][msg[at].length] ELSE msg[at].length
              b == IF "body" \in f THEN RuledBody[at][msg[at].body] ELSE msg[at].body
              m == Ruled(at, msg[at], f)
  <1>1. /\ at \in Points /\ msg \in [Points -> Messages] /\ buffered \in [Points -> BOOLEAN]
        /\ msg[at] \in Messages /\ active \in [Points -> SUBSET Parts]
        /\ ex \in Rows
        /\ buffered[at] => msg[at].body # Streamed
    BY BodiesAndHeads DEF Inv, TypeOK
  <1>2. /\ f \subseteq Parts
        /\ "body" \in f => buffered[at]
    BY <1>1 DEF Firing
  <1>3. h \in Heads /\ l \in Bodies
    BY <1>1, BodiesAndHeads DEF Messages
  <1>4. /\ b \in Bodies \cup {Streamed}
        /\ buffered[at] => b \in Bodies
        /\ ~buffered[at] => b = msg[at].body
    BY <1>1, <1>2, BodiesAndHeads DEF Messages
  <1>5. m \in Messages /\ m.head = h /\ m.body = b /\ m.length = l
    BY <1>1, <1>3, <1>4 DEF Ruled, Messages
  <1>6. f = {} => m = msg[at]
    BY <1>1, <1>5 DEF Messages
  <1>. HIDE DEF m, h, l, b, f
  <1>7. /\ pc = "rules" /\ pc' = "hold" /\ msg' = [msg EXCEPT ![at] = m]
        /\ ex' = [ex EXCEPT !.rules = @ \cup ({at} \X f)]
        /\ UNCHANGED <<envVars, at, kind, needIntercept, buffered, verdict, decided, sent, up,
                       reply, aborted, saved>>
    BY <1>1 DEF ApplyRules, m, f
  <1>8. {at} \X f \subseteq Points \X Parts
    BY <1>1, <1>2
  <1>9. /\ ex' \in Rows /\ ex'.rules = ex.rules \cup ({at} \X f)
        /\ ex'.reqHead = ex.reqHead /\ ex'.reqLength = ex.reqLength /\ ex'.reqBody = ex.reqBody
        /\ ex'.status = ex.status /\ ex'.respHead = ex.respHead /\ ex'.respBody = ex.respBody
        /\ ex'.respChunks = ex.respChunks
    BY <1>1, <1>7, <1>8 DEF Rows
  <1>10. /\ \A p \in Points : Unruled(p)' => Unruled(p)
         /\ Unruled(at)' => f = {}
    BY <1>2, <1>7, <1>9 DEF Unruled
  <1>11. TypeOK'
    BY <1>1, <1>4, <1>5, <1>7, <1>9, BodiesAndHeads DEF Inv, TypeOK, envVars
  <1>12. IF buffered'[at] THEN kind[at] \in {"none", "whole"}
                          ELSE m.body = IF kind[at] = "none" THEN Empty ELSE Streamed
    BY <1>1, <1>4, <1>5, <1>7 DEF Inv, BodyAt
  <1>. QED
    BY <1>1, <1>5, <1>6, <1>7, <1>9, <1>10, <1>11, <1>12, MessageInv DEF envVars

LEMMA DecidedInv ==
  ASSUME Inv, pc = "held", NEW v \in Verdicts, NEW m \in Messages, m.body \in Bodies,
         Decided(v, m), settings' \in [Points -> BOOLEAN], UNCHANGED <<active, gone>>
  PROVE  Inv'
  <1>1. /\ at \in Points /\ msg \in [Points -> Messages] /\ buffered \in [Points -> BOOLEAN]
        /\ decided \in [Points -> SUBSET (Verdicts \X Messages)]
        /\ buffered[at] /\ m.body # Streamed
    BY BodiesAndHeads DEF Inv, TypeOK, PlaceAt
  <1>2. TypeOK'
    BY <1>1 DEF Inv, TypeOK, Decided
  <1>3. IF buffered[at] THEN kind[at] \in {"none", "whole"}
                          ELSE m.body = IF kind[at] = "none" THEN Empty ELSE Streamed
    BY <1>1 DEF Inv, BodyAt
  <1>. QED
    BY <1>1, <1>2, <1>3, MessageInv DEF Decided, Unruled

LEMMA HeldInv == ASSUME Inv, Resolve \/ AutoResolve \/ SetSettings PROVE Inv'
  <1>1. /\ at \in Points /\ msg[at] \in Messages /\ settings \in [Points -> BOOLEAN]
        /\ pc = "held" => msg[at].body \in Bodies
    BY DEF Inv, TypeOK, PlaceAt, Messages
  <1>2. CASE Resolve
    <2>1. ASSUME NEW h \in Heads, NEW b \in Bodies
          PROVE  /\ [msg[at] EXCEPT !.head = h, !.body = b] \in Messages
                 /\ [msg[at] EXCEPT !.head = h, !.body = b].body \in Bodies
      BY <1>1, <2>1 DEF Messages
    <2>2. CASE Decided("drop", msg[at])
      BY <1>1, <1>2, <2>2, DecidedInv DEF Resolve, envVars, Verdicts, Inv, TypeOK
    <2>3. ASSUME NEW h \in Heads, NEW b \in Bodies, NEW v \in {"forward", "edit"},
                 Decided(v, [msg[at] EXCEPT !.head = h, !.body = b])
          PROVE  Inv'
      BY <1>1, <1>2, <2>1, <2>3, DecidedInv DEF Resolve, envVars, Verdicts, Inv, TypeOK
    <2>. QED
      BY <1>2, <2>2, <2>3 DEF Resolve
  <1>3. CASE AutoResolve
    BY <1>1, <1>3, DecidedInv DEF AutoResolve, envVars, Verdicts, Inv, TypeOK
  <1>4. CASE SetSettings
    <2>1. CASE pc = "held" /\ Decided("forward", msg[at])
      BY <1>1, <1>4, <2>1, DecidedInv DEF SetSettings, Verdicts
    <2>2. CASE UNCHANGED <<pc, at, messageVars, sent, up, reply, aborted, ex, saved>>
      BY <1>4, <2>2, EnvironmentInv DEF SetSettings, Inv, TypeOK
    <2>. QED
      BY <1>4, <2>1, <2>2 DEF SetSettings
  <1>. QED
    BY <1>2, <1>3, <1>4

LEMMA ReleasedInv == ASSUME Inv, Released PROVE Inv'
  <1>1. /\ at \in Points /\ ex \in Rows
        /\ pc = "resolved" /\ pc' = "proceed" /\ verdict # "drop"
        /\ UNCHANGED <<envVars, at, messageVars, sent, up, reply, aborted, saved>>
    BY DEF Released, Inv, TypeOK
  <1>2. PICK e \in SUBSET Points : ex' = [ex EXCEPT !.edited = e]
    <2>1. (IF verdict = "edit" THEN ex.edited \cup {at} ELSE ex.edited) \in SUBSET Points
      BY <1>1 DEF Rows
    <2>. QED
      BY <2>1 DEF Released
  <1>3. /\ ex' \in Rows /\ ex'.rules = ex.rules
        /\ ex'.reqHead = ex.reqHead /\ ex'.reqLength = ex.reqLength /\ ex'.reqBody = ex.reqBody
        /\ ex'.status = ex.status /\ ex'.respHead = ex.respHead /\ ex'.respBody = ex.respBody
        /\ ex'.respChunks = ex.respChunks
    BY <1>1, <1>2 DEF Rows
  <1>4. TypeOK'
    BY <1>1, <1>3 DEF Inv, TypeOK, envVars, messageVars
  <1>5. PlaceAt' /\ BodyAt' /\ RequestAt'
    BY <1>1, <1>3
    DEF Inv, PlaceAt, BodyAt, RequestAt, Unruled, Redeclared, Arrived, Early, messageVars
  <1>6. DecidedAt'
    BY <1>1 DEF Inv, DecidedAt, Relayed, messageVars
  <1>7. ReplyAt'
    BY <1>1, <1>3 DEF Inv, ReplyAt, Unruled, Early, Late, messageVars
  <1>. QED
    BY <1>4, <1>5, <1>6, <1>7 DEF Inv

-----------------------------------------------------------------------------
(* The request goes upstream.                                              *)

\* What recording the request does to a row.
LEMMA RecordedRequest ==
  ASSUME Inv, at = "request"
  PROVE  /\ Outgoing \in Messages
         /\ Outgoing.head = msg["request"].head /\ Outgoing.body = msg["request"].body
         /\ RecordRequest \in Rows
         /\ RecordRequest.reqHead = Outgoing.head
         /\ ~Redeclared("request") => RecordRequest.reqLength = Outgoing.length
         /\ RecordRequest.reqBody = Outgoing.body
         /\ ~Processed => RecordRequest.reqLength = ex.reqLength
         /\ RecordRequest.rules = ex.rules
         /\ RecordRequest.respHead = ex.respHead /\ RecordRequest.respBody = ex.respBody
         /\ RecordRequest.respChunks = ex.respChunks
  <1>. DEFINE m == Outgoing
  <1>1. /\ msg["request"] \in Messages /\ ex \in Rows
        /\ buffered["request"] => msg["request"].body \in Bodies
        /\ Arrived("request") \in Bodies
    <2>1. msg \in [Points -> Messages] /\ "request" \in Points /\ ex \in Rows
      BY DEF Inv, TypeOK, Points
    <2>2. buffered["request"] => msg["request"].body # Streamed
      BY <2>1 DEF Inv, TypeOK
    <2>3. Arrived("request") \in Bodies
      BY <2>1, BodiesAndHeads DEF Arrived, OnWire
    <2>. QED
      BY <2>1, <2>2, <2>3 DEF Messages
  <1>2. /\ m \in Messages /\ m.head = msg["request"].head /\ m.body = msg["request"].body
        /\ m.length = IF buffered["request"] THEN m.body ELSE Arrived("request")
    BY <1>1 DEF Outgoing, Built, Messages
  <1>. DEFINE l == Synced(msg["request"]).length
  <1>3. /\ Synced(msg["request"]).head = m.head /\ Synced(msg["request"]).body = m.body
        /\ l \in Bodies
        /\ l = IF buffered["request"] THEN m.body ELSE msg["request"].length
    BY <1>1, <1>2 DEF Synced, Messages
  <1>4. ~Redeclared("request") => l = m.length
    BY <1>2, <1>3 DEF Redeclared
  <1>5. ~Processed => ex.reqHead = m.head /\ ex.reqLength = l
    BY <1>2, <1>3 DEF Inv, RequestAt, Unruled, Processed
  <1>6. RecordRequest = [(IF Processed THEN [ex EXCEPT !.reqHead = m.head, !.reqLength = l]
                                       ELSE ex) EXCEPT !.reqBody = m.body]
    BY <1>3 DEF RecordRequest
  <1>7. m.head \in Heads /\ m.body \in Bodies \cup {Streamed}
    BY <1>2 DEF Messages
  <1>. HIDE DEF m, l
  <1>8. RecordRequest.reqLength = l
    BY <1>1, <1>5, <1>6 DEF Rows
  <1>9. CASE Processed
    BY <1>1, <1>2, <1>3, <1>4, <1>6, <1>7, <1>8, <1>9 DEF Rows, m
  <1>10. CASE ~Processed
    BY <1>1, <1>2, <1>3, <1>4, <1>5, <1>6, <1>7, <1>8, <1>10 DEF Rows, m
  <1>. QED
    BY <1>9, <1>10

LEMMA SendInv == ASSUME Inv, Send PROVE Inv'
  <1>1. /\ pc = "proceed" /\ at = "request" /\ pc' = "upstream"
        /\ ex' = RecordRequest /\ sent' = {Outgoing}
        /\ UNCHANGED <<envVars, at, messageVars, up, reply, aborted, saved>>
    BY DEF Send
  <1>. DEFINE m == Outgoing
  <1>2. /\ m \in Messages
        /\ m.head = msg["request"].head /\ m.body = msg["request"].body
        /\ ex' \in Rows /\ ex'.reqHead = m.head /\ ex'.reqBody = m.body
        /\ ~Redeclared("request") => ex'.reqLength = m.length
        /\ ~Processed => ex'.reqLength = ex.reqLength
        /\ ex'.rules = ex.rules
        /\ ex'.respHead = ex.respHead /\ ex'.respBody = ex.respBody
        /\ ex'.respChunks = ex.respChunks
    BY <1>1, RecordedRequest
  <1>3. ~buffered["request"] /\ Unruled("request") => ~Processed
    BY <1>1 DEF Unruled, Processed
  <1>. HIDE DEF m
  <1>4. TypeOK'
    BY <1>1, <1>2 DEF Inv, TypeOK, envVars, messageVars, m
  <1>5. PlaceAt' /\ BodyAt'
    BY <1>1 DEF Inv, PlaceAt, BodyAt, Early, messageVars
  <1>6. RequestAt'
    BY <1>1, <1>2, <1>3 DEF Inv, RequestAt, Unruled, Redeclared, Arrived, messageVars, m
  <1>7. DecidedAt'
    BY <1>1 DEF Inv, DecidedAt, Relayed, messageVars, Points
  <1>8. ReplyAt'
    BY <1>1, <1>2 DEF Inv, ReplyAt, Early, Late
  <1>. QED
    BY <1>4, <1>5, <1>6, <1>7, <1>8 DEF Inv

LEMMA InvalidRequestInv == ASSUME Inv, InvalidRequest PROVE Inv'
  <1>1. /\ pc = "proceed" /\ at = "request" /\ pc' = "closing"
        /\ ex' = [RecordRequest EXCEPT !.status = "400", !.error = TRUE]
        /\ reply' = [reply EXCEPT !.status = "400"]
        /\ UNCHANGED <<envVars, at, messageVars, sent, up, aborted, saved>>
    BY DEF InvalidRequest
  <1>2. "400" \notin Heads /\ "400" \in Statuses
    BY NotRelayed DEF Pages
  <1>3. /\ sent = {} /\ reply = NoReply /\ ex.respHead = "" /\ ex.respBody = Empty
        /\ reply \in [status : Statuses, length : Bodies, body : Bodies \cup {Streamed}, chunks : 0..Chunks]
    BY <1>1 DEF Inv, TypeOK, PlaceAt, ReplyAt, Early
  <1>4. /\ ex' \in Rows /\ ex'.status = "400" /\ ex'.error
        /\ ex'.reqHead = RecordRequest.reqHead /\ ex'.reqLength = RecordRequest.reqLength
        /\ ex'.rules = ex.rules
        /\ ex'.respHead = ex.respHead /\ ex'.respBody = ex.respBody
    <2>1. /\ RecordRequest \in Rows /\ RecordRequest.rules = ex.rules
          /\ RecordRequest.respHead = ex.respHead /\ RecordRequest.respBody = ex.respBody
      BY <1>1, RecordedRequest
    <2>. QED
      BY <1>1, <1>2, <2>1 DEF Rows
  <1>5. /\ reply' \in [status : Statuses, length : Bodies, body : Bodies \cup {Streamed}, chunks : 0..Chunks]
        /\ reply'.status = "400"
    BY <1>1, <1>2, <1>3
  <1>6. ~buffered["request"] /\ Unruled("request") => ~Processed
    BY <1>1 DEF Unruled, Processed
  <1>7. TypeOK'
    BY <1>1, <1>4, <1>5 DEF Inv, TypeOK, envVars, messageVars
  <1>8. PlaceAt' /\ BodyAt' /\ DecidedAt'
    BY <1>1, <1>2, <1>5 DEF Inv, PlaceAt, BodyAt, DecidedAt, Relayed, Early, messageVars
  <1>9. RequestAt'
    BY <1>1, <1>3, <1>4, <1>6, RecordedRequest DEF Inv, RequestAt, Unruled, messageVars
  <1>10. ReplyAt'
    BY <1>1, <1>2, <1>3, <1>4, <1>5 DEF ReplyAt, Honest, Matching, Whole, Relayed, Early
  <1>. QED
    BY <1>7, <1>8, <1>9, <1>10 DEF Inv

LEMMA UploadInv == ASSUME Inv, Upload PROVE Inv'
  <1>1. /\ up' \in 0..Chunks
        /\ UNCHANGED <<envVars, pc, at, messageVars, sent, reply, aborted, ex, saved>>
    BY ChunksAreCounted DEF Upload, Inv, TypeOK
  <1>2. TypeOK'
    BY <1>1 DEF Inv, TypeOK, envVars, messageVars
  <1>3. PlaceAt' /\ BodyAt' /\ RequestAt' /\ DecidedAt'
    BY <1>1 
    DEF Inv, PlaceAt, BodyAt, RequestAt, DecidedAt, Unruled, Relayed, Redeclared, Arrived,
        messageVars
  <1>4. ReplyAt'
    BY <1>1
    DEF Inv, ReplyAt, Honest, Matching, Whole, Unruled, Relayed, BodyAllowed, Redeclared,
        Arrived, envVars, messageVars
  <1>. QED
    BY <1>2, <1>3, <1>4 DEF Inv

LEMMA RespondInv == ASSUME Inv, Respond PROVE Inv'
  <1>1. PICK k \in Kinds :
          /\ kind' = [kind EXCEPT !["response"] = k]
          /\ msg' = [msg EXCEPT !["response"] = OnWire("response", k)]
    BY DEF Respond
  <1>. DEFINE m == OnWire("response", k)
  <1>2. /\ m \in Messages /\ m.head \in Heads /\ m.length \in Bodies
        /\ m.body = IF k = "none" THEN Empty ELSE Streamed
    BY BodiesAndHeads DEF OnWire, Messages, Points
  <1>. HIDE DEF m
  <1>3. /\ msg \in [Points -> Messages] /\ kind \in [Points -> Kinds] /\ ex \in Rows
        /\ buffered \in [Points -> BOOLEAN]
        /\ "request" \in Points /\ "response" \in Points
    BY DEF Inv, TypeOK, Points
  <1>4. /\ msg'["response"] = m /\ msg'["request"] = msg["request"]
        /\ msg' \in [Points -> Messages]
        /\ kind'["response"] = k /\ kind'["request"] = kind["request"]
        /\ kind' \in [Points -> Kinds]
    BY <1>1, <1>2, <1>3 DEF m
  <1>5. /\ pc = "upstream" /\ pc' = "buffer" /\ at = "request" /\ at' = "response"
        /\ ex' = [ex EXCEPT !.status = m.head, !.respHead = m.head, !.respLength = m.length]
        /\ UNCHANGED <<envVars, needIntercept, buffered, verdict, decided, sent, up, reply,
                       aborted, saved>>
    BY <1>4 DEF Respond, Inv, PlaceAt
  <1>6. /\ ex' \in Rows /\ ex'.status = m.head /\ ex'.respHead = m.head /\ ex'.rules = ex.rules
        /\ ex'.reqHead = ex.reqHead /\ ex'.reqLength = ex.reqLength /\ ex'.reqBody = ex.reqBody
        /\ ex'.respBody = ex.respBody /\ ex'.respChunks = ex.respChunks
    BY <1>2, <1>3, <1>5 DEF Rows, Statuses
  <1>7. ~buffered["response"] /\ decided["response"] = {}
    BY <1>5 DEF Inv, PlaceAt, DecidedAt
  <1>8. \A p \in Points : p = "request" \/ p = "response"
    BY DEF Points
  <1>9. TypeOK'
    BY <1>3, <1>4, <1>5, <1>6, <1>7, <1>8 DEF Inv, TypeOK, envVars
  <1>10. PlaceAt' /\ BodyAt'
    BY <1>2, <1>4, <1>5, <1>7, <1>8 DEF Inv, PlaceAt, BodyAt
  <1>11. RequestAt'
    BY <1>4, <1>5, <1>6 DEF Inv, RequestAt, Unruled, Redeclared, Arrived
  <1>12. DecidedAt'
    BY <1>4, <1>5, <1>7, <1>8 DEF Inv, DecidedAt, Relayed
  <1>13. ReplyAt'
    BY <1>4, <1>5, <1>6 DEF Inv, ReplyAt, Early, Late
  <1>. QED
    BY <1>9, <1>10, <1>11, <1>12, <1>13 DEF Inv

-----------------------------------------------------------------------------
(* The response goes to the client.                                        *)

\* What recording the response does to a row.
LEMMA RecordedResponse ==
  ASSUME Inv, pc = "proceed", at = "response"
  PROVE  /\ RecordResponse \in Rows
         /\ RecordResponse.status = msg["response"].head
         /\ RecordResponse.respHead = msg["response"].head
         /\ RecordResponse.reqHead = ex.reqHead /\ RecordResponse.reqLength = ex.reqLength
         /\ RecordResponse.reqBody = ex.reqBody /\ RecordResponse.rules = ex.rules
         /\ RecordResponse.respChunks = 0
  <1>1. msg["response"] \in Messages /\ ex \in Rows /\ ex.respChunks = 0
    <2>1. msg \in [Points -> Messages] /\ "response" \in Points /\ ex \in Rows
      BY DEF Inv, TypeOK, Points
    <2>. QED
      BY <2>1 DEF Inv, ReplyAt, Early
  <1>. DEFINE m == msg["response"]
  <1>2. m.head \in Heads /\ m.head \in Statuses /\ m.length \in Bodies
    BY <1>1 DEF Messages, Statuses
  <1>3. ~Processed => ex.status = m.head /\ ex.respHead = m.head
    BY DEF Inv, ReplyAt, Unruled, Processed, Early
  <1>4. RecordResponse = IF Processed THEN [ex EXCEPT !.status = m.head, !.respHead = m.head,
                                                      !.respLength = m.length]
                         ELSE ex
    BY DEF RecordResponse
  <1>. HIDE DEF m
  <1>5. CASE Processed
    BY <1>1, <1>2, <1>4, <1>5 DEF Rows, m
  <1>6. CASE ~Processed
    BY <1>1, <1>3, <1>4, <1>6 DEF m
  <1>. QED
    BY <1>5, <1>6

LEMMA DeliverInv == ASSUME Inv, Deliver PROVE Inv'
  <1>. DEFINE m == msg["response"]
              body == IF BodyAllowed THEN m.body ELSE Empty
              length == IF BodyAllowed THEN m.body ELSE m.length
  <1>1. /\ pc = "proceed" /\ at = "response" /\ pc' = "closing" /\ buffered["response"]
        /\ reply' = [status |-> m.head, body |-> body, chunks |-> 0, length |-> length]
        /\ UNCHANGED <<envVars, at, messageVars, sent, up, aborted, saved>>
    BY DEF Deliver
  <1>2. PICK err \in {FALSE, gone} :
          ex' = [RecordResponse EXCEPT !.respBody = body, !.error = err]
    BY DEF Deliver
  <1>3. /\ m \in Messages /\ m.body \in Bodies /\ m.body # Streamed /\ err \in BOOLEAN
        /\ kind["response"] \in {"none", "whole"}
    <2>1. msg \in [Points -> Messages] /\ "response" \in Points /\ gone \in BOOLEAN
      BY DEF Inv, TypeOK, Points
    <2>2. m.body # Streamed
      BY <1>1, <2>1 DEF Inv, TypeOK
    <2>3. kind["response"] \in {"none", "whole"}
      BY <1>1, <2>1 DEF Inv, BodyAt
    <2>. QED
      BY <2>1, <2>2, <2>3 DEF Messages
  <1>4. /\ body \in Bodies /\ body # Streamed /\ length \in Bodies
        /\ m.head \in Heads /\ m.head \in Statuses
    BY <1>3, BodiesAndHeads DEF Messages, Statuses
  <1>5. /\ reply'.status = m.head /\ reply'.body = body /\ reply'.chunks = 0
        /\ reply' \in [status : Statuses, length : Bodies, body : Bodies \cup {Streamed}, chunks : 0..Chunks]
    BY <1>1, <1>4, ChunksAreCounted
  <1>6. /\ ex' \in Rows /\ ex'.status = m.head /\ ex'.respHead = m.head /\ ex'.rules = ex.rules
        /\ ex'.reqHead = ex.reqHead /\ ex'.reqLength = ex.reqLength /\ ex'.reqBody = ex.reqBody
        /\ ex'.respBody = body /\ ex'.respChunks = 0
    <2>1. body \in Bodies \cup {Streamed}
      BY <1>4
    <2>2. /\ RecordResponse \in Rows
          /\ RecordResponse.status = m.head /\ RecordResponse.respHead = m.head
          /\ RecordResponse.reqHead = ex.reqHead /\ RecordResponse.reqLength = ex.reqLength
          /\ RecordResponse.reqBody = ex.reqBody /\ RecordResponse.rules = ex.rules
          /\ RecordResponse.respChunks = 0
      BY <1>1, RecordedResponse
    <2>. HIDE DEF body, m
    <2>. QED
      BY <1>2, <1>3, <2>1, <2>2 DEF Rows
  <1>7. TypeOK'
    BY <1>1, <1>5, <1>6 DEF Inv, TypeOK, envVars, messageVars
  <1>8. PlaceAt' /\ BodyAt'
    BY <1>1 DEF Inv, PlaceAt, BodyAt, Early, messageVars
  <1>9. RequestAt'
    BY <1>1, <1>6 DEF Inv, RequestAt, Unruled, Redeclared, Arrived, messageVars
  <1>10. DecidedAt'
    BY <1>1 DEF Inv, DecidedAt, messageVars, Points
  <1>11. Honest'
    BY <1>1, <1>3, <1>4, <1>5 DEF Honest, messageVars
  <1>12. Matching'
    BY <1>4, <1>5, <1>6 DEF Matching, Relayed
  <1>13. Whole'
    BY <1>1, <1>5 DEF Whole, BodyAllowed, messageVars
  <1>14. ReplyAt'
    BY <1>1, <1>11, <1>12, <1>13 DEF ReplyAt, Early
  <1>. QED
    BY <1>7, <1>8, <1>9, <1>10, <1>14 DEF Inv

LEMMA WriteHeaderInv == ASSUME Inv, WriteHeader PROVE Inv'
  <1>. DEFINE m == msg["response"]
  <1>1. /\ pc = "proceed" /\ at = "response" /\ pc' = "copy" /\ ~buffered["response"]
        /\ reply' = [status |-> m.head, length |-> m.length, body |-> m.body, chunks |-> 0]
        /\ ex' = [RecordResponse EXCEPT !.respBody = m.body]
        /\ UNCHANGED <<envVars, at, messageVars, sent, up, aborted, saved>>
    BY DEF WriteHeader
  <1>2. m \in Messages
    BY DEF Inv, TypeOK, Points
  <1>3. /\ m.body \in Bodies \cup {Streamed} /\ m.length \in Bodies
        /\ m.head \in Heads /\ m.head \in Statuses
    BY <1>2 DEF Messages, Statuses
  <1>. HIDE DEF m
  <1>4. /\ reply'.status = m.head /\ reply'.body = m.body /\ reply'.chunks = 0
        /\ reply' \in [status : Statuses, length : Bodies, body : Bodies \cup {Streamed}, chunks : 0..Chunks]
    BY <1>1, <1>3, ChunksAreCounted
  <1>5. /\ ex' \in Rows /\ ex'.status = m.head /\ ex'.respHead = m.head /\ ex'.rules = ex.rules
        /\ ex'.reqHead = ex.reqHead /\ ex'.reqLength = ex.reqLength /\ ex'.reqBody = ex.reqBody
        /\ ex'.respBody = m.body /\ ex'.respChunks = 0
    <2>1. /\ RecordResponse \in Rows
          /\ RecordResponse.status = m.head /\ RecordResponse.respHead = m.head
          /\ RecordResponse.reqHead = ex.reqHead /\ RecordResponse.reqLength = ex.reqLength
          /\ RecordResponse.reqBody = ex.reqBody /\ RecordResponse.rules = ex.rules
          /\ RecordResponse.respChunks = 0
      BY <1>1, RecordedResponse DEF m
    <2>. QED
      BY <1>1, <1>3, <2>1 DEF Rows
  <1>6. TypeOK'
    BY <1>1, <1>4, <1>5 DEF Inv, TypeOK, envVars, messageVars
  <1>7. PlaceAt' /\ BodyAt'
    BY <1>1 DEF Inv, PlaceAt, BodyAt, Early, messageVars
  <1>8. RequestAt'
    BY <1>1, <1>5 DEF Inv, RequestAt, Unruled, Redeclared, Arrived, messageVars
  <1>9. DecidedAt'
    BY <1>1 DEF Inv, DecidedAt, messageVars, Points
  <1>10. ReplyAt'
    BY <1>1, <1>4, <1>5 DEF Inv, ReplyAt, Early, Late, messageVars, m
  <1>. QED
    BY <1>6, <1>7, <1>8, <1>9, <1>10 DEF Inv

\* What holds of the streamed response of an exchange.
LEMMA Copying ==
  ASSUME Inv, pc = "copy"
  PROVE  /\ ~buffered["response"] /\ ~aborted
         /\ reply.body = IF kind["response"] = "none" THEN Empty ELSE Streamed
         /\ reply.status = msg["response"].head /\ reply.status \in Heads
         /\ ex.status = reply.status /\ ex.respHead = reply.status
         /\ ex.respBody = reply.body /\ ex.respChunks = reply.chunks
         /\ kind["response"] \in Kinds /\ ex \in Rows
         /\ reply \in [status : Statuses, length : Bodies, body : Bodies \cup {Streamed}, chunks : 0..Chunks]
         /\ Empty # Streamed
  <1>1. "response" \in Points /\ msg \in [Points -> Messages] /\ kind \in [Points -> Kinds]
    BY DEF Inv, TypeOK, Points
  <1>2. msg["response"].head \in Heads
    BY <1>1 DEF Messages
  <1>. QED
    BY <1>1, <1>2, BodiesAndHeads DEF Inv, TypeOK, PlaceAt, BodyAt, ReplyAt

\* Steps from the copy of a response on, which write neither the request nor a
\* decision: what is left to show is about the reply.
LEMMA TailInv ==
  ASSUME Inv, TypeOK', ReplyAt',
         pc \in {"copy"} \cup Late, pc' \in {"copy"} \cup Late,
         pc' = "copy" => pc = "copy",
         ex'.reqHead = ex.reqHead, ex'.reqLength = ex.reqLength, ex'.reqBody = ex.reqBody,
         ex'.rules = ex.rules, reply'.status = reply.status,
         UNCHANGED <<envVars, at, messageVars, sent, up>>
  PROVE  Inv'
  <1>1. PlaceAt' /\ BodyAt'
    BY DEF Inv, PlaceAt, BodyAt, Early, Late, messageVars
  <1>2. RequestAt' /\ DecidedAt'
    BY DEF Inv, RequestAt, DecidedAt, Unruled, Relayed, Redeclared, Arrived, Late, messageVars
  <1>. QED
    BY <1>1, <1>2 DEF Inv

LEMMA CopyChunkInv == ASSUME Inv, CopyChunk PROVE Inv'
  <1>1. PICK ok \in BOOLEAN :
          /\ IF ok THEN BodyAllowed ELSE gone \/ ~BodyAllowed \/ Redeclared("response")
          /\ ex' = [ex EXCEPT !.respChunks = @ + 1, !.error = ~ok]
          /\ reply' = [reply EXCEPT !.chunks = IF ok THEN @ + 1 ELSE @]
          /\ pc' = IF ok THEN "copy" ELSE "closing"
    BY DEF CopyChunk
  <1>2. /\ pc = "copy" /\ ex.respChunks < Chunks
        /\ UNCHANGED <<envVars, at, messageVars, sent, up, aborted, saved>>
    BY DEF CopyChunk
  <1>3. ex.respChunks \in 0..Chunks /\ ex.respChunks + 1 \in 0..Chunks
    <2>1. ex.respChunks \in 0..Chunks
      BY <1>2, Copying DEF Rows
    <2>. QED
      BY <1>2, <2>1, ChunksAreCounted
  <1>4. /\ ex' \in Rows /\ ex'.respChunks = ex.respChunks + 1 /\ ex'.error = ~ok
        /\ ex'.reqHead = ex.reqHead /\ ex'.reqLength = ex.reqLength /\ ex'.reqBody = ex.reqBody
        /\ ex'.rules = ex.rules
        /\ ex'.status = ex.status /\ ex'.respHead = ex.respHead /\ ex'.respBody = ex.respBody
    BY <1>1, <1>2, <1>3, Copying DEF Rows
  <1>5. /\ reply' \in [status : Statuses, length : Bodies, body : Bodies \cup {Streamed}, chunks : 0..Chunks]
        /\ reply'.status = reply.status /\ reply'.body = reply.body
        /\ reply'.chunks = IF ok THEN reply.chunks + 1 ELSE reply.chunks
    BY <1>1, <1>2, <1>3, Copying
  <1>6. TypeOK'
    BY <1>1, <1>2, <1>4, <1>5 DEF Inv, TypeOK, envVars, messageVars
  <1>7. CASE ok
    <2>1. ReplyAt'
      BY <1>1, <1>2, <1>4, <1>5, <1>7, Copying DEF Inv, ReplyAt, Early, Late, messageVars
    <2>. QED
      BY <1>1, <1>2, <1>4, <1>5, <1>6, <1>7, <2>1, TailInv
  <1>8. CASE ~ok
    <2>1. Honest' /\ Whole'
      BY <1>1, <1>2, <1>8, Copying
      DEF Honest, Whole, BodyAllowed, Redeclared, Arrived, envVars, messageVars
    <2>2. Matching'
      BY <1>2, <1>3, <1>4, <1>5, <1>8, Copying DEF Matching, Relayed
    <2>3. ReplyAt'
      BY <1>1, <1>8, <2>1, <2>2 DEF ReplyAt, Early
    <2>. QED
      BY <1>1, <1>2, <1>4, <1>5, <1>6, <1>8, <2>3, TailInv DEF Late
  <1>. QED
    BY <1>7, <1>8

LEMMA CopyEndsInv == ASSUME Inv, CopyEnds PROVE Inv'
  <1>1. /\ pc = "copy" /\ pc' = "closing"
        /\ UNCHANGED <<envVars, at, messageVars, sent, up, reply, aborted, ex, saved>>
    BY DEF CopyEnds
  <1>2. TypeOK'
    BY <1>1 DEF Inv, TypeOK, envVars, messageVars
  <1>3. Honest'
    BY <1>1, Copying DEF CopyEnds, Honest, messageVars
  <1>4. Matching' /\ Whole'
    BY <1>1, Copying DEF Matching, Whole, Relayed, messageVars
  <1>5. ReplyAt'
    BY <1>1, <1>3, <1>4 DEF ReplyAt, Early
  <1>. QED
    BY <1>1, <1>2, <1>5, TailInv DEF Late

LEMMA CopyFailsInv == ASSUME Inv, CopyFails PROVE Inv'
  <1>1. /\ pc = "copy" /\ pc' = "closing" /\ aborted'
        /\ ex' = [ex EXCEPT !.error = TRUE]
        /\ aborted' \in BOOLEAN
        /\ UNCHANGED <<envVars, at, messageVars, sent, up, reply, saved>>
    BY DEF CopyFails
  <1>2. /\ ex' \in Rows /\ ex'.respChunks = ex.respChunks /\ ex'.error
        /\ ex'.reqHead = ex.reqHead /\ ex'.reqLength = ex.reqLength /\ ex'.reqBody = ex.reqBody
        /\ ex'.rules = ex.rules
        /\ ex'.status = ex.status /\ ex'.respHead = ex.respHead /\ ex'.respBody = ex.respBody
    BY <1>1, Copying DEF Rows
  <1>3. TypeOK'
    BY <1>1, <1>2 DEF Inv, TypeOK, envVars, messageVars
  <1>4. Honest' /\ Whole'
    BY <1>1, Copying DEF Honest, Whole, messageVars
  <1>5. Matching'
    BY <1>1, <1>2, Copying DEF Matching, Relayed
  <1>6. ReplyAt'
    BY <1>1, <1>4, <1>5 DEF ReplyAt, Early
  <1>. QED
    BY <1>1, <1>2, <1>3, <1>6, TailInv DEF Late

\* The deferred function.
LEMMA SaveInv == ASSUME Inv, Close \/ Save PROVE Inv'
  <1>1. /\ pc \in Late /\ pc' \in Late
        /\ UNCHANGED <<envVars, at, messageVars, sent, up, reply, aborted>>
    BY DEF Close, Save, Late
  <1>2. ex' = ex \/ ex' = [ex EXCEPT !.reqChunks = up]
    BY DEF Close, Save
  <1>3. ex \in Rows /\ up \in 0..Chunks
    BY DEF Inv, TypeOK
  <1>4. /\ ex' \in Rows /\ ex'.respChunks = ex.respChunks /\ ex'.error = ex.error
        /\ ex'.reqHead = ex.reqHead /\ ex'.reqLength = ex.reqLength /\ ex'.reqBody = ex.reqBody
        /\ ex'.rules = ex.rules
        /\ ex'.status = ex.status /\ ex'.respHead = ex.respHead /\ ex'.respBody = ex.respBody
    BY <1>2, <1>3 DEF Rows
  <1>5. saved' \in SUBSET Rows
    BY <1>3 DEF Close, Save, Inv, TypeOK
  <1>6. TypeOK'
    BY <1>1, <1>4, <1>5 DEF Inv, TypeOK, Late, envVars, messageVars
  <1>7. Honest' /\ Whole'
    BY <1>1
    DEF Inv, ReplyAt, Honest, Whole, Relayed, BodyAllowed, Redeclared, Arrived, envVars,
        messageVars
  <1>8. Matching'
    BY <1>1, <1>4 DEF Inv, ReplyAt, Matching, Relayed
  <1>9. ReplyAt'
    BY <1>1, <1>7, <1>8 DEF ReplyAt, Early, Late
  <1>. QED
    BY <1>1, <1>4, <1>6, <1>9, TailInv DEF Late

-----------------------------------------------------------------------------

LEMMA NextInv == Inv /\ [Next]_vars => Inv'
  <1>. SUFFICES ASSUME Inv, [Next]_vars PROVE Inv'
    OBVIOUS
  <1>1. CASE StreamThrough \/ SkipBuffer \/ Hold
    <2>1. needIntercept' \in BOOLEAN
      BY <1>1 DEF StreamThrough, SkipBuffer, Hold, Inv, TypeOK
    <2>2. /\ pc \in {"buffer", "hold"}
          /\ pc' \in {"rules", "held", "resolved", "proceed"}
          /\ pc' = "held" => buffered[at]
          /\ verdict' \in Verdicts
          /\ UNCHANGED <<envVars, at, kind, buffered, msg, decided, sent, up, reply, aborted, ex, saved>>
      BY <1>1 DEF StreamThrough, SkipBuffer, Hold, Verdicts, Inv, TypeOK
    <2>. QED
      BY <2>1, <2>2, PlaceInv
  <1>2. CASE BufferFails \/ ClientGone \/ Dropped \/ RoundTripFails
    <2>1. /\ pc \in {"buffer", "resolved", "upstream"} /\ pc' = "closing"
          /\ AnswerNobody \/ (\E page \in Pages : AnswerPage(page))
          /\ UNCHANGED <<envVars, at, messageVars, sent, up, aborted, saved>>
      BY <1>2 DEF BufferFails, ClientGone, Dropped, RoundTripFails, Pages
    <2>. QED
      BY <2>1, EarlyEndInv
  <1>3. CASE Reload \/ Disconnect \/ UNCHANGED vars
    <2>1. /\ settings' \in [Points -> BOOLEAN] /\ active' \in RuleSets
          /\ gone' \in BOOLEAN /\ (gone => gone')
          /\ UNCHANGED <<pc, at, messageVars, sent, up, reply, aborted, ex, saved>>
      BY <1>3 DEF Reload, Disconnect, vars, envVars, Inv, TypeOK
    <2>. QED
      BY <2>1, EnvironmentInv
  <1>. QED
    BY <1>1, <1>2, <1>3, BufferBodyInv, ApplyRulesInv, HeldInv, ReleasedInv, SendInv,
       InvalidRequestInv, UploadInv, RespondInv, DeliverInv, WriteHeaderInv, CopyChunkInv,
       CopyEndsInv, CopyFailsInv, SaveInv
    DEF Next, Handler

\* Whatever rules and users did to a request, its row has the head and the body that
\* went upstream, and the length as well, unless a rule declared another one for a body
\* that streams (recordEditedRequest, SyncContentLength, BuildRequest).
THEOREM RequestRowIsSent == Spec => []RecordedRequestIsSent
  <1>1. Inv => RecordedRequestIsSent
    BY DEF Inv, RequestAt, RecordedRequestIsSent
  <1>. QED
    BY <1>1, InitInv, NextInv, PTL DEF Spec

\* ... and the status, headers and body that were delivered, or nothing of the
\* upstream's if the client got an error page or nothing at all.
THEOREM ResponseRowIsDelivered == Spec => []RecordedResponseIsDelivered
  <1>1. Inv => RecordedResponseIsDelivered
    BY DEF Inv, ReplyAt, Late, Matching, RecordedResponseIsDelivered
  <1>. QED
    BY <1>1, InitInv, NextInv, PTL DEF Spec

\* A response that broke off upstream never ends like a complete one, as long as no rule
\* declared another length for it (the ErrAbortHandler panic in forward).
THEOREM BrokenIsNeverComplete == Spec => []NeverFalselyComplete
  <1>1. Inv => NeverFalselyComplete
    BY DEF Inv, ReplyAt, Late, Honest, NeverFalselyComplete
  <1>. QED
    BY <1>1, InitInv, NextInv, PTL DEF Spec

\* What goes on of a held message is what was decided of it.
THEOREM UserHasTheLastWord == Spec => []HeldGoesOnAsDecided
  <1>1. Inv => HeldGoesOnAsDecided
    <2>. SUFFICES ASSUME Inv PROVE HeldGoesOnAsDecided
      OBVIOUS
    <2>1. ASSUME NEW d \in decided["request"], NEW m \in sent
          PROVE d[1] # "drop" /\ m.head = d[2].head /\ m.body = d[2].body
      BY <2>1 DEF Inv, DecidedAt, RequestAt, Points
    <2>2. ASSUME NEW d \in decided["response"], Relayed
          PROVE  /\ d[1] # "drop" /\ reply.status = d[2].head
                 /\ reply.body = IF BodyAllowed THEN d[2].body ELSE Empty
      <3>1. d[1] # "drop" /\ d[2] = msg["response"] /\ buffered["response"]
        BY <2>2 DEF Inv, DecidedAt, Points
      <3>2. reply # NoReply
        <4>1. reply = NoReply => reply.status = "0"
          BY DEF NoReply
        <4>. QED
          BY <2>2, <4>1, NotRelayed DEF Relayed
      <3>3. pc \in Late
        BY <3>1, <3>2 DEF Inv, TypeOK, PlaceAt, ReplyAt, Early, Late
      <3>. QED
        BY <2>2, <3>1, <3>3 DEF Inv, ReplyAt, Whole
    <2>. QED
      BY <2>1, <2>2 DEF HeldGoesOnAsDecided
  <1>. QED
    BY <1>1, InitInv, NextInv, PTL DEF Spec

-----------------------------------------------------------------------------
(* Seen from outside.                                                      *)

\* A message is held only at a pause point that is on.
HeldAt == pc = "held" => settings[at]

LEMMA NextHeldAt == ASSUME Inv, HeldAt, [Next]_vars PROVE HeldAt'
  <1>1. CASE Hold
    BY <1>1 DEF Hold, HeldAt, envVars
  <1>2. CASE SetSettings
    <2>1. pc' = "held" => pc = "held" /\ settings'[at] /\ at' = at
      BY <1>2 DEF SetSettings, Decided, HeldAt, Inv, TypeOK
    <2>. QED
      BY <2>1 DEF HeldAt
  <1>3. CASE Upload \/ Reload \/ Disconnect \/ UNCHANGED vars
    BY <1>3 DEF Upload, Reload, Disconnect, HeldAt, vars, envVars
  <1>4. CASE \/ StreamThrough \/ BufferBody \/ SkipBuffer \/ BufferFails \/ ApplyRules
             \/ AutoResolve \/ ClientGone \/ Dropped \/ Released \/ Send \/ InvalidRequest
             \/ Deliver \/ WriteHeader \/ CopyChunk \/ CopyEnds \/ CopyFails \/ Close \/ Save
             \/ RoundTripFails \/ Respond \/ Resolve
    <2>1. pc' # "held"
      BY <1>4 DEF StreamThrough, BufferBody, SkipBuffer, BufferFails, ApplyRules, AutoResolve,
                  ClientGone, Dropped, Released, Send, InvalidRequest, Deliver, WriteHeader,
                  CopyChunk, CopyEnds, CopyFails, Close, Save, RoundTripFails, Respond, Resolve,
                  Decided
    <2>. QED
      BY <2>1 DEF HeldAt
  <1>. QED
    BY <1>1, <1>2, <1>3, <1>4 DEF Next, Handler

\* The toggles and the exchange, as the instance has them.
On == \E p \in Points : settings[p]
ExSeen == [x \in {1} |-> Seen]

LEMMA SeenStays == ASSUME UNCHANGED settings, UNCHANGED Seen PROVE UNCHANGED Outside!vars
  BY DEF Outside!vars, Outside!lifeVars, Outside!tunnelVars

LEMMA HoldSeen ==
  ASSUME On, On' <=> On, Seen = "active", Seen' = "held"
  PROVE  Outside!Hold(1)
  <1>1. ExSeen[1] = "active" /\ ExSeen' = [ExSeen EXCEPT ![1] = "held"]
    BY DEF ExSeen
  <1>. QED
    BY <1>1 DEF Outside!Hold, Outside!Running, Outside!tunnelVars, On, ExSeen

LEMMA UnholdSeen ==
  ASSUME On' <=> On, Seen = "held", Seen' = "active"
  PROVE  Outside!Unhold(1)
  <1>1. ExSeen[1] = "held" /\ ExSeen' = [ExSeen EXCEPT ![1] = "active"]
    BY DEF ExSeen
  <1>. QED
    BY <1>1 DEF Outside!Unhold, Outside!Running, Outside!tunnelVars, On, ExSeen

LEMMA FinishSeen ==
  ASSUME On' <=> On, Seen = "active", Seen' = "saved"
  PROVE  Outside!Finish(1)
  <1>1. ExSeen[1] = "active" /\ ExSeen' = [ExSeen EXCEPT ![1] = "saved"]
    BY DEF ExSeen
  <1>. QED
    BY <1>1 DEF Outside!Finish, Outside!Running, Outside!tunnelVars, On, ExSeen

LEMMA SwitchSeen ==
  ASSUME Seen' = IF Seen = "held" /\ ~On' THEN "active" ELSE Seen
  PROVE  Outside!SetSettings
  <1>1. ExSeen' = [x \in {1} |-> IF ExSeen[x] = "held" /\ ~On' THEN "active" ELSE ExSeen[x]]
    BY DEF ExSeen
  <1>2. Outside!Exchanges = {1}
    BY DEF Outside!Exchanges
  <1>3. On' \in BOOLEAN
    BY DEF On
  <1>. QED
    BY <1>1, <1>2, <1>3 DEF Outside!SetSettings, Outside!tunnelVars, On, ExSeen

LEMMA NextSeen ==
  ASSUME Inv, HeldAt, [Next]_vars
  PROVE  [Outside!Next]_(Outside!vars)
  <1>0. settings \in [Points -> BOOLEAN] /\ at \in Points
    BY DEF Inv, TypeOK
  <1>1. 1 \in Outside!Exchanges
    BY DEF Outside!Exchanges
  <1>2. CASE Hold
    <2>1. pc = "hold" /\ settings' = settings /\ at' = at
      BY <1>2 DEF Hold, envVars
    <2>2. CASE pc' = "held"
      <3>1. On /\ (On' <=> On) /\ Seen = "active" /\ Seen' = "held"
        BY <1>0, <1>2, <2>1, <2>2 DEF Hold, On, Seen
      <3>2. Outside!Hold(1)
        BY <3>1, HoldSeen
      <3>. QED
        BY <1>1, <3>2 DEF Outside!Next
    <2>3. CASE pc' # "held"
      <3>1. Seen' = Seen
        BY <1>2, <2>1, <2>3 DEF Hold, Seen
      <3>. QED
        BY <2>1, <3>1, SeenStays
    <2>. QED
      BY <2>2, <2>3
  <1>3. CASE Resolve \/ AutoResolve
    <2>1. settings' = settings /\ pc = "held" /\ pc' = "resolved"
      BY <1>3 DEF Resolve, AutoResolve, Decided, envVars
    <2>2. (On' <=> On) /\ Seen = "held" /\ Seen' = "active"
      BY <2>1 DEF On, Seen
    <2>3. Outside!Unhold(1)
      BY <2>2, UnholdSeen
    <2>. QED
      BY <1>1, <2>3 DEF Outside!Next
  <1>4. CASE SetSettings
    <2>1. /\ settings' \in [Points -> BOOLEAN]
          /\ IF pc = "held" /\ settings[at] /\ ~settings'[at] THEN pc' = "resolved" ELSE pc' = pc
      BY <1>4 DEF SetSettings, Decided
    <2>2. CASE Seen' = IF Seen = "held" /\ ~On' THEN "active" ELSE Seen
      <3>1. Outside!SetSettings
        BY <2>2, SwitchSeen
      <3>. QED
        BY <3>1 DEF Outside!Next
    <2>3. CASE Seen' # IF Seen = "held" /\ ~On' THEN "active" ELSE Seen
      <3>1. pc = "held" /\ settings[at] /\ ~settings'[at] /\ pc' = "resolved"
        <4>1. CASE pc = "held" /\ settings[at] /\ ~settings'[at]
          BY <2>1, <4>1
        <4>2. CASE ~(pc = "held" /\ settings[at] /\ ~settings'[at])
          <5>1. Seen' = Seen
            BY <2>1, <4>2 DEF Seen
          <5>2. Seen = "held" => On'
            BY <1>0, <2>1, <4>2 DEF Seen, HeldAt, On
          <5>. QED
            BY <2>3, <5>1, <5>2
        <4>. QED
          BY <4>1, <4>2
      <3>2. Seen = "held" /\ Seen' = "active"
        BY <3>1 DEF Seen
      <3>3. On' /\ On
        BY <1>0, <2>3, <3>1, <3>2 DEF On
      <3>4. Outside!Unhold(1)
        BY <3>2, <3>3, UnholdSeen
      <3>. QED
        BY <1>1, <3>4 DEF Outside!Next
    <2>. QED
      BY <2>2, <2>3
  <1>5. CASE Save
    <2>1. settings' = settings /\ pc = "saving" /\ pc' = "done"
      BY <1>5 DEF Save, envVars
    <2>2. (On' <=> On) /\ Seen = "active" /\ Seen' = "saved"
      BY <2>1 DEF On, Seen
    <2>3. Outside!Finish(1)
      BY <2>2, FinishSeen
    <2>. QED
      BY <1>1, <2>3 DEF Outside!Next
  <1>6. CASE Upload \/ Reload \/ Disconnect \/ UNCHANGED vars
    <2>1. settings' = settings /\ pc' = pc
      BY <1>6 DEF Upload, Reload, Disconnect, vars, envVars
    <2>2. Seen' = Seen
      BY <2>1 DEF Seen
    <2>. QED
      BY <2>1, <2>2, SeenStays
  <1>7. CASE \/ StreamThrough \/ BufferBody \/ SkipBuffer \/ BufferFails \/ ApplyRules
             \/ ClientGone \/ Dropped \/ Released \/ Send \/ InvalidRequest \/ Deliver
             \/ WriteHeader \/ CopyChunk \/ CopyEnds \/ CopyFails \/ Close \/ RoundTripFails
             \/ Respond
    <2>1. settings' = settings /\ pc \notin {"held", "done"} /\ pc' \notin {"held", "done"}
      BY <1>7 DEF StreamThrough, BufferBody, SkipBuffer, BufferFails, ApplyRules, ClientGone,
                  Dropped, Released, Send, InvalidRequest, Deliver, WriteHeader, CopyChunk,
                  CopyEnds, CopyFails, Close, RoundTripFails, Respond, envVars
    <2>2. Seen' = Seen
      BY <2>1 DEF Seen
    <2>. QED
      BY <2>1, <2>2, SeenStays
  <1>. QED
    BY <1>2, <1>3, <1>4, <1>5, <1>6, <1>7 DEF Next, Handler

\* What Lifecycle takes an exchange to be is what forward makes of one: a message is
\* held only while a toggle is on, switching off lets it go on at once, and it is
\* saved once, by the handler's last step (main.go:176).
THEOREM ExchangeFromOutside == Spec => ImplementsExchange
  <1>1. Init => HeldAt /\ Seen = "active"
    BY DEF Init, HeldAt, Seen
  <1>. QED
    BY <1>1, InitInv, NextInv, NextHeldAt, NextSeen, PTL DEF Spec, ImplementsExchange

=============================================================================
