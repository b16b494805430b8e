--------------------------- MODULE InterceptProofs ---------------------------
(***************************************************************************)
(* The intercept queue is correct for every set of calls, handlers and     *)
(* contents, with a timeout or without one.                                *)
(***************************************************************************)
EXTENDS Intercept, TLAPS

-----------------------------------------------------------------------------
(* The inductive invariant.  ExactlyOneOwner is not inductive by itself:   *)
(* it needs to know that an id names one item for ever, and which control  *)
(* points go with an empty or a full channel.                              *)

\* An id is never given twice, and an item is stored under its own id.
IdsMatch ==
  /\ \A i \in DOMAIN items : id[items[i]] = i
  /\ \A c \in Calls : (pc[c] = "start") => (id[c] = 0 /\ told[c] = {})
  /\ \A c, d \in Calls : (id[c] = id[d] /\ id[c] # 0) => (c = d)

\* What a goroutine holds at each control point.
CallsAt ==
  \A c \in Calls :
    /\ (pc[c] = "apply") => (\E r \in Resolutions : got[c] = {r})
    /\ (pc[c] # "apply") => (got[c] = {})
    /\ (ch[c] = {}) \/ (\E r \in Resolutions : ch[c] = {r})
    /\ (pc[c] = "receive") => ~InMap(c)
    /\ (pc[c] = "expired") => TimeoutOn
    /\ (pc[c] = "gone") => gone[c]

\* What a handler holds at each control point.  One that resolves owes the
\* item it was asked about, until its resolution is delivered to that item.
HandlersAt ==
  \A h \in Handlers :
    /\ (hpc[h] \notin {"resolving", "releasing"}) => (owed[h] = {})
    /\ (hpc[h] \in {"viewing", "building", "resolving"}) =>
         (seen[h] \in Calls /\ id[seen[h]] # 0)
    /\ (hpc[h] = "resolving") =>
         /\ hres[h] \in UserResolutions
         /\ owed[h] = {seen[h]} \/ (owed[h] = {} /\ Delivered(seen[h], hres[h]))
    /\ (hpc[h] = "releasing") => (hres[h] = TurnedOff)

Inv ==
  /\ TypeOK
  /\ IdsMatch
  /\ ExactlyOneOwner
  /\ CallsAt
  /\ HandlersAt
  /\ HeldOnlyWhileOn
  /\ AckedIsDelivered

-----------------------------------------------------------------------------
(* Facts about the vocabulary.                                             *)

\* The resolutions the queue and the UI make are resolutions, and applying
\* one gives an outcome and a message.
LEMMA ResolutionTypes ==
  /\ UserResolutions \subseteq Resolutions
  /\ {TurnedOff, AutoForward, ContextDone} \subseteq Resolutions
  /\ TurnedOff \notin UserResolutions
  /\ \A c \in Calls, r \in Resolutions :
        OutcomeOf(c, r) \in Outcomes /\ MessageAfter(c, r) \in Contents
  <1>1. /\ UserResolutions \subseteq Resolutions
        /\ TurnedOff \notin UserResolutions
    <2>1. ASSUME NEW r \in UserResolutions
          PROVE  r \in Resolutions /\ r.note = ""
      <3>1. CASE r = Drop
        BY <3>1 DEF Drop, Resolutions, Edits, Notes
      <3>2. CASE r # Drop
        <4>1. PICK e \in Edits : r = Forward(e)
          BY <3>2 DEF UserResolutions
        <4>. QED
          BY <4>1 DEF Forward, Resolutions, Notes
      <3>. QED
        BY <3>1, <3>2
    <2>2. TurnedOff.note = "turned off"
      BY DEF TurnedOff
    <2>. QED
      BY <2>1, <2>2
  <1>2. {TurnedOff, AutoForward, ContextDone} \subseteq Resolutions
    BY HoldAssumption
    DEF Resolutions, Edits, Notes, TurnedOff, AutoForward, ContextDone
  <1>3. ASSUME NEW c \in Calls, NEW r \in Resolutions
        PROVE  OutcomeOf(c, r) \in Outcomes
    <2>1. IsEdit(c, r) \in BOOLEAN
      BY Zenon DEF IsEdit
    <2>2. r.drop \in BOOLEAN /\ r.note \in Notes
      BY DEF Resolutions
    <2>. QED
      BY <2>1, <2>2 DEF OutcomeOf, Outcomes
  <1>4. ASSUME NEW c \in Calls, NEW r \in Resolutions
        PROVE  MessageAfter(c, r) \in Contents
    BY HoldAssumption DEF MessageAfter, IsEdit, Resolutions, Edits
  <1>. QED
    BY <1>1, <1>2, <1>3, <1>4

-----------------------------------------------------------------------------
(* Types.                                                                  *)

LEMMA InitTypeOK == Init => TypeOK
  <1>. SUFFICES ASSUME Init PROVE TypeOK
    OBVIOUS
  <1>1. items \in [DOMAIN items -> Calls] /\ DOMAIN items = {}
    BY DEF Init
  <1>2. PassThrough \in Outcomes
    BY DEF PassThrough, Outcomes, Notes
  <1>3. outcome \in [Calls -> Outcomes] /\ message \in [Calls -> Contents]
    BY <1>2, HoldAssumption DEF Init
  <1>4. hres \in [Handlers -> Resolutions]
    BY ResolutionTypes DEF Init
  <1>. QED
    BY <1>1, <1>3, <1>4 DEF Init, TypeOK

LEMMA CallTypeOK ==
  ASSUME TypeOK, NEW c \in Calls, CallStep(c)
  PROVE  TypeOK'
  <1>1. CASE Bypass(c)
    BY <1>1, ResolutionTypes DEF TypeOK, Bypass, handlerVars, callVars, Without, Restrict, NewID, OwnResolution
  <1>2. CASE Enqueue(c)
    BY <1>2, ResolutionTypes DEF TypeOK, Enqueue, handlerVars, callVars, Without, Restrict, NewID, OwnResolution
  <1>3. CASE Receive(c)
    BY <1>3, ResolutionTypes DEF TypeOK, Receive, handlerVars, callVars, Without, Restrict, NewID, OwnResolution
  <1>4. CASE TimerFires(c)
    BY <1>4, ResolutionTypes DEF TypeOK, TimerFires, handlerVars, callVars, Without, Restrict, NewID, OwnResolution
  <1>5. CASE NoticeGone(c)
    BY <1>5, ResolutionTypes DEF TypeOK, NoticeGone, handlerVars, callVars, Without, Restrict, NewID, OwnResolution
  <1>6. CASE TakeWon(c)
    BY <1>6, ResolutionTypes DEF TypeOK, TakeWon, handlerVars, callVars, Without, Restrict, NewID, OwnResolution
  <1>7. CASE TakeLost(c)
    BY <1>7, ResolutionTypes DEF TypeOK, TakeLost, handlerVars, callVars, Without, Restrict, NewID, OwnResolution
  <1>8. CASE Apply(c)
    BY <1>8, ResolutionTypes DEF TypeOK, Apply, handlerVars, callVars, Without, Restrict, NewID, OwnResolution
  <1>9. CASE Disconnect(c)
    BY <1>9, ResolutionTypes DEF TypeOK, Disconnect, handlerVars, callVars, Without, Restrict, NewID, OwnResolution
  <1>. QED
    BY <1>1, <1>2, <1>3, <1>4, <1>5, <1>6, <1>7, <1>8, <1>9 DEF CallStep

LEMMA HandlerTypeOK ==
  ASSUME TypeOK, NEW h \in Handlers, HandlerStep(h)
  PROVE  TypeOK'
  <1>1. CASE View(h)
    BY <1>1, ResolutionTypes DEF TypeOK, View, handlerVars, callVars, Without, Restrict, Leave, TurnedOffIDs
  <1>2. CASE Pending(h)
    BY <1>2, ResolutionTypes DEF TypeOK, Pending, handlerVars, callVars, Without, Restrict, Leave, TurnedOffIDs
  <1>3. CASE InvalidEdit(h)
    BY <1>3, ResolutionTypes DEF TypeOK, InvalidEdit, handlerVars, callVars, Without, Restrict, Leave, TurnedOffIDs
  <1>4. CASE Resolve(h)
    <2>1. CASE id[seen[h]] \in DOMAIN items
      <3>1. /\ id[seen[h]] \in DOMAIN items /\ items' = Without({id[seen[h]]})
            /\ \E r \in UserResolutions : hres' = [hres EXCEPT ![h] = r]
            /\ owed' = [owed EXCEPT ![h] = {items[id[seen[h]]]}]
            /\ hpc' = [hpc EXCEPT ![h] = "resolving"]
            /\ UNCHANGED <<settings, nextID, ch, callVars, gone, told, seen>>
        BY <1>4, <2>1 DEF Resolve
      <3>2. items' \in [DOMAIN items' -> Calls] /\ DOMAIN items' \subseteq 1..nextID
        BY <3>1 DEF TypeOK, Without, Restrict
      <3>3. hres' \in [Handlers -> Resolutions] /\ owed' \in [Handlers -> SUBSET Calls]
        BY <3>1, ResolutionTypes DEF TypeOK
      <3>. QED
        BY <3>1, <3>2, <3>3 DEF TypeOK, callVars
    <2>2. CASE id[seen[h]] \notin DOMAIN items
      <3>1. /\ hpc' = [hpc EXCEPT ![h] = "idle"] /\ seen' = [seen EXCEPT ![h] = NoCall]
            /\ hres' = [hres EXCEPT ![h] = TurnedOff]
            /\ UNCHANGED <<settings, nextID, items, ch, callVars, gone, told, owed>>
        BY <1>4, <2>2 DEF Resolve, Leave
      <3>. QED
        BY <3>1, ResolutionTypes DEF TypeOK, callVars
    <2>. QED
      BY <2>1, <2>2
  <1>5. CASE SetSettings(h)
    BY <1>5, ResolutionTypes DEF TypeOK, SetSettings, handlerVars, callVars, Without, Restrict, Leave, TurnedOffIDs
  <1>6. CASE Send(h)
    BY <1>6, ResolutionTypes DEF TypeOK, Send, handlerVars, callVars, Without, Restrict, Leave, TurnedOffIDs
  <1>7. CASE Answer(h)
    BY <1>7, ResolutionTypes DEF TypeOK, Answer, handlerVars, callVars, Without, Restrict, Leave, TurnedOffIDs
  <1>. QED
    BY <1>1, <1>2, <1>3, <1>4, <1>5, <1>6, <1>7 DEF HandlerStep

\* Every variable keeps its type: the map only ever holds calls, under ids
\* that have been given out.
THEOREM TypeCorrect == Spec => []TypeOK
  <1>1. TypeOK /\ [Next]_vars => TypeOK'
    BY CallTypeOK, HandlerTypeOK
    DEF Next, vars, callVars, handlerVars, TypeOK
  <1>. QED
    BY InitTypeOK, <1>1, PTL DEF Spec

LEMMA CallInv ==
  ASSUME Inv, NEW c \in Calls, CallStep(c)
  PROVE  Inv'
  <1>. USE DEF TypeOK, callVars, handlerVars
  <1>t. TypeOK'
    BY CallTypeOK DEF Inv
  <1>1. CASE Bypass(c)
    <2>1. IdsMatch'
      BY <1>1, <1>t DEF Inv, IdsMatch, Bypass
    <2>2. ExactlyOneOwner'
      BY <1>1, <1>t DEF Inv, ExactlyOneOwner, Waiting, Owners, InMap, Bypass
    <2>3. CallsAt'
      BY <1>1, <1>t DEF Inv, CallsAt, InMap, Bypass
    <2>4. HandlersAt'
      BY <1>1, <1>t DEF Inv, HandlersAt, Delivered, Bypass
    <2>5. HeldOnlyWhileOn'
      BY <1>1, <1>t DEF Inv, HeldOnlyWhileOn, Bypass
    <2>6. AckedIsDelivered'
      BY <1>1, <1>t DEF Inv, AckedIsDelivered, Delivered, Bypass
    <2>. QED
      BY <1>t, <2>1, <2>2, <2>3, <2>4, <2>5, <2>6 DEF Inv
  <1>2. CASE Enqueue(c)
    <2>1. IdsMatch'
      BY <1>2, <1>t DEF Inv, IdsMatch, Enqueue, NewID
    <2>2. ExactlyOneOwner'
      BY <1>2, <1>t DEF Inv, ExactlyOneOwner, Waiting, Owners, InMap, Enqueue, NewID
    <2>3. CallsAt'
      BY <1>2, <1>t DEF Inv, CallsAt, InMap, Enqueue, NewID
    <2>4. HandlersAt'
      BY <1>2, <1>t DEF Inv, HandlersAt, Delivered, Enqueue, NewID
    <2>5. HeldOnlyWhileOn'
      BY <1>2, <1>t DEF Inv, HeldOnlyWhileOn, Enqueue, NewID
    <2>6. AckedIsDelivered'
      BY <1>2, <1>t DEF Inv, AckedIsDelivered, Delivered, Enqueue, NewID
    <2>. QED
      BY <1>t, <2>1, <2>2, <2>3, <2>4, <2>5, <2>6 DEF Inv
  <1>3. CASE Receive(c)
    <2>0. ASSUME NEW d \in Calls, NEW r \in Resolutions, Delivered(d, r)
          PROVE  Delivered(d, r)'
      <3>1. CASE d = c
        BY <1>3, <2>0, <3>1 DEF Inv, CallsAt, Delivered, Receive
      <3>2. CASE d # c
        BY <1>3, <2>0, <3>2 DEF Inv, Delivered, Receive
      <3>. QED
        BY <3>1, <3>2
    <2>1. IdsMatch'
      BY <1>3, <1>t DEF Inv, IdsMatch, Receive
    <2>2. ExactlyOneOwner'
      BY <1>3, <1>t DEF Inv, ExactlyOneOwner, Waiting, Owners, InMap, Receive
    <2>3. CallsAt'
      BY <1>3, <1>t DEF Inv, CallsAt, InMap, Receive
    <2>4. HandlersAt'
      BY <1>3, <1>t, <2>0 DEF Inv, HandlersAt, Receive
    <2>5. HeldOnlyWhileOn'
      BY <1>3, <1>t DEF Inv, HeldOnlyWhileOn, Receive
    <2>6. AckedIsDelivered'
      BY <1>3, <1>t, <2>0 DEF Inv, AckedIsDelivered, Receive
    <2>. QED
      BY <1>t, <2>1, <2>2, <2>3, <2>4, <2>5, <2>6 DEF Inv
  <1>4. CASE TimerFires(c)
    <2>1. IdsMatch'
      BY <1>4, <1>t DEF Inv, IdsMatch, TimerFires
    <2>2. ExactlyOneOwner'
      BY <1>4, <1>t DEF Inv, ExactlyOneOwner, Waiting, Owners, InMap, TimerFires
    <2>3. CallsAt'
      BY <1>4, <1>t DEF Inv, CallsAt, InMap, TimerFires
    <2>4. HandlersAt'
      BY <1>4, <1>t DEF Inv, HandlersAt, Delivered, TimerFires
    <2>5. HeldOnlyWhileOn'
      BY <1>4, <1>t DEF Inv, HeldOnlyWhileOn, TimerFires
    <2>6. AckedIsDelivered'
      BY <1>4, <1>t DEF Inv, AckedIsDelivered, Delivered, TimerFires
    <2>. QED
      BY <1>t, <2>1, <2>2, <2>3, <2>4, <2>5, <2>6 DEF Inv
  <1>5. CASE NoticeGone(c)
    <2>1. IdsMatch'
      BY <1>5, <1>t DEF Inv, IdsMatch, NoticeGone
    <2>2. ExactlyOneOwner'
      BY <1>5, <1>t DEF Inv, ExactlyOneOwner, Waiting, Owners, InMap, NoticeGone
    <2>3. CallsAt'
      BY <1>5, <1>t DEF Inv, CallsAt, InMap, NoticeGone
    <2>4. HandlersAt'
      BY <1>5, <1>t DEF Inv, HandlersAt, Delivered, NoticeGone
    <2>5. HeldOnlyWhileOn'
      BY <1>5, <1>t DEF Inv, HeldOnlyWhileOn, NoticeGone
    <2>6. AckedIsDelivered'
      BY <1>5, <1>t DEF Inv, AckedIsDelivered, Delivered, NoticeGone
    <2>. QED
      BY <1>t, <2>1, <2>2, <2>3, <2>4, <2>5, <2>6 DEF Inv
  <1>6. CASE TakeWon(c)
    <2>0. ASSUME NEW d \in Calls, NEW r \in Resolutions, Delivered(d, r)
          PROVE  Delivered(d, r)'
      <3>1. CASE d = c
        BY <1>6, <2>0, <3>1 DEF Inv, CallsAt, Delivered, TakeWon, ExactlyOneOwner
      <3>2. CASE d # c
        BY <1>6, <2>0, <3>2 DEF Inv, Delivered, TakeWon
      <3>. QED
        BY <3>1, <3>2
    <2>a. /\ UNCHANGED <<settings, nextID, ch, id, owed>>
          /\ pc[c] \in {"expired", "gone"} /\ InMap(c)
          /\ pc' = [pc EXCEPT ![c] = "apply"]
          /\ got' = [got EXCEPT ![c] = {OwnResolution(c)}]
          /\ items' = Without({id[c]})
      BY <1>6 DEF TakeWon
    <2>b. /\ DOMAIN items' = DOMAIN items \ {id[c]}
          /\ \A i \in DOMAIN items' : items'[i] = items[i]
      BY <2>a DEF Without, Restrict
    <2>c. ~InMap(c)'
      BY <2>a, <2>b DEF InMap
    <2>d. \A d \in Calls : d # c => (InMap(d)' <=> InMap(d))
      BY <2>a, <2>b DEF InMap
    <2>e. \A d \in Calls : d # c => pc'[d] = pc[d] /\ got'[d] = got[d]
      BY <2>a DEF Inv
    <2>f. pc'[c] = "apply" /\ got'[c] = {OwnResolution(c)}
      BY <2>a DEF Inv
    <2>1. IdsMatch'
      BY <1>6, <1>t DEF Inv, IdsMatch, TakeWon, Without, Restrict, OwnResolution
    <2>2. ExactlyOneOwner'
      <3>. SUFFICES ASSUME NEW d \in Calls
                   PROVE  /\ InMap(d)' => Owners(d)' = {} /\ ch'[d] = {}
                          /\ \A g, k \in Owners(d)' : g = k
                          /\ Owners(d)' # {} => ch'[d] = {}
                          /\ Waiting(d)' <=> \/ InMap(d)' \/ Owners(d)' # {}
                                             \/ ch'[d] # {}
        BY DEF ExactlyOneOwner
      <3>o. /\ InMap(d) => Owners(d) = {} /\ ch[d] = {}
            /\ \A g, k \in Owners(d) : g = k
            /\ Owners(d) # {} => ch[d] = {}
            /\ Waiting(d) <=> InMap(d) \/ Owners(d) # {} \/ ch[d] # {}
        BY DEF Inv, ExactlyOneOwner
      <3>1. Owners(d)' = Owners(d) /\ ch'[d] = ch[d]
        BY <2>a DEF Owners
      <3>y. CASE d = c
        <4>1. ~Waiting(d)'
          BY <2>f, <3>y DEF Waiting
        <4>. QED
          BY <2>a, <2>c, <3>o, <3>1, <3>y, <4>1
      <3>n. CASE d # c
        <4>1. Waiting(d)' <=> Waiting(d)
          BY <2>e, <3>n DEF Waiting
        <4>. QED
          BY <2>d, <3>o, <3>1, <3>n, <4>1
      <3>. QED
        BY <3>y, <3>n
    <2>3. CallsAt'
      <3>1. OwnResolution(c) \in Resolutions
        BY ResolutionTypes DEF OwnResolution
      <3>2. ASSUME NEW d \in Calls, d # c
            PROVE  /\ pc'[d] = "apply" => \E r \in Resolutions : got'[d] = {r}
                   /\ pc'[d] # "apply" => got'[d] = {}
                   /\ pc'[d] = "receive" => ~InMap(d)'
        BY <2>d, <2>e, <3>2 DEF Inv, CallsAt
      <3>3. \A d \in Calls : ch'[d] = {} \/ \E r \in Resolutions : ch'[d] = {r}
        BY <2>a DEF Inv, CallsAt
      <3>4. \A d \in Calls : /\ pc'[d] = "expired" => TimeoutOn
                             /\ pc'[d] = "gone" => gone'[d]
        BY <1>6, <2>e, <2>f DEF Inv, CallsAt, TakeWon
      <3>. QED
        BY <2>f, <3>1, <3>2, <3>3, <3>4 DEF CallsAt
    <2>4. HandlersAt'
      BY <1>6, <1>t, <2>0 DEF Inv, HandlersAt, TakeWon
    <2>5. HeldOnlyWhileOn'
      BY <1>6, <1>t DEF Inv, HeldOnlyWhileOn, TakeWon, Without, Restrict, OwnResolution
    <2>6. AckedIsDelivered'
      BY <1>6, <1>t, <2>0 DEF Inv, AckedIsDelivered, TakeWon
    <2>. QED
      BY <1>t, <2>1, <2>2, <2>3, <2>4, <2>5, <2>6 DEF Inv
  <1>7. CASE TakeLost(c)
    <2>1. IdsMatch'
      BY <1>7, <1>t DEF Inv, IdsMatch, TakeLost
    <2>2. ExactlyOneOwner'
      BY <1>7, <1>t DEF Inv, ExactlyOneOwner, Waiting, Owners, InMap, TakeLost
    <2>3. CallsAt'
      BY <1>7, <1>t DEF Inv, CallsAt, InMap, TakeLost
    <2>4. HandlersAt'
      BY <1>7, <1>t DEF Inv, HandlersAt, Delivered, TakeLost
    <2>5. HeldOnlyWhileOn'
      BY <1>7, <1>t DEF Inv, HeldOnlyWhileOn, TakeLost
    <2>6. AckedIsDelivered'
      BY <1>7, <1>t DEF Inv, AckedIsDelivered, Delivered, TakeLost
    <2>. QED
      BY <1>t, <2>1, <2>2, <2>3, <2>4, <2>5, <2>6 DEF Inv
  <1>8. CASE Apply(c)
    <2>0. ASSUME NEW d \in Calls, NEW r \in Resolutions, Delivered(d, r)
          PROVE  Delivered(d, r)'
      <3>1. CASE d = c
        BY <1>8, <2>0, <3>1 DEF Inv, CallsAt, Delivered, Apply
      <3>2. CASE d # c
        BY <1>8, <2>0, <3>2 DEF Inv, Delivered, Apply
      <3>. QED
        BY <3>1, <3>2
    <2>1. IdsMatch'
      BY <1>8, <1>t DEF Inv, IdsMatch, Apply
    <2>2. ExactlyOneOwner'
      BY <1>8, <1>t DEF Inv, ExactlyOneOwner, Waiting, Owners, InMap, Apply
    <2>3. CallsAt'
      BY <1>8, <1>t DEF Inv, CallsAt, InMap, Apply
    <2>4. HandlersAt'
      BY <1>8, <1>t, <2>0 DEF Inv, HandlersAt, Apply
    <2>5. HeldOnlyWhileOn'
      BY <1>8, <1>t DEF Inv, HeldOnlyWhileOn, Apply
    <2>6. AckedIsDelivered'
      BY <1>8, <1>t, <2>0 DEF Inv, AckedIsDelivered, Apply
    <2>. QED
      BY <1>t, <2>1, <2>2, <2>3, <2>4, <2>5, <2>6 DEF Inv
  <1>9. CASE Disconnect(c)
    <2>1. IdsMatch'
      BY <1>9, <1>t DEF Inv, IdsMatch, Disconnect
    <2>2. ExactlyOneOwner'
      BY <1>9, <1>t DEF Inv, ExactlyOneOwner, Waiting, Owners, InMap, Disconnect
    <2>3. CallsAt'
      BY <1>9, <1>t DEF Inv, CallsAt, InMap, Disconnect
    <2>4. HandlersAt'
      BY <1>9, <1>t DEF Inv, HandlersAt, Delivered, Disconnect
    <2>5. HeldOnlyWhileOn'
      BY <1>9, <1>t DEF Inv, HeldOnlyWhileOn, Disconnect
    <2>6. AckedIsDelivered'
      BY <1>9, <1>t DEF Inv, AckedIsDelivered, Delivered, Disconnect
    <2>. QED
      BY <1>t, <2>1, <2>2, <2>3, <2>4, <2>5, <2>6 DEF Inv
  <1>. QED
    BY <1>1, <1>2, <1>3, <1>4, <1>5, <1>6, <1>7, <1>8, <1>9 DEF CallStep


LEMMA HandlerInv ==
  ASSUME Inv, NEW h \in Handlers, HandlerStep(h)
  PROVE  Inv'
  <1>. USE DEF TypeOK, callVars, handlerVars
  <1>t. TypeOK'
    BY HandlerTypeOK DEF Inv
  <1>1. CASE View(h)
    <2>1. IdsMatch'
      BY <1>1, <1>t DEF Inv, IdsMatch, View
    <2>2. ExactlyOneOwner'
      BY <1>1, <1>t DEF Inv, ExactlyOneOwner, Waiting, Owners, InMap, View
    <2>3. CallsAt'
      BY <1>1, <1>t DEF Inv, CallsAt, InMap, View
    <2>4. HandlersAt'
      <3>1. PICK i \in DOMAIN items : seen' = [seen EXCEPT ![h] = items[i]]
        BY <1>1 DEF View
      <3>2. items[i] \in Calls /\ id[items[i]] # 0
        BY <3>1 DEF Inv, IdsMatch
      <3>. QED
        BY <1>1, <1>t, <3>1, <3>2 DEF Inv, HandlersAt, Delivered, View
    <2>5. HeldOnlyWhileOn'
      BY <1>1, <1>t DEF Inv, HeldOnlyWhileOn, View
    <2>6. AckedIsDelivered'
      BY <1>1, <1>t DEF Inv, AckedIsDelivered, Delivered, View
    <2>. QED
      BY <1>t, <2>1, <2>2, <2>3, <2>4, <2>5, <2>6 DEF Inv
  <1>2. CASE Pending(h)
    <2>1. IdsMatch'
      BY <1>2, <1>t DEF Inv, IdsMatch, Pending, Leave
    <2>2. ExactlyOneOwner'
      BY <1>2, <1>t DEF Inv, ExactlyOneOwner, Waiting, Owners, InMap, Pending, Leave
    <2>3. CallsAt'
      BY <1>2, <1>t DEF Inv, CallsAt, InMap, Pending, Leave
    <2>4. HandlersAt'
      BY <1>2, <1>t DEF Inv, HandlersAt, Delivered, Pending, Leave
    <2>5. HeldOnlyWhileOn'
      BY <1>2, <1>t DEF Inv, HeldOnlyWhileOn, Pending, Leave
    <2>6. AckedIsDelivered'
      BY <1>2, <1>t DEF Inv, AckedIsDelivered, Delivered, Pending, Leave
    <2>. QED
      BY <1>t, <2>1, <2>2, <2>3, <2>4, <2>5, <2>6 DEF Inv
  <1>3. CASE InvalidEdit(h)
    <2>1. IdsMatch'
      BY <1>3, <1>t DEF Inv, IdsMatch, InvalidEdit, Leave
    <2>2. ExactlyOneOwner'
      BY <1>3, <1>t DEF Inv, ExactlyOneOwner, Waiting, Owners, InMap, InvalidEdit, Leave
    <2>3. CallsAt'
      BY <1>3, <1>t DEF Inv, CallsAt, InMap, InvalidEdit, Leave
    <2>4. HandlersAt'
      BY <1>3, <1>t DEF Inv, HandlersAt, Delivered, InvalidEdit, Leave
    <2>5. HeldOnlyWhileOn'
      BY <1>3, <1>t DEF Inv, HeldOnlyWhileOn, InvalidEdit, Leave
    <2>6. AckedIsDelivered'
      BY <1>3, <1>t DEF Inv, AckedIsDelivered, Delivered, InvalidEdit, Leave
    <2>. QED
      BY <1>t, <2>1, <2>2, <2>3, <2>4, <2>5, <2>6 DEF Inv
  <1>4. CASE Resolve(h)
    <2>0. /\ seen[h] \in Calls
          /\ id[seen[h]] \in DOMAIN items => items[id[seen[h]]] = seen[h]
      BY <1>4 DEF Inv, HandlersAt, IdsMatch, Resolve
    <2>1. IdsMatch'
      BY <1>4, <1>t DEF Inv, IdsMatch, Resolve, Without, Restrict, Leave
    <2>2. ExactlyOneOwner'
      <3>1. CASE id[seen[h]] \notin DOMAIN items
        BY <1>4, <3>1 DEF Inv, ExactlyOneOwner, Waiting, Owners, InMap, Resolve
      <3>2. CASE id[seen[h]] \in DOMAIN items
        <4>1. \A d \in Calls : InMap(d)' <=> InMap(d) /\ d # seen[h]
          BY <1>4, <2>0, <3>2 DEF Inv, IdsMatch, InMap, Resolve, Without, Restrict
        <4>2. \A d \in Calls :
                Owners(d)' = IF d = seen[h] THEN Owners(d) \cup {h} ELSE Owners(d)
          BY <1>4, <2>0, <3>2 DEF Inv, HandlersAt, Owners, Resolve
        <4>3. InMap(seen[h])
          BY <2>0, <3>2 DEF InMap
        <4>4. ch' = ch /\ pc' = pc
          BY <1>4 DEF Resolve
        <4>. SUFFICES ASSUME NEW d \in Calls
                     PROVE  /\ InMap(d)' => Owners(d)' = {} /\ ch'[d] = {}
                            /\ \A g, k \in Owners(d)' : g = k
                            /\ Owners(d)' # {} => ch'[d] = {}
                            /\ Waiting(d)' <=> \/ InMap(d)' \/ Owners(d)' # {}
                                               \/ ch'[d] # {}
          BY DEF ExactlyOneOwner
        <4>o. /\ InMap(d) => Owners(d) = {} /\ ch[d] = {}
              /\ \A g, k \in Owners(d) : g = k
              /\ Owners(d) # {} => ch[d] = {}
              /\ Waiting(d) <=> InMap(d) \/ Owners(d) # {} \/ ch[d] # {}
          BY DEF Inv, ExactlyOneOwner
        <4>w. Waiting(d)' <=> Waiting(d)
          BY <4>4 DEF Waiting
        <4>y. CASE d = seen[h]
          <5>1. InMap(d) /\ ~InMap(d)'
            BY <4>1, <4>3, <4>y
          <5>2. Owners(d) = {} /\ ch[d] = {}
            BY <4>o, <5>1
          <5>3. Owners(d)' = {h}
            BY <4>2, <5>2, <4>y
          <5>4. Waiting(d)'
            BY <5>1, <4>o, <4>w, Zenon
          <5>5. ch'[d] = {}
            BY <5>2, <4>4
          <5>. QED
            BY <5>1, <5>3, <5>4, <5>5
        <4>n. CASE d # seen[h]
          <5>1. InMap(d)' <=> InMap(d)
            BY <4>1, <4>n
          <5>2. Owners(d)' = Owners(d)
            BY <4>2, <4>n
          <5>3. ch'[d] = ch[d]
            BY <4>4, <4>n DEF Inv
          <5>. QED
            BY <5>1, <5>2, <5>3, <4>o, <4>w, Zenon
        <4>. QED
          BY <4>y, <4>n
      <3>. QED
        BY <3>1, <3>2
    <2>3. CallsAt'
      BY <1>4, <1>t DEF Inv, CallsAt, InMap, Resolve, Without, Restrict, Leave
    <2>4. HandlersAt'
      <3>1. \A d \in Calls, r \in Resolutions : Delivered(d, r)' = Delivered(d, r)
        BY <1>4 DEF Delivered, Resolve
      <3>. QED
        BY <1>4, <1>t, <2>0, <3>1 DEF Inv, HandlersAt, Resolve, Leave
    <2>5. HeldOnlyWhileOn'
      BY <1>4, <1>t DEF Inv, HeldOnlyWhileOn, Resolve, Without, Restrict, Leave
    <2>6. AckedIsDelivered'
      BY <1>4, <1>t DEF Inv, AckedIsDelivered, Delivered, Resolve, Without, Restrict, Leave
    <2>. QED
      BY <1>t, <2>1, <2>2, <2>3, <2>4, <2>5, <2>6 DEF Inv
  <1>5. CASE SetSettings(h)
    <2>1. IdsMatch'
      BY <1>5, <1>t DEF Inv, IdsMatch, SetSettings, Without, Restrict, TurnedOffIDs
    <2>2. ExactlyOneOwner'
      <3>1. PICK s \in [Groups -> BOOLEAN] :
              /\ items' = Without(TurnedOffIDs(s))
              /\ owed' = [owed EXCEPT ![h] = {items[i] : i \in TurnedOffIDs(s)}]
        BY <1>5 DEF SetSettings
      <3>. DEFINE Out == {items[i] : i \in TurnedOffIDs(s)}
      <3>2. TurnedOffIDs(s) \subseteq DOMAIN items
        BY DEF TurnedOffIDs
      <3>3. \A d \in Calls : d \in Out <=> InMap(d) /\ id[d] \in TurnedOffIDs(s)
        BY <3>2 DEF Inv, IdsMatch, InMap
      <3>4. id' = id /\ ch' = ch /\ pc' = pc /\ owed[h] = {}
        BY <1>5 DEF Inv, HandlersAt, SetSettings
      <3>5. \A d \in Calls : InMap(d)' <=> InMap(d) /\ d \notin Out
        BY <3>1, <3>2, <3>3, <3>4 DEF InMap, Without, Restrict
      <3>6. \A d \in Calls :
              Owners(d)' = IF d \in Out THEN Owners(d) \cup {h} ELSE Owners(d)
        BY <3>1, <3>4 DEF Inv, Owners
      <3>7. \A d \in Out : d \in Calls /\ InMap(d)
        <4>1. \A d \in Out : d \in Calls
          BY <3>2 DEF Inv
        <4>. QED
          BY <3>3, <4>1
      <3>. HIDE DEF Out
      <3>. SUFFICES ASSUME NEW d \in Calls
                   PROVE  /\ InMap(d)' => Owners(d)' = {} /\ ch'[d] = {}
                          /\ \A g, k \in Owners(d)' : g = k
                          /\ Owners(d)' # {} => ch'[d] = {}
                          /\ Waiting(d)' <=> \/ InMap(d)' \/ Owners(d)' # {}
                                             \/ ch'[d] # {}
        BY DEF ExactlyOneOwner
      <3>o. /\ InMap(d) => Owners(d) = {} /\ ch[d] = {}
            /\ \A g, k \in Owners(d) : g = k
            /\ Owners(d) # {} => ch[d] = {}
            /\ Waiting(d) <=> InMap(d) \/ Owners(d) # {} \/ ch[d] # {}
        BY DEF Inv, ExactlyOneOwner
      <3>w. Waiting(d)' <=> Waiting(d)
        BY <3>4 DEF Waiting
      <3>y. CASE d \in Out
        <4>1. InMap(d) /\ ~InMap(d)'
          BY <3>5, <3>7, <3>y
        <4>2. Owners(d) = {} /\ ch[d] = {}
          BY <3>o, <4>1
        <4>3. Owners(d)' = {h}
          BY <3>6, <4>2, <3>y
        <4>4. Waiting(d)'
          BY <4>1, <3>o, <3>w, Zenon
        <4>5. ch'[d] = {}
          BY <4>2, <3>4
        <4>. QED
          BY <4>1, <4>3, <4>4, <4>5
      <3>n. CASE d \notin Out
        <4>1. InMap(d)' <=> InMap(d)
          BY <3>5, <3>n
        <4>2. Owners(d)' = Owners(d)
          BY <3>6, <3>n
        <4>3. ch'[d] = ch[d]
          BY <3>4, <3>n DEF Inv
        <4>. QED
          BY <4>1, <4>2, <4>3, <3>o, <3>w, ZenonT(30)
      <3>. QED
        BY <3>y, <3>n
    <2>3. CallsAt'
      BY <1>5, <1>t DEF Inv, CallsAt, InMap, SetSettings, Without, Restrict, TurnedOffIDs
    <2>4. HandlersAt'
      BY <1>5, <1>t DEF Inv, HandlersAt, Delivered, SetSettings, Without, Restrict, TurnedOffIDs
    <2>5. HeldOnlyWhileOn'
      BY <1>5, <1>t DEF Inv, HeldOnlyWhileOn, SetSettings, Without, Restrict, TurnedOffIDs
    <2>6. AckedIsDelivered'
      BY <1>5, <1>t DEF Inv, AckedIsDelivered, Delivered, SetSettings, Without, Restrict, TurnedOffIDs
    <2>. QED
      BY <1>t, <2>1, <2>2, <2>3, <2>4, <2>5, <2>6 DEF Inv
  <1>6. CASE Send(h)
    <2>1. IdsMatch'
      BY <1>6, <1>t DEF Inv, IdsMatch, Send
    <2>2. ExactlyOneOwner'
      <3>1. PICK c \in owed[h] :
              /\ ch[c] = {}
              /\ ch' = [ch EXCEPT ![c] = {hres[h]}]
              /\ owed' = [owed EXCEPT ![h] = @ \ {c}]
        BY <1>6 DEF Send
      <3>2. c \in Calls
        BY <3>1 DEF Inv
      <3>3. \A d \in Calls : (InMap(d)' <=> InMap(d)) /\ pc'[d] = pc[d]
        BY <1>6 DEF InMap, Send
      <3>4. \A d \in Calls :
              Owners(d)' = IF d = c THEN Owners(d) \ {h} ELSE Owners(d)
        BY <3>1, <3>2 DEF Inv, Owners
      <3>5. Owners(c) = {h}
        BY <3>1, <3>2 DEF Inv, ExactlyOneOwner, Owners
      <3>. SUFFICES ASSUME NEW d \in Calls
                   PROVE  /\ InMap(d)' => Owners(d)' = {} /\ ch'[d] = {}
                          /\ \A g, k \in Owners(d)' : g = k
                          /\ Owners(d)' # {} => ch'[d] = {}
                          /\ Waiting(d)' <=> \/ InMap(d)' \/ Owners(d)' # {}
                                             \/ ch'[d] # {}
        BY DEF ExactlyOneOwner
      <3>o. /\ InMap(d) => Owners(d) = {} /\ ch[d] = {}
            /\ \A g, k \in Owners(d) : g = k
            /\ Owners(d) # {} => ch[d] = {}
            /\ Waiting(d) <=> InMap(d) \/ Owners(d) # {} \/ ch[d] # {}
        BY DEF Inv, ExactlyOneOwner
      <3>w. Waiting(d)' <=> Waiting(d)
        BY <3>3 DEF Waiting
      <3>y. CASE d = c
        <4>1. ch'[d] = {hres[h]} /\ ch'[d] # {}
          BY <3>1, <3>2, <3>y DEF Inv, TypeOK
        <4>2. Owners(d)' = {}
          BY <3>4, <3>5, <3>y
        <4>3. ~InMap(d)'
          BY <3>3, <3>5, <3>o, <3>y
        <4>4. Waiting(d)
          BY <3>5, <3>o, <3>y
        <4>. QED
          BY <4>1, <4>2, <4>3, <4>4, <3>w
      <3>n. CASE d # c
        <4>1. InMap(d)' <=> InMap(d)
          BY <3>3, <3>n
        <4>2. Owners(d)' = Owners(d)
          BY <3>4, <3>n
        <4>3. ch'[d] = ch[d]
          BY <3>1, <3>2, <3>n DEF Inv
        <4>. QED
          BY <4>1, <4>2, <4>3, <3>o, <3>w, ZenonT(30)
      <3>. QED
        BY <3>y, <3>n
    <2>3. CallsAt'
      <3>1. PICK c \in Calls : ch' = [ch EXCEPT ![c] = {hres[h]}]
        BY <1>6 DEF Inv, TypeOK, Send
      <3>2. hres[h] \in Resolutions
        BY DEF Inv, TypeOK
      <3>3. \A d \in Calls : (ch'[d] = {}) \/ (\E r \in Resolutions : ch'[d] = {r})
        BY <3>1, <3>2 DEF Inv, TypeOK, CallsAt
      <3>4. UNCHANGED <<pc, got, items, id, gone>>
        BY <1>6 DEF Send, callVars
      <3>. QED
        BY <3>3, <3>4 DEF Inv, CallsAt, InMap
    <2>4. HandlersAt'
      BY <1>6, <1>t DEF Inv, HandlersAt, Delivered, Send
    <2>5. HeldOnlyWhileOn'
      BY <1>6, <1>t DEF Inv, HeldOnlyWhileOn, Send
    <2>6. AckedIsDelivered'
      BY <1>6, <1>t DEF Inv, AckedIsDelivered, Delivered, Send
    <2>. QED
      BY <1>t, <2>1, <2>2, <2>3, <2>4, <2>5, <2>6 DEF Inv
  <1>7. CASE Answer(h)
    <2>1. IdsMatch'
      <3>1. \A d \in Calls : id[d] = 0 => told'[d] = told[d]
        BY <1>7 DEF Inv, HandlersAt, Answer
      <3>. QED
        BY <1>7, <1>t, <3>1 DEF Inv, IdsMatch, Answer, Leave
    <2>2. ExactlyOneOwner'
      BY <1>7, <1>t DEF Inv, ExactlyOneOwner, Waiting, Owners, InMap, Answer, Leave
    <2>3. CallsAt'
      BY <1>7, <1>t DEF Inv, CallsAt, InMap, Answer, Leave
    <2>4. HandlersAt'
      BY <1>7, <1>t DEF Inv, HandlersAt, Delivered, Answer, Leave
    <2>5. HeldOnlyWhileOn'
      BY <1>7, <1>t DEF Inv, HeldOnlyWhileOn, Answer, Leave
    <2>6. AckedIsDelivered'
      <3>1. ASSUME NEW d \in Calls, NEW r \in told'[d]
            PROVE  Delivered(d, r)
        <4>1. CASE r \in told[d]
          BY <4>1 DEF Inv, AckedIsDelivered
        <4>2. CASE r \notin told[d]
          <5>1. hpc[h] = "resolving" /\ d = seen[h] /\ r = hres[h]
            BY <1>7, <3>1, <4>2 DEF Inv, Answer
          <5>. QED
            BY <1>7, <5>1 DEF Inv, HandlersAt, Answer
        <4>. QED
          BY <4>1, <4>2
      <3>2. \A d \in Calls, r \in Resolutions : Delivered(d, r)' = Delivered(d, r)
        BY <1>7 DEF Delivered, Answer
      <3>. QED
        BY <1>t, <3>1, <3>2 DEF AckedIsDelivered
    <2>. QED
      BY <1>t, <2>1, <2>2, <2>3, <2>4, <2>5, <2>6 DEF Inv
  <1>. QED
    BY <1>1, <1>2, <1>3, <1>4, <1>5, <1>6, <1>7 DEF HandlerStep

LEMMA InitInv == Init => Inv
  <1>. SUFFICES ASSUME Init PROVE Inv
    OBVIOUS
  <1>1. TypeOK
    BY InitTypeOK
  <1>2. DOMAIN items = {}
    BY DEF Init
  <1>. QED
    BY <1>1, <1>2
    DEF Inv, Init, IdsMatch, ExactlyOneOwner, Waiting, Owners, InMap, CallsAt,
        HandlersAt, HeldOnlyWhileOn, AckedIsDelivered

LEMMA NextInv == Inv /\ [Next]_vars => Inv'
  <1>1. ASSUME Inv, Next
        PROVE  Inv'
    BY <1>1, CallInv, HandlerInv DEF Next
  <1>2. ASSUME Inv, UNCHANGED vars
        PROVE  Inv'
    <2>. USE <1>2 DEF vars, callVars, handlerVars, Inv
    <2>1. TypeOK' /\ IdsMatch'
      BY DEF TypeOK, IdsMatch
    <2>2. ExactlyOneOwner' /\ CallsAt'
      BY DEF ExactlyOneOwner, Waiting, Owners, InMap, CallsAt
    <2>3. HandlersAt' /\ AckedIsDelivered' /\ HeldOnlyWhileOn'
      BY DEF HandlersAt, AckedIsDelivered, Delivered, HeldOnlyWhileOn
    <2>. QED
      BY <2>1, <2>2, <2>3
  <1>. QED
    BY <1>1, <1>2

THEOREM Invariance == Spec => []Inv
  BY InitInv, NextInv, PTL DEF Spec

\* Whoever removes an item from the map under the mutex owns it: every held
\* message is resolved exactly once, and no sender ever finds the slot of the
\* channel taken (intercept.go:8-12).
THEOREM ResolvedOnce == Spec => []ExactlyOneOwner
  <1>1. Inv => ExactlyOneOwner
    BY DEF Inv
  <1>. QED
    BY <1>1, Invariance, PTL

\* No message is held at a pause point that is off: SetSettings releases what
\* is held and enqueue lets the rest pass (intercept.go:63-81, 127-129).
THEOREM NothingHeldWhileOff == Spec => []HeldOnlyWhileOn
  <1>1. Inv => HeldOnlyWhileOn
    BY DEF Inv
  <1>. QED
    BY <1>1, Invariance, PTL

\* A resolution the UI acknowledged is the one that reaches the message the
\* user was looking at, whatever raced with it (ui/intercept.go:98-104).
THEOREM AcknowledgedResolutionDelivered == Spec => []AckedIsDelivered
  <1>1. Inv => AckedIsDelivered
    BY DEF Inv
  <1>. QED
    BY <1>1, Invariance, PTL

-----------------------------------------------------------------------------
(* The queue implements its contract.                                      *)

\* The contract speaks of the same resolutions and outcomes.
LEMMA SameVocabulary ==
  /\ Contract!UserResolutions = UserResolutions
  /\ Contract!AutoForward = AutoForward
  /\ Contract!ContextDone = ContextDone
  /\ Contract!TurnedOff = TurnedOff
  /\ Contract!PassThrough = PassThrough
  /\ \A c, r : /\ Contract!OutcomeOf(c, r) = OutcomeOf(c, r)
              /\ Contract!MessageAfter(c, r) = MessageAfter(c, r)
  BY DEF UserResolutions, Forward, Drop, Edits, AutoForward, ContextDone,
         TurnedOff, PassThrough, OutcomeOf, MessageAfter, IsEdit,
         Contract!UserResolutions, Contract!Forward, Contract!Drop,
         Contract!Edits, Contract!AutoForward, Contract!ContextDone,
         Contract!TurnedOff, Contract!PassThrough, Contract!OutcomeOf,
         Contract!MessageAfter, Contract!IsEdit

\* What the contract does not see.
LEMMA Stutter ==
  ASSUME UNCHANGED <<settings, outcome, message, gone>>,
         \A c \in Calls : Status(c)' = Status(c) /\ Decision(c)' = Decision(c)
  PROVE  UNCHANGED Contract!vars
  BY DEF Contract!vars

\* An item that leaves the map with its one resolution.
LEMMA DecideStep ==
  ASSUME Inv, NEW c \in Calls, NEW r \in Contract!Deciding(c),
         Status(c) = "held", Status(c)' = "decided", Decision(c)' = {r},
         UNCHANGED <<settings, outcome, message, gone>>,
         \A d \in Calls \ {c} :
           Status(d)' = Status(d) /\ Decision(d)' = Decision(d)
  PROVE  Contract!Next
  <1>1. Contract!Decide(c)
    BY DEF Contract!Decide
  <1>. QED
    BY <1>1 DEF Contract!Next

LEMMA CallRefines ==
  ASSUME Inv, Inv', NEW c \in Calls, CallStep(c)
  PROVE  [Contract!Next]_Contract!vars
  <1>. USE DEF callVars, handlerVars
  <1>1. CASE Bypass(c)
    <2>1. \A d \in Calls : Decision(d)' = Decision(d)
      BY <1>1 DEF Bypass, Decision, Owners
    <2>2. \A d \in Calls : Status(d)' = IF d = c THEN "returned" ELSE Status(d)
      BY <1>1 DEF Bypass, Status, InMap, Inv, TypeOK
    <2>3. Status(c) = "idle"
      BY <1>1 DEF Bypass, Status
    <2>4. Contract!Pass(c)
      BY <1>1, <2>1, <2>2, <2>3 DEF Contract!Pass, Bypass
    <2>. QED
      BY <2>4 DEF Contract!Next
  <1>2. CASE Enqueue(c)
    <2>1. \A d \in Calls : Decision(d)' = Decision(d)
      BY <1>2 DEF Enqueue, Decision, Owners
    <2>2. \A d \in Calls : Status(d)' = IF d = c THEN "held" ELSE Status(d)
      BY <1>2 DEF Enqueue, NewID, Status, InMap, Inv, TypeOK, IdsMatch
    <2>3. Status(c) = "idle"
      BY <1>2 DEF Enqueue, Status
    <2>4. Contract!Hold(c)
      BY <1>2, <2>1, <2>2, <2>3 DEF Contract!Hold, Enqueue
    <2>. QED
      BY <2>4 DEF Contract!Next
  <1>3. CASE Receive(c)
    <2>1. \A d \in Calls : Decision(d)' = Decision(d)
      BY <1>3 DEF Receive, Decision, Owners, Inv, TypeOK, CallsAt
    <2>2. \A d \in Calls : Status(d)' = Status(d)
      BY <1>3 DEF Receive, Status, InMap, Inv, TypeOK
    <2>. QED
      BY <1>3, <2>1, <2>2, Stutter DEF Receive
  <1>4. CASE TimerFires(c) \/ NoticeGone(c) \/ TakeLost(c)
    <2>1. \A d \in Calls : Decision(d)' = Decision(d)
      BY <1>4 DEF TimerFires, NoticeGone, TakeLost, Decision, Owners
    <2>2. \A d \in Calls : Status(d)' = Status(d)
      BY <1>4 DEF TimerFires, NoticeGone, TakeLost, Status, InMap, Inv, TypeOK
    <2>. QED
      BY <1>4, <2>1, <2>2, Stutter DEF TimerFires, NoticeGone, TakeLost
  <1>7. CASE Disconnect(c)
    <2>1. \A d \in Calls : Decision(d)' = Decision(d) /\ Status(d)' = Status(d)
      BY <1>7 DEF Disconnect, Decision, Owners, Status, InMap
    <2>2. Contract!Cancel(c)
      BY <1>7, <2>1 DEF Disconnect, Contract!Cancel
    <2>. QED
      BY <2>2 DEF Contract!Next
  <1>5. CASE TakeWon(c)
    <2>1. OwnResolution(c) \in Contract!Deciding(c)
      BY <1>5, SameVocabulary
      DEF OwnResolution, Contract!Deciding, Contract!OwnDeciding, TakeWon, Inv, CallsAt
    <2>2. Decision(c)' = {OwnResolution(c)}
      BY <1>5
      DEF TakeWon, Decision, Owners, Inv, ExactlyOneOwner, TypeOK
    <2>3. Status(c) = "held" /\ Status(c)' = "decided"
      BY <1>5 DEF TakeWon, Status, InMap, Without, Restrict, Inv, TypeOK
    <2>4. \A d \in Calls \ {c} :
            Status(d)' = Status(d) /\ Decision(d)' = Decision(d)
      BY <1>5
      DEF TakeWon, Status, InMap, Without, Restrict, Decision, Owners, Inv,
          TypeOK, IdsMatch
    <2>5. UNCHANGED <<settings, outcome, message, gone>>
      BY <1>5 DEF TakeWon
    <2>. QED
      BY <2>1, <2>2, <2>3, <2>4, <2>5, DecideStep
  <1>6. CASE Apply(c)
    <2>1. PICK r \in Resolutions : got[c] = {r}
      BY <1>6 DEF Apply, Inv, CallsAt
    <2>2. Decision(c) = {r} /\ Decision(c)' = {}
      BY <1>6, <2>1
      DEF Apply, Decision, Owners, Inv, TypeOK, ExactlyOneOwner, Waiting
    <2>3. Status(c) = "decided" /\ Status(c)' = "returned"
      BY <1>6 DEF Apply, Status, InMap, Inv, TypeOK, ExactlyOneOwner, Waiting
    <2>4. \A d \in Calls \ {c} :
            Status(d)' = Status(d) /\ Decision(d)' = Decision(d)
      BY <1>6 DEF Apply, Status, InMap, Decision, Owners, Inv, TypeOK
    <2>5. Contract!Return(c)
      BY <1>6, <2>1, <2>2, <2>3, <2>4, SameVocabulary
      DEF Contract!Return, Apply
    <2>. QED
      BY <2>5 DEF Contract!Next
  <1>. QED
    BY <1>1, <1>2, <1>3, <1>4, <1>5, <1>6, <1>7 DEF CallStep

LEMMA HandlerRefines ==
  ASSUME Inv, Inv', NEW h \in Handlers, HandlerStep(h)
  PROVE  [Contract!Next]_Contract!vars
  <1>. USE DEF callVars, handlerVars
  <1>1. CASE View(h) \/ Pending(h) \/ InvalidEdit(h) \/ Answer(h)
    <2>1. \A d \in Calls : Owners(d)' = Owners(d) /\ (d \in owed[h] => FALSE)
      BY <1>1
      DEF View, Pending, InvalidEdit, Answer, Owners, Inv, HandlersAt
    <2>2. \A d \in Calls : Decision(d)' = Decision(d)
      BY <1>1, <2>1
      DEF View, Pending, InvalidEdit, Answer, Leave, Decision, Owners, Inv, TypeOK
    <2>3. \A d \in Calls : Status(d)' = Status(d)
      BY <1>1 DEF View, Pending, InvalidEdit, Answer, Status, InMap
    <2>. QED
      BY <1>1, <2>2, <2>3, Stutter DEF View, Pending, InvalidEdit, Answer
  <1>2. CASE Resolve(h)
    <2>1. PICK c \in Calls :
            /\ c = seen[h] /\ owed[h] = {}
            /\ id[c] \in DOMAIN items => items[id[c]] = c
      BY <1>2 DEF Inv, TypeOK, HandlersAt, IdsMatch, Resolve
    <2>2. CASE id[c] \notin DOMAIN items
      <3>1. \A d \in Calls : Decision(d)' = Decision(d)
        BY <1>2, <2>1, <2>2 DEF Resolve, Leave, Decision, Owners, Inv, TypeOK
      <3>2. \A d \in Calls : Status(d)' = Status(d)
        BY <1>2, <2>1, <2>2 DEF Resolve, Status, InMap
      <3>. QED
        BY <1>2, <3>1, <3>2, Stutter DEF Resolve
    <2>3. CASE id[c] \in DOMAIN items
      <3>1. PICK r \in UserResolutions : hres' = [hres EXCEPT ![h] = r]
        BY <1>2, <2>1, <2>3 DEF Resolve
      <3>2. /\ owed' = [owed EXCEPT ![h] = {c}]
            /\ items' = Without({id[c]})
        BY <1>2, <2>1, <2>3 DEF Resolve
      <3>3. UNCHANGED <<settings, outcome, message, gone, id, pc, ch, got>>
        BY <1>2 DEF Resolve
      <3>4. InMap(c) /\ ch[c] = {} /\ got[c] = {} /\ Waiting(c)
        BY <2>1, <2>3 DEF InMap, Inv, ExactlyOneOwner, CallsAt, Waiting
      <3>5. Owners(c)' = {h}
        BY <2>1, <3>2, <3>4 DEF Owners, Inv, TypeOK, ExactlyOneOwner
      <3>6. Decision(c)' = {r}
        BY <3>1, <3>3, <3>4, <3>5 DEF Decision, Inv, TypeOK
      <3>7. Status(c) = "held" /\ Status(c)' = "decided"
        BY <3>2, <3>3, <3>4
        DEF Status, InMap, Waiting, Without, Restrict, Inv, TypeOK
      <3>8. ASSUME NEW d \in Calls \ {c}
            PROVE  Status(d)' = Status(d) /\ Decision(d)' = Decision(d)
        <4>1. InMap(d)' <=> InMap(d)
          BY <2>1, <3>2, <3>3, <2>3 DEF InMap, Without, Restrict, Inv, TypeOK
        <4>2. Owners(d)' = Owners(d) /\ h \notin Owners(d)
          BY <2>1, <3>2 DEF Owners, Inv, TypeOK
        <4>. QED
          BY <3>1, <3>3, <4>1, <4>2 DEF Status, Decision, Inv, TypeOK, Owners
      <3>9. r \in Contract!Deciding(c)
        BY SameVocabulary DEF Contract!Deciding
      <3>. QED
        BY <2>1, <3>3, <3>6, <3>7, <3>8, <3>9, DecideStep
    <2>. QED
      BY <2>2, <2>3
  <1>3. CASE SetSettings(h)
    <2>1. PICK s \in [Groups -> BOOLEAN] :
            /\ settings' = s
            /\ items' = Without(TurnedOffIDs(s))
            /\ owed' = [owed EXCEPT ![h] = {items[i] : i \in TurnedOffIDs(s)}]
      BY <1>3 DEF SetSettings
    <2>2. /\ UNCHANGED <<outcome, message, gone, id, pc, ch, got>>
          /\ owed[h] = {}
          /\ hres' = [hres EXCEPT ![h] = TurnedOff]
      BY <1>3 DEF SetSettings, Inv, HandlersAt
    <2>. DEFINE R == Contract!Released(s)
    <2>3. \A d \in Calls : d \in R <=> InMap(d) /\ id[d] \in TurnedOffIDs(s)
      <3>1. \A d \in Calls : Status(d) = "held" <=> InMap(d)
        BY DEF Status, Inv, TypeOK, ExactlyOneOwner, Waiting
      <3>. QED
        BY <3>1 DEF Contract!Released, TurnedOffIDs, InMap
    <2>4. \A d \in Calls : d \in R <=> d \in {items[i] : i \in TurnedOffIDs(s)}
      <3>1. TurnedOffIDs(s) \subseteq DOMAIN items
        BY DEF TurnedOffIDs
      <3>. QED
        BY <2>3, <3>1 DEF InMap, Inv, IdsMatch, TypeOK
    <2>5. \A d \in Calls : InMap(d)' <=> InMap(d) /\ d \notin R
      BY <2>1, <2>2, <2>3 DEF InMap, Without, Restrict, TurnedOffIDs
    <2>6. \A d \in Calls :
            Status(d)' = IF d \in R THEN "decided" ELSE Status(d)
      <3>1. \A d \in R : InMap(d) /\ Waiting(d)
        BY <2>3 DEF Contract!Released, Inv, ExactlyOneOwner
      <3>. QED
        BY <2>2, <2>5, <3>1 DEF Status, Waiting
    <2>7. \A d \in Calls :
            Decision(d)' = IF d \in R THEN {TurnedOff} ELSE Decision(d)
      <3>1. ASSUME NEW d \in R
            PROVE  Decision(d)' = {TurnedOff}
        <4>1. d \in Calls /\ InMap(d)
          BY <2>3 DEF Contract!Released
        <4>2. ch[d] = {} /\ got[d] = {} /\ Owners(d) = {}
          BY <4>1 DEF Inv, ExactlyOneOwner, CallsAt, Waiting
        <4>3. Owners(d)' = {h}
          BY <2>1, <2>4, <4>1, <4>2 DEF Owners, Inv, TypeOK
        <4>. QED
          BY <2>2, <4>2, <4>3 DEF Decision, Inv, TypeOK
      <3>2. ASSUME NEW d \in Calls, d \notin R
            PROVE  Decision(d)' = Decision(d)
        <4>1. Owners(d)' = Owners(d) /\ h \notin Owners(d)
          BY <2>1, <2>2, <2>4, <3>2 DEF Owners, Inv, TypeOK
        <4>. QED
          BY <2>2, <4>1 DEF Decision, Owners, Inv, TypeOK
      <3>. QED
        BY <3>1, <3>2
    <2>8. Contract!Switch(s)
      BY <2>1, <2>2, <2>6, <2>7, SameVocabulary DEF Contract!Switch
    <2>. QED
      BY <2>8 DEF Contract!Next
  <1>4. CASE Send(h)
    <2>1. PICK c \in owed[h] :
            /\ ch[c] = {}
            /\ ch' = [ch EXCEPT ![c] = {hres[h]}]
            /\ owed' = [owed EXCEPT ![h] = @ \ {c}]
      BY <1>4 DEF Send
    <2>2. c \in Calls /\ Owners(c) = {h}
      BY <2>1 DEF Inv, TypeOK, ExactlyOneOwner, Owners
    <2>3. UNCHANGED <<settings, outcome, message, gone, id, pc, items, got, hres>>
      BY <1>4 DEF Send
    <2>4. \A d \in Calls : Status(d)' = Status(d)
      BY <2>3 DEF Status, InMap
    <2>5. Decision(c)' = Decision(c)
      <3>1. Owners(c)' = {}
        BY <2>1, <2>2 DEF Owners, Inv, TypeOK
      <3>. QED
        BY <2>1, <2>2, <2>3, <3>1 DEF Decision, Inv, TypeOK
    <2>6. \A d \in Calls \ {c} : Decision(d)' = Decision(d)
      BY <2>1, <2>3 DEF Decision, Owners, Inv, TypeOK
    <2>. QED
      BY <2>3, <2>4, <2>5, <2>6, Stutter
  <1>. QED
    BY <1>1, <1>2, <1>3, <1>4 DEF HandlerStep

\* For every number of calls and handlers, with a timeout or without: each
\* step of the queue, of its callers and of the UI is one step of the
\* contract or none.
THEOREM QueueImplementsContract == Spec => ImplementsContract
  <1>1. Init => Contract!Init
    BY SameVocabulary DEF Init, Contract!Init, Status, Decision, Owners
  <1>2. Inv /\ Inv' /\ [Next]_vars => [Contract!Next]_Contract!vars
    <2>1. ASSUME Inv, Inv', Next
          PROVE  [Contract!Next]_Contract!vars
      BY <2>1, CallRefines, HandlerRefines DEF Next
    <2>2. ASSUME UNCHANGED vars
          PROVE  UNCHANGED Contract!vars
      BY <2>2, Stutter
      DEF vars, callVars, handlerVars, Status, InMap, Decision, Owners
    <2>. QED
      BY <2>1, <2>2
  <1>. QED
    BY <1>1, <1>2, Invariance, PTL DEF Spec, ImplementsContract, Contract!Spec

=============================================================================
