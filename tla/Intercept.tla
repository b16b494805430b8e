------------------------------- MODULE Intercept -------------------------------
(***************************************************************************)
(* The intercept queue (internal/intercept/intercept.go) together with the *)
(* UI handlers that resolve its items (internal/ui/intercept.go).          *)
(*                                                                         *)
(* A call is one HoldRequest or HoldResponse, running on the goroutine of  *)
(* its exchange.  The grain is the code's: a section under Manager.mu is   *)
(* one step, and so is each channel operation.  What the code separates    *)
(* stays apart: an item leaves the map under the mutex, and its resolution *)
(* is sent after the mutex is released; a timer or a cancelled context     *)
(* wins the select first and asks for the item afterwards.                 *)
(***************************************************************************)
EXTENDS HoldTypes, Naturals, FiniteSets, Functions

CONSTANTS Handlers,  \* UI handler goroutines (and main's last SetSettings)
          NoCall     \* what a handler is about when it is about no item

\* The queue does the same whatever its groups are and whatever a cancelled context means;
\* internal/intercept has the groups "request" and "response", and GoneDrops.
ASSUME InterceptAssumption == NoCall \notin Calls

VARIABLES settings,  \* Manager.settings
          nextID,    \* Manager.nextID
          items,     \* Manager.items: the item (its call) held under each id
          id,        \* it.sum.ID of each call, 0 before it is enqueued
          ch,        \* it.ch, capacity 1: the set of the values in it
          pc,        \* where each call's goroutine is
          got,       \* the resolution wait returned, until it is applied
          outcome,   \* what HoldRequest/HoldResponse returned
          message,   \* *req or *resp
          gone,      \* the call's context is done
          hpc,       \* where each handler is
          seen,      \* the item whose page the handler's request came from
          hres,      \* the resolution the handler sends
          owed,      \* the items it took from the map and must still send to
          told       \* resolutions acknowledged (204), per item they meant

callVars == <<id, pc, got, outcome, message>>
handlerVars == <<hpc, seen, hres, owed>>
vars == <<settings, nextID, items, ch, callVars, gone, handlerVars, told>>

TypeOK ==
  /\ settings \in [Groups -> BOOLEAN]
  /\ nextID \in Nat
  /\ DOMAIN items \subseteq 1..nextID
  /\ items \in [DOMAIN items -> Calls]
  /\ id \in [Calls -> 0..nextID]
  /\ ch \in [Calls -> SUBSET Resolutions]
  /\ pc \in [Calls -> {"start", "select", "expired", "gone", "receive",
                       "apply", "returned"}]
  /\ got \in [Calls -> SUBSET Resolutions]
  /\ outcome \in [Calls -> Outcomes]
  /\ message \in [Calls -> Contents]
  /\ gone \in [Calls -> BOOLEAN]
  /\ hpc \in [Handlers -> {"idle", "viewing", "building", "resolving",
                           "releasing"}]
  /\ seen \in [Handlers -> Calls \cup {NoCall}]
  /\ hres \in [Handlers -> Resolutions]
  /\ owed \in [Handlers -> SUBSET Calls]
  /\ told \in [Calls -> SUBSET Resolutions]

Init ==
  /\ settings = [g \in Groups |-> FALSE]
  /\ nextID = 0
  /\ items = [i \in {} |-> NoCall]
  /\ id = [c \in Calls |-> 0]
  /\ ch = [c \in Calls |-> {}]
  /\ pc = [c \in Calls |-> "start"]
  /\ got = [c \in Calls |-> {}]
  /\ outcome = [c \in Calls |-> PassThrough]
  /\ message = Received
  /\ gone = [c \in Calls |-> FALSE]
  /\ hpc = [h \in Handlers |-> "idle"]
  /\ seen = [h \in Handlers |-> NoCall]
  /\ hres = [h \in Handlers |-> TurnedOff]
  /\ owed = [h \in Handlers |-> {}]
  /\ told = [c \in Calls |-> {}]

-----------------------------------------------------------------------------
(* The map of held items.                                                  *)

\* m.items[it.sum.ID] == it
InMap(c) == id[c] \in DOMAIN items /\ items[id[c]] = c

\* Mutant: the item stays in the map of the one who takes it.
WithoutKept(I) == items

\* delete(m.items, ...) for every id in I
Without(I) == Restrict(items, DOMAIN items \ I)

\* Mutant: ids are places in the queue.
NewIDReused == Cardinality(DOMAIN items) + 1

NewID == nextID + 1

-----------------------------------------------------------------------------
(* The exchange's goroutine: enqueue, wait, take, and what Hold* makes of  *)
(* the resolution.                                                         *)

\* enqueue finds the toggle off: nothing is held.
Bypass(c) ==
  /\ pc[c] = "start"
  /\ ~settings[GroupOf[c]]
  /\ pc' = [pc EXCEPT ![c] = "returned"]
  /\ UNCHANGED <<settings, nextID, items, ch, id, got, outcome, message, gone,
                 handlerVars, told>>

Enqueue(c) ==
  /\ pc[c] = "start"
  /\ settings[GroupOf[c]]
  /\ nextID' = NewID
  /\ id' = [id EXCEPT ![c] = NewID]
  /\ items' = [i \in DOMAIN items \cup {NewID} |->
                 IF i = NewID THEN c ELSE items[i]]
  /\ pc' = [pc EXCEPT ![c] = "select"]
  /\ UNCHANGED <<settings, ch, got, outcome, message, gone, handlerVars, told>>

\* The select, or the receive after a lost race, gets the sent resolution.
Receive(c) ==
  /\ pc[c] \in {"select", "receive"}
  /\ ch[c] # {}
  /\ got' = [got EXCEPT ![c] = ch[c]]
  /\ ch' = [ch EXCEPT ![c] = {}]
  /\ pc' = [pc EXCEPT ![c] = "apply"]
  /\ UNCHANGED <<settings, nextID, items, id, outcome, message, gone,
                 handlerVars, told>>

\* The select takes <-expired.
TimerFires(c) ==
  /\ TimeoutOn
  /\ pc[c] = "select"
  /\ pc' = [pc EXCEPT ![c] = "expired"]
  /\ UNCHANGED <<settings, nextID, items, ch, id, got, outcome, message, gone,
                 handlerVars, told>>

\* The select takes <-ctx.Done().
NoticeGone(c) ==
  /\ pc[c] = "select"
  /\ gone[c]
  /\ pc' = [pc EXCEPT ![c] = "gone"]
  /\ UNCHANGED <<settings, nextID, items, ch, id, got, outcome, message, gone,
                 handlerVars, told>>

\* Mutant: a timeout drops, as a disconnect does.
OwnResolutionDrops(c) == ContextDone

OwnResolution(c) == IF pc[c] = "expired" THEN AutoForward ELSE ContextDone

\* take removes the item if it is still there; the call then decides alone.
TakeWon(c) ==
  /\ pc[c] \in {"expired", "gone"}
  /\ InMap(c)
  /\ items' = Without({id[c]})
  /\ got' = [got EXCEPT ![c] = {OwnResolution(c)}]
  /\ pc' = [pc EXCEPT ![c] = "apply"]
  /\ UNCHANGED <<settings, nextID, ch, id, outcome, message, gone,
                 handlerVars, told>>

\* Somebody else removed it: wait for what he sends.
TakeLost(c) ==
  /\ pc[c] \in {"expired", "gone"}
  /\ ~InMap(c)
  /\ pc' = [pc EXCEPT ![c] = "receive"]
  /\ UNCHANGED <<settings, nextID, items, ch, id, got, outcome, message, gone,
                 handlerVars, told>>

\* HoldRequest/HoldResponse after wait: the message is edited in place.
Apply(c) ==
  /\ pc[c] = "apply"
  /\ \E r \in got[c] :
       /\ outcome' = [outcome EXCEPT ![c] = OutcomeOf(c, r)]
       /\ message' = [message EXCEPT ![c] = MessageAfter(c, r)]
  /\ got' = [got EXCEPT ![c] = {}]
  /\ pc' = [pc EXCEPT ![c] = "returned"]
  /\ UNCHANGED <<settings, nextID, items, ch, id, gone, handlerVars, told>>

\* The client disconnects (net/http cancels the request's context).  Once the
\* wait is over the queue no longer reads the context.
Disconnect(c) ==
  /\ pc[c] \in {"start", "select"}
  /\ ~gone[c]
  /\ gone' = [gone EXCEPT ![c] = TRUE]
  /\ UNCHANGED <<settings, nextID, items, ch, callVars, handlerVars, told>>

-----------------------------------------------------------------------------
(* The UI's handlers.                                                      *)

\* A page shows a held item; the next request of that page is about its id.
View(h) ==
  /\ hpc[h] = "idle"
  /\ \E i \in DOMAIN items : seen' = [seen EXCEPT ![h] = items[i]]
  /\ hpc' = [hpc EXCEPT ![h] = "viewing"]
  /\ UNCHANGED <<settings, nextID, items, ch, callVars, gone, hres, owed, told>>

Leave(h) ==
  /\ hpc' = [hpc EXCEPT ![h] = "idle"]
  /\ seen' = [seen EXCEPT ![h] = NoCall]
  /\ hres' = [hres EXCEPT ![h] = TurnedOff]

\* pending(): Manager.Get finds the item, or the handler answers 409.
Pending(h) ==
  /\ hpc[h] = "viewing"
  /\ \/ /\ id[seen[h]] \in DOMAIN items
        /\ hpc' = [hpc EXCEPT ![h] = "building"]
        /\ UNCHANGED <<seen, hres>>
     \/ /\ id[seen[h]] \notin DOMAIN items
        /\ Leave(h)
  /\ UNCHANGED <<settings, nextID, items, ch, callVars, gone, owed, told>>

\* The submitted form does not parse: 400, and the item stays held.
InvalidEdit(h) ==
  /\ hpc[h] = "building"
  /\ Leave(h)
  /\ UNCHANGED <<settings, nextID, items, ch, callVars, gone, owed, told>>

\* Manager.Resolve under the mutex, for the id the page named.
Resolve(h) ==
  /\ hpc[h] = "building"
  /\ \/ /\ id[seen[h]] \in DOMAIN items
        /\ \E r \in UserResolutions : hres' = [hres EXCEPT ![h] = r]
        /\ owed' = [owed EXCEPT ![h] = {items[id[seen[h]]]}]
        /\ items' = Without({id[seen[h]]})
        /\ hpc' = [hpc EXCEPT ![h] = "resolving"]
        /\ UNCHANGED seen
     \/ /\ id[seen[h]] \notin DOMAIN items
        /\ Leave(h)
        /\ UNCHANGED <<items, owed>>
  /\ UNCHANGED <<settings, nextID, ch, callVars, gone, told>>

\* Mutant: switching off releases nothing.
TurnedOffIDsNone(s) == {}

\* The ids SetSettings(s) removes.
TurnedOffIDs(s) ==
  {i \in DOMAIN items : LET g == GroupOf[items[i]] IN settings[g] /\ ~s[g]}

\* Manager.SetSettings under the mutex.
SetSettings(h) ==
  /\ hpc[h] = "idle"
  /\ \E s \in [Groups -> BOOLEAN] :
       /\ settings' = s
       /\ items' = Without(TurnedOffIDs(s))
       /\ owed' = [owed EXCEPT ![h] = {items[i] : i \in TurnedOffIDs(s)}]
  /\ hres' = [hres EXCEPT ![h] = TurnedOff]
  /\ hpc' = [hpc EXCEPT ![h] = "releasing"]
  /\ UNCHANGED <<nextID, ch, callVars, gone, seen, told>>

\* Mutant: a non-blocking send on an unbuffered channel.
SendIfReceiving(h) ==
  /\ hpc[h] \in {"resolving", "releasing"}
  /\ \E c \in owed[h] :
       /\ ch' = [ch EXCEPT ![c] = IF pc[c] = "select" THEN {hres[h]} ELSE @]
       /\ owed' = [owed EXCEPT ![h] = @ \ {c}]
  /\ UNCHANGED <<settings, nextID, items, callVars, gone, hpc, seen, hres, told>>

\* it.ch <- res, after the mutex is released: blocks while the slot is taken.
Send(h) ==
  /\ hpc[h] \in {"resolving", "releasing"}
  /\ \E c \in owed[h] :
       /\ ch[c] = {}
       /\ ch' = [ch EXCEPT ![c] = {hres[h]}]
       /\ owed' = [owed EXCEPT ![h] = @ \ {c}]
  /\ UNCHANGED <<settings, nextID, items, callVars, gone, hpc, seen, hres, told>>

\* The handler answers: 204 for a resolution, the settings for a switch.
Answer(h) ==
  /\ hpc[h] \in {"resolving", "releasing"}
  /\ owed[h] = {}
  /\ told' = [c \in Calls |->
                IF hpc[h] = "resolving" /\ c = seen[h]
                THEN told[c] \cup {hres[h]} ELSE told[c]]
  /\ Leave(h)
  /\ UNCHANGED <<settings, nextID, items, ch, callVars, gone, owed>>

-----------------------------------------------------------------------------

CallStep(c) ==
  \/ Bypass(c)     \/ Enqueue(c)    \/ Receive(c)   \/ TimerFires(c)
  \/ NoticeGone(c) \/ TakeWon(c)    \/ TakeLost(c)  \/ Apply(c)
  \/ Disconnect(c)

HandlerStep(h) ==
  \/ View(h)        \/ Pending(h) \/ InvalidEdit(h) \/ Resolve(h)
  \/ SetSettings(h) \/ Send(h)    \/ Answer(h)

Next == (\E c \in Calls : CallStep(c)) \/ (\E h \in Handlers : HandlerStep(h))

Spec == Init /\ [][Next]_vars

(***************************************************************************)
(* Goroutines that can run do run: a waiting call takes a ready case of    *)
(* its select, a timer that was started fires, a handler that removed      *)
(* items sends to them and answers.  Clients, pages and request bodies owe *)
(* nothing: nobody has to disconnect, resolve or toggle.                   *)
(***************************************************************************)
Fairness ==
  /\ \A c \in Calls : /\ WF_vars(Receive(c) \/ NoticeGone(c))
                      /\ WF_vars(TimerFires(c))
                      /\ WF_vars(TakeWon(c) \/ TakeLost(c))
                      /\ WF_vars(Apply(c))
  /\ \A h \in Handlers : WF_vars(Send(h)) /\ WF_vars(Answer(h))

FairSpec == Spec /\ Fairness

-----------------------------------------------------------------------------
(* Properties.                                                             *)

Waiting(c) == pc[c] \in {"select", "expired", "gone", "receive"}

Owners(c) == {h \in Handlers : c \in owed[h]}

\* Whoever removes an item from the map owns it, so an item is resolved
\* exactly once (intercept.go:8-12): a waiting call is in the map, or owed
\* one send, or has one value in its channel, and never two of these; and a
\* call that is not waiting is in none of them.
ExactlyOneOwner ==
  \A c \in Calls :
    /\ InMap(c) => Owners(c) = {} /\ ch[c] = {}
    /\ \A g, h \in Owners(c) : g = h
    /\ Owners(c) # {} => ch[c] = {}
    /\ Waiting(c) <=> InMap(c) \/ Owners(c) # {} \/ ch[c] # {}

\* Nothing stays held at a pause point that is off (SetSettings' promise
\* that nothing is left hanging).
HeldOnlyWhileOn ==
  \A i \in DOMAIN items : settings[GroupOf[items[i]]]

\* Resolution r is on its way to call c, or is what c returned with.
Delivered(c, r) ==
  \/ r \in ch[c] \cup got[c]
  \/ /\ pc[c] = "returned"
     /\ outcome[c] = OutcomeOf(c, r)
     /\ message[c] = MessageAfter(c, r)

\* A user who got a 204 was the one who decided: his resolution is delivered
\* to the message he was looking at, and to no other.
AckedIsDelivered == \A c \in Calls : \A r \in told[c] : Delivered(c, r)

\* The resolution that has been decided for a call and not yet applied.
Decision(c) == ch[c] \cup got[c] \cup {hres[h] : h \in Owners(c)}

\* Where the contract sees a call: held while it is in the map, decided from
\* the step that removes it, whoever takes that step.
Status(c) ==
  CASE pc[c] = "start"    -> "idle"
    [] pc[c] = "returned" -> "returned"
    [] OTHER              -> IF InMap(c) THEN "held" ELSE "decided"

Contract ==
  INSTANCE HoldContract WITH
    status <- [c \in Calls |-> Status(c)],
    decision <- [c \in Calls |-> Decision(c)]

\* The queue implements its contract, its liveness included.
ImplementsContract == Contract!Spec

ImplementsFairContract == Contract!FairSpec

\* A held message whose client has gone, or whose pause point is off, and
\* with a timeout every held message, goes on.
NoneLeftHanging ==
  \A c \in Calls :
    Waiting(c) /\ (TimeoutOn \/ gone[c] \/ ~settings[GroupOf[c]])
      ~> pc[c] = "returned"

\* No UI handler hangs in a send: what it resolves or releases, it answers.
HandlersAnswer ==
  \A h \in Handlers : hpc[h] \in {"resolving", "releasing"} ~> hpc[h] = "idle"

=============================================================================
