----------------------------- MODULE HoldContract -----------------------------
(***************************************************************************)
(* What a hold queue promises to the goroutines that call it and to the    *)
(* people who answer: a message that reaches a pause point that is off     *)
(* passes untouched; one that reaches a pause point that is on is held,    *)
(* decided exactly once, and returned with that decision.  Switching a     *)
(* pause point off decides, in one step, everything held at it.            *)
(***************************************************************************)
EXTENDS HoldTypes

VARIABLES settings,  \* which pause points are on
          status,    \* idle, held, decided or returned, per call
          decision,  \* the empty set, or the one resolution, until returned
          outcome,   \* what Hold returned
          message,   \* the message as its goroutine sees it
          gone       \* the contexts that are done

vars == <<settings, status, decision, outcome, message, gone>>

Init ==
  /\ settings = [g \in Groups |-> FALSE]
  /\ status = [c \in Calls |-> "idle"]
  /\ decision = [c \in Calls |-> {}]
  /\ outcome = [c \in Calls |-> PassThrough]
  /\ message = Received
  /\ gone = [c \in Calls |-> FALSE]

Pass(c) ==
  /\ status[c] = "idle"
  /\ ~settings[GroupOf[c]]
  /\ status' = [status EXCEPT ![c] = "returned"]
  /\ UNCHANGED <<settings, decision, outcome, message, gone>>

Hold(c) ==
  /\ status[c] = "idle"
  /\ settings[GroupOf[c]]
  /\ status' = [status EXCEPT ![c] = "held"]
  /\ UNCHANGED <<settings, decision, outcome, message, gone>>

\* The decisions a held message can get: a user's, or the queue's own.  The
\* queue must decide once the time is up or the context is done.
OwnDeciding(c) ==
  {r \in {AutoForward} : TimeoutOn} \cup {r \in {ContextDone} : gone[c]}

Deciding(c) == UserResolutions \cup OwnDeciding(c)

Decide(c) ==
  /\ status[c] = "held"
  /\ \E r \in Deciding(c) : decision' = [decision EXCEPT ![c] = {r}]
  /\ status' = [status EXCEPT ![c] = "decided"]
  /\ UNCHANGED <<settings, outcome, message, gone>>

Released(s) ==
  {c \in Calls : /\ status[c] = "held"
                 /\ settings[GroupOf[c]]
                 /\ ~s[GroupOf[c]]}

Switch(s) ==
  /\ settings' = s
  /\ status' = [c \in Calls |->
                  IF c \in Released(s) THEN "decided" ELSE status[c]]
  /\ decision' = [c \in Calls |->
                  IF c \in Released(s) THEN {TurnedOff} ELSE decision[c]]
  /\ UNCHANGED <<outcome, message, gone>>

Return(c) ==
  /\ status[c] = "decided"
  /\ \E r \in decision[c] :
       /\ outcome' = [outcome EXCEPT ![c] = OutcomeOf(c, r)]
       /\ message' = [message EXCEPT ![c] = MessageAfter(c, r)]
  /\ status' = [status EXCEPT ![c] = "returned"]
  /\ decision' = [decision EXCEPT ![c] = {}]
  /\ UNCHANGED <<settings, gone>>

Cancel(c) ==
  /\ gone' = [gone EXCEPT ![c] = TRUE]
  /\ UNCHANGED <<settings, status, decision, outcome, message>>

Next ==
  \/ \E c \in Calls : Pass(c) \/ Hold(c) \/ Decide(c) \/ Return(c) \/ Cancel(c)
  \/ \E s \in [Groups -> BOOLEAN] : Switch(s)

Spec == Init /\ [][Next]_vars

\* A decided call returns; a held message the queue may decide gets decided.
Fairness ==
  \A c \in Calls : /\ WF_vars(Return(c))
                   /\ WF_vars(OwnDeciding(c) # {} /\ Decide(c))

FairSpec == Spec /\ Fairness

=============================================================================
