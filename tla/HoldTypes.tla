------------------------------ MODULE HoldTypes ------------------------------
(***************************************************************************)
(* The vocabulary of a hold queue: a goroutine that carries a message      *)
(* stops at a pause point until somebody decides what becomes of it.       *)
(* internal/intercept, internal/relay and internal/sysCapture each have    *)
(* such a queue; they differ in what groups the messages (an intercept     *)
(* kind, a direction of a relay target, a direction of the capture) and in *)
(* what a cancelled context means for a held message.                      *)
(***************************************************************************)

CONSTANTS Calls,      \* the Hold calls: one goroutine, one message each
          Groups,     \* the pause points that can be switched on and off
          GroupOf,    \* the pause point each call reaches
          Contents,   \* what a message may contain
          NoEdit,     \* a resolution that carries no edited message
          Received,   \* what each call's message contains when it gets there
          TimeoutOn,  \* -intercept-timeout is greater than zero
          GoneDrops   \* a cancelled context drops the message

ASSUME HoldAssumption ==
  /\ GroupOf \in [Calls -> Groups]
  /\ Received \in [Calls -> Contents]
  /\ NoEdit \notin Contents
  /\ TimeoutOn \in BOOLEAN
  /\ GoneDrops \in BOOLEAN

Notes == {"", "turned off", "timeout", "context done"}

Edits == Contents \cup {NoEdit}

Resolutions == [drop : BOOLEAN, edit : Edits, note : Notes]

\* What a user can answer: forward (as is, or with the submitted form), drop.
Forward(e) == [drop |-> FALSE, edit |-> e, note |-> ""]

Drop == [drop |-> TRUE, edit |-> NoEdit, note |-> ""]

UserResolutions == {Forward(e) : e \in Edits} \cup {Drop}

\* What the queue answers on its own.
TurnedOff == [drop |-> FALSE, edit |-> NoEdit, note |-> "turned off"]

AutoForward == [drop |-> FALSE, edit |-> NoEdit, note |-> "timeout"]

ContextDone == [drop |-> GoneDrops, edit |-> NoEdit, note |-> "context done"]

Outcomes == [drop : BOOLEAN, edited : BOOLEAN, note : Notes]

\* The zero Outcome: the message goes on untouched.
PassThrough == [drop |-> FALSE, edited |-> FALSE, note |-> ""]

\* A resolution edits a message only when it carries another content.
IsEdit(c, r) == ~r.drop /\ r.edit # NoEdit /\ r.edit # Received[c]

OutcomeOf(c, r) == [drop |-> r.drop, edited |-> IsEdit(c, r), note |-> r.note]

MessageAfter(c, r) == IF IsEdit(c, r) THEN r.edit ELSE Received[c]

=============================================================================
