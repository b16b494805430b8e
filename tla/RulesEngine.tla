------------------------------ MODULE RulesEngine ------------------------------
(***************************************************************************)
(* The rules file and the active rule set (internal/rules/engine.go,       *)
(* internal/ui/rules.go): a user's requests that save, save raw text and   *)
(* reload, a user who edits the file by hand, an exchange that asks        *)
(* whether a body is needed and then applies the rules, one after the      *)
(* other, and a process that may crash at any moment and start again.      *)
(*                                                                         *)
(* A text is what a rules file holds: yaml says whether it can be parsed.  *)
(***************************************************************************)
EXTENDS Rules

CONSTANTS Savers,    \* requests to the UI that write or reload
          Texts,     \* the texts that users write
          Messages,  \* [direction, req, msg]: what the exchange carries
          Missing,   \* no file
          Crashes    \* how often the process may crash (a bound)

\* The beginning of a text, in a file that is being written.
Torn == [yaml |-> FALSE, file |-> [version |-> 1, rules |-> <<>>]]

\* The fields of model.Rule, whose name has no effect and is left out, and those of
\* the engine's target that rules change.
IsRule(r) == DOMAIN r = {"id", "enabled", "direction", "scope", "conditions", "action"}
IsMessage(m) == DOMAIN m = {"header", "body", "status"}

ASSUME RulesEngineAssumption ==
  /\ "none" \notin Savers
  /\ Missing \notin Texts
  /\ Torn \notin Texts \cup {Missing}
  /\ Crashes \in Nat
  /\ \A t \in Texts :
       /\ Len(t.file.rules) \in Nat /\ DOMAIN t.file.rules = 1..Len(t.file.rules)
       /\ \A i \in DOMAIN t.file.rules : IsRule(t.file.rules[i])
  /\ \A m \in Messages : IsMessage(m.msg)

VARIABLES file,      \* the rules file: a text, Torn or Missing
          byHand,    \* it was edited by hand since it was read or written
          active,    \* Engine.active
          lock,      \* who has writeMu, or none
          pc, text,  \* each saver's place, and the text it is to write
          tmp,       \* ... and its temporary file
          answer,    \* ... and its status
          ex,        \* the exchange
          crashes

saverVars == <<pc, text, tmp, answer>>
vars == <<file, byHand, active, lock, saverVars, ex, crashes>>

NoText == Missing

Ok(t) == t.yaml /\ Accepted(t.file)

\* The sets that can be active.
Compiled == {NoRules} \cup {compile(t.file) : t \in {u \in Texts : Ok(u)}}

TypeOK ==
  /\ file \in Texts \cup {Torn, Missing}
  /\ byHand \in BOOLEAN
  /\ active \in Compiled
  /\ lock \in Savers \cup {"none"}
  /\ pc \in [Savers -> {"idle", "lock", "write", "rename", "activate", "read", "done"}]
  /\ text \in [Savers -> Texts \cup {NoText}]
  /\ tmp \in [Savers -> Texts \cup {Torn, Missing}]
  /\ answer \in [Savers -> {0, 200, 400}]
  /\ ex.pc \in {"ask", "apply", "rules", "done"}
  /\ ex.body \in BOOLEAN
  /\ ex.set \in Compiled
  /\ ex.next \in 1..(Len(ex.set.rules) + 1)
  /\ crashes \in 0..Crashes

NewExchange(m) ==
  [pc |-> "ask", of |-> m, body |-> FALSE, set |-> NoRules,
   next |-> 1, r |-> [msg |-> m.msg, fired |-> <<>>]]

Init ==
  /\ file = Missing /\ byHand = FALSE
  /\ active = NoRules
  /\ lock = "none"
  /\ pc = [s \in Savers |-> "idle"]
  /\ text = [s \in Savers |-> NoText] /\ tmp = [s \in Savers |-> Missing]
  /\ answer = [s \in Savers |-> 0]
  /\ \E m \in Messages : ex = NewExchange(m)
  /\ crashes = 0

Goto(s, l) == pc' = [pc EXCEPT ![s] = l]

-----------------------------------------------------------------------------
(* The handlers of ui/rules.go, and Engine.SaveRules, SaveRaw and Load.    *)

\* SaveRules writes what Marshal makes of the rules, SaveRaw the text as it is:
\* both compile before they wait for writeMu.
Save(s) ==
  /\ pc[s] = "idle"
  /\ \E t \in Texts :
       \/ Ok(t) /\ text' = [text EXCEPT ![s] = t] /\ Goto(s, "lock") /\ UNCHANGED answer
       \/ ~Ok(t) /\ answer' = [answer EXCEPT ![s] = 400] /\ Goto(s, "done")
                 /\ UNCHANGED text
  /\ UNCHANGED <<file, byHand, active, lock, tmp, ex, crashes>>

Lock(s) ==
  /\ pc[s] = "lock" /\ lock = "none"
  /\ lock' = s
  /\ Goto(s, "write")
  /\ UNCHANGED <<file, byHand, active, text, tmp, answer, ex, crashes>>

\* The temporary file is written, in part or as a whole, or cannot be written or
\* renamed: then it is removed, and the old file stays.
Write(s) ==
  /\ pc[s] = "write"
  /\ \/ tmp' = [tmp EXCEPT ![s] = Torn] /\ UNCHANGED <<pc, lock, answer>>
     \/ tmp' = [tmp EXCEPT ![s] = text[s]] /\ Goto(s, "rename") /\ UNCHANGED <<lock, answer>>
     \/ /\ tmp' = [tmp EXCEPT ![s] = Missing]
        /\ lock' = "none" /\ answer' = [answer EXCEPT ![s] = 400] /\ Goto(s, "done")
  /\ UNCHANGED <<file, byHand, active, text, ex, crashes>>

Rename(s) ==
  /\ pc[s] = "rename"
  /\ file' = tmp[s] /\ byHand' = FALSE
  /\ tmp' = [tmp EXCEPT ![s] = Missing]
  /\ Goto(s, "activate")
  /\ UNCHANGED <<active, lock, text, answer, ex, crashes>>

\* Mutant: the mutex is released before the set is published.
ActivateLate(s) ==
  /\ pc[s] = "activate"
  /\ \/ lock = s /\ lock' = "none" /\ UNCHANGED <<active, answer, pc>>
     \/ /\ lock # s
        /\ active' = compile(text[s].file)
        /\ answer' = [answer EXCEPT ![s] = 200]
        /\ Goto(s, "done")
        /\ UNCHANGED lock
  /\ UNCHANGED <<file, byHand, text, tmp, ex, crashes>>

\* The set compiled before is published, and writeMu released.
Activate(s) ==
  /\ pc[s] = "activate"
  /\ active' = compile(text[s].file)
  /\ lock' = "none"
  /\ answer' = [answer EXCEPT ![s] = 200]
  /\ Goto(s, "done")
  /\ UNCHANGED <<file, byHand, text, tmp, ex, crashes>>

StartLoad(s) ==
  /\ pc[s] = "idle" /\ lock = "none"
  /\ lock' = s
  /\ Goto(s, "read")
  /\ UNCHANGED <<file, byHand, active, text, tmp, answer, ex, crashes>>

\* Mutant: a file that is not accepted leaves no rules.
LoadBlanks(s) ==
  /\ pc[s] = "read"
  /\ active' = IF file # Missing /\ Ok(file) THEN compile(file.file) ELSE NoRules
  /\ answer' = [answer EXCEPT ![s] = IF file = Missing \/ Ok(file) THEN 200 ELSE 400]
  /\ byHand' = (byHand /\ answer'[s] = 400)
  /\ lock' = "none"
  /\ Goto(s, "done")
  /\ UNCHANGED <<file, text, tmp, ex, crashes>>

\* A file that is not accepted leaves the active rules as they are.
Load(s) ==
  /\ pc[s] = "read"
  /\ \/ /\ file = Missing
        /\ active' = NoRules /\ byHand' = FALSE
        /\ answer' = [answer EXCEPT ![s] = 200]
     \/ /\ file # Missing /\ Ok(file)
        /\ active' = compile(file.file) /\ byHand' = FALSE
        /\ answer' = [answer EXCEPT ![s] = 200]
     \/ /\ file # Missing /\ ~Ok(file)
        /\ answer' = [answer EXCEPT ![s] = 400]
        /\ UNCHANGED <<active, byHand>>
  /\ lock' = "none"
  /\ Goto(s, "done")
  /\ UNCHANGED <<file, text, tmp, ex, crashes>>

HandEdit ==
  /\ \E t \in Texts : file' = t
  /\ byHand' = TRUE
  /\ UNCHANGED <<active, lock, saverVars, ex, crashes>>

-----------------------------------------------------------------------------
(* The exchange: proxy.forward as far as it asks the engine.               *)

\* What the engine gets to see of a message: a body that was not buffered is nil.
Seen(msg, body) == IF body THEN msg ELSE [msg EXCEPT !.body = {}]

\* NeedsRequestBody, NeedsResponseBody.
Needs(set, m) == IF m.direction = "request" THEN set.needsReqBody ELSE set.needsRespBody

\* A body is buffered if the rules or the intercept queue need it, unless it is
\* too large or cannot be held.
Ask ==
  /\ ex.pc = "ask"
  /\ \E whole, intercept \in BOOLEAN :
       LET body == whole /\ (intercept \/ Needs(active, ex.of))
       IN ex' = [ex EXCEPT !.pc = "apply", !.body = body, !.r.msg = Seen(ex.of.msg, body)]
  /\ UNCHANGED <<file, byHand, active, lock, saverVars, crashes>>

\* ApplyRequest and ApplyResponse go through the set that is active when they
\* are called, which need not be the one that was asked about the body.
Apply ==
  /\ ex.pc = "apply"
  /\ ex' = [ex EXCEPT !.pc = "rules", !.set = active]
  /\ UNCHANGED <<file, byHand, active, lock, saverVars, crashes>>

\* Mutant: every rule is looked up in the set that is active then.
ApplyRuleOfActive ==
  /\ ex.pc = "rules" /\ ex.next \in DOMAIN ex.set.rules
  /\ ex' = [ex EXCEPT !.next = @ + 1,
              !.r = IF ex.next \in DOMAIN active.rules
                    THEN Turn(active.rules[ex.next], ex.of.direction, ex.of.req, ex.body, @)
                    ELSE @]
  /\ UNCHANGED <<file, byHand, active, lock, saverVars, crashes>>

\* Later rules see what earlier ones made of the message.
ApplyRule ==
  /\ ex.pc = "rules" /\ ex.next \in DOMAIN ex.set.rules
  /\ ex' = [ex EXCEPT !.next = @ + 1,
              !.r = Turn(ex.set.rules[ex.next], ex.of.direction, ex.of.req, ex.body, @)]
  /\ UNCHANGED <<file, byHand, active, lock, saverVars, crashes>>

Applied ==
  /\ ex.pc = "rules" /\ ex.next \notin DOMAIN ex.set.rules
  /\ ex' = [ex EXCEPT !.pc = "done"]
  /\ UNCHANGED <<file, byHand, active, lock, saverVars, crashes>>

-----------------------------------------------------------------------------
(* Crashes.                                                                *)

\* The process ends, and starts again with Engine.Load, which must accept the
\* file (main.go:88): a bad one keeps the process from starting until somebody
\* repairs it.  A temporary file may be left behind; it has a name of its own.
Restart ==
  /\ crashes < Crashes
  /\ crashes' = crashes + 1
  /\ file # Missing => Ok(file)
  /\ active' = IF file = Missing THEN NoRules ELSE compile(file.file)
  /\ byHand' = FALSE
  /\ lock' = "none"
  /\ pc' = [s \in Savers |-> "idle"]
  /\ text' = [s \in Savers |-> NoText] /\ tmp' = [s \in Savers |-> Missing]
  /\ answer' = [s \in Savers |-> 0]
  /\ \E m \in Messages : ex' = NewExchange(m)
  /\ UNCHANGED file

Saver(s) == Lock(s) \/ Write(s) \/ Rename(s) \/ Activate(s) \/ StartLoad(s) \/ Load(s)

Exchange == Ask \/ Apply \/ ApplyRule \/ Applied

Next ==
  \/ \E s \in Savers : Save(s) \/ Saver(s)
  \/ HandEdit \/ Exchange \/ Restart

Spec == Init /\ [][Next]_vars

-----------------------------------------------------------------------------
(* Properties.                                                             *)

\* "A save that fails partway (disk full, crash) never leaves a truncated/corrupt
\* rules file behind for the next Load to choke on" (engine.go:145).
FileIsWhole == file # Torn

\* And when nobody is writing, the active rules are those of the file, unless it was
\* edited by hand since: two saves at once may not leave the file of one and the
\* rules of the other (engine.go:25, "serializes Load/SaveRules/SaveRaw").
ActiveMatchesFile ==
  /\ FileIsWhole
  /\ lock = "none" /\ ~byHand =>
       active = IF file = Missing THEN NoRules ELSE compile(file.file)

\* "a bad reload never blanks out working rules" (engine.go:45), and a save that is
\* refused or fails leaves both the file and the rules alone: who is answered 400
\* has changed nothing.
BadRequestChangesNothing ==
  [][\A s \in Savers : answer[s] # 400 /\ answer'[s] = 400 => UNCHANGED <<file, active>>]_vars

\* What the rules of set make of the exchange's message.
Run(set, body) ==
  LET run[n \in 0..Len(set.rules)] ==
        IF n = 0 THEN [msg |-> Seen(ex.of.msg, body), fired |-> <<>>]
        ELSE Turn(set.rules[n], ex.of.direction, ex.of.req, body, run[n - 1])
  IN run[Len(set.rules)]

\* A message meets the rules of one set, all of them and in order, whatever is
\* saved or loaded meanwhile ("concurrent requests never see a half-updated set",
\* compile.go:38).
OneSetPerMessage == ex.pc = "done" => ex.r = Run(ex.set, ex.body)

\* A body that was not buffered is not replaced, and no rule that would have to
\* look at it fires, even if the set that is applied is not the one that said that
\* nobody needs it (match.go:21).
BodyUntouchedUnbuffered ==
  ex.pc \in {"rules", "done"} /\ ~ex.body =>
    /\ ex.r.msg.body = {}
    /\ \A i \in DOMAIN ex.set.rules :
         needsBody(ex.set.rules[i]) => ~Contains(ex.r.fired, ex.set.rules[i].id)

\* A set that does not need the body makes the same of a message whether somebody
\* else had it buffered or not (engine.go:165): no rule waits for a body that
\* nobody will read for it.
NeedsIsEnough ==
  ex.pc = "done" /\ ~Needs(ex.set, ex.of) =>
    LET with == Run(ex.set, TRUE)
    IN /\ with.msg.body = ex.of.msg.body
       /\ [with EXCEPT !.msg.body = {}] = Run(ex.set, FALSE)

=============================================================================
