--------------------------------- MODULE Rules ---------------------------------
(***************************************************************************)
(* Match and replace rules (internal/rules/compile.go, match.go, action.go *)
(* and the types of internal/model/rules.go) as operators: which files are *)
(* accepted, which rules fire on a message, and what they make of it.      *)
(*                                                                         *)
(* A text (a header's value, a body) is the set of its words: it contains  *)
(* another that is a subset of it.  A regular expression is the set of the *)
(* texts it matches, or BadPattern if it does not compile; the pattern of  *)
(* a replacement is one word.  A host is the sequence of its labels, a     *)
(* path that of its characters.  Names, hosts and methods are taken in the *)
(* one spelling that every comparison of them folds to.                    *)
(***************************************************************************)
EXTENDS Integers, Sequences, SequencesExt

CONSTANTS HeaderNames, \* the valid ones
          BadName,     \* a header name that is empty, or no token
          BadWord,     \* a word with a NUL, a CR or a LF
          BadPattern,  \* a regular expression that does not compile
          BadId,       \* a rule id that is empty, or has other characters
          Anything     \* an empty host, path or method in a scope

ASSUME RulesAssumption == BadName \notin HeaderNames

Statuses == 100..599

-----------------------------------------------------------------------------
(* compile.go                                                              *)

\* A pattern that is used has to compile.
Compiles(mode, value) == mode = "regex" => value # BadPattern

compileCondition(direction, c) ==
  \/ /\ c.type = "header"
     /\ c.name \in HeaderNames
     /\ c.match \in {"exact", "contains", "regex"} /\ Compiles(c.match, c.value)
  \/ /\ c.type = "body"
     /\ c.match \in {"contains", "regex"} /\ Compiles(c.match, c.value)
  \/ /\ c.type = "status"
     /\ direction = "response" /\ c.equals \in Statuses

\* A replacement refers only to groups that the pattern has.
checkReplacementRefs(a) == a.refs \subseteq a.groups

compileAction(direction, a) ==
  \/ /\ a.type \in {"replace_header", "add_header"}
     /\ a.name \in HeaderNames /\ BadWord \notin a.value
  \/ a.type = "remove_header" /\ a.name \in HeaderNames
  \/ a.type = "replace_body"
  \/ a.type = "body_regex_replace" /\ a.pattern # BadPattern /\ checkReplacementRefs(a)
  \/ a.type = "set_status" /\ direction = "response" /\ a.status \in Statuses

BodyAction(a) == a.type \in {"replace_body", "body_regex_replace"}

\* Mutant: only the action is asked.
needsBodyByAction(r) == BodyAction(r.action)

needsBody(r) ==
  BodyAction(r.action) \/ \E i \in DOMAIN r.conditions : r.conditions[i].type = "body"

\* Conditions that no message can meet, as far as they can be told.
Contradictory(r) ==
  \E i, j \in DOMAIN r.conditions :
    LET c == r.conditions[i] d == r.conditions[j]
    IN \/ c.type = "status" /\ d.type = "status" /\ c.equals # d.equals
       \/ /\ c.type = "header" /\ c.match = "exact"
          /\ d.type = "header" /\ d.match = "exact"
          /\ c.name = d.name /\ c.value # d.value

compileRule(r) ==
  /\ r.direction \in {"request", "response"}
  /\ r.scope.pathMatch \in {"", "exact", "prefix", "regex"}
  /\ r.scope.pathMatch = "regex" => r.scope.path # BadPattern
  /\ \A i \in DOMAIN r.conditions : compileCondition(r.direction, r.conditions[i])
  /\ ~Contradictory(r)
  /\ compileAction(r.direction, r.action)

\* A hand-written file may omit its version.
Accepted(f) ==
  /\ f.version \in {0, 1}
  /\ \A i \in DOMAIN f.rules :
       /\ f.rules[i].id # BadId
       /\ \A j \in DOMAIN f.rules : f.rules[i].id = f.rules[j].id => i = j
       /\ compileRule(f.rules[i])

\* The rule as it is kept: with the default for pathMatch.
Normalized(r) ==
  [r EXCEPT !.scope.pathMatch = IF @ = "" THEN "exact" ELSE @]

needs(f, direction) ==
  \E i \in DOMAIN f.rules : /\ f.rules[i].enabled /\ f.rules[i].direction = direction
                            /\ needsBody(f.rules[i])

\* The compiled set of an accepted file.
compile(f) ==
  [rules |-> [i \in DOMAIN f.rules |-> Normalized(f.rules[i])],
   needsReqBody |-> needs(f, "request"), needsRespBody |-> needs(f, "response")]

NoRules == [rules |-> <<>>, needsReqBody |-> FALSE, needsRespBody |-> FALSE]

-----------------------------------------------------------------------------
(* match.go, action.go                                                     *)

textMatches(mode, want, got) ==
  CASE mode = "exact"    -> got = want
    [] mode = "contains" -> want \subseteq got
    [] mode = "regex"    -> got \in want

\* req is the request of the exchange, for both directions: a host is a
\* subdomain of "*.h" if its last labels are those of h.
matchesScope(s, req) ==
  /\ \/ s.host = Anything
     \/ s.wildcard /\ IsSuffix(s.host, req.host)
     \/ ~s.wildcard /\ req.host = s.host
  /\ s.method \in {Anything, req.method}
  /\ \/ s.path = Anything
     \/ s.pathMatch = "exact" /\ req.path = s.path
     \/ s.pathMatch = "prefix" /\ IsPrefix(s.path, req.path)
     \/ s.pathMatch = "regex" /\ req.path \in s.path

\* A header matches with any one of its values.
conditionMatches(c, m) ==
  \/ c.type = "header" /\ \E v \in m.header[c.name] : textMatches(c.match, c.value, v)
  \/ c.type = "body" /\ textMatches(c.match, c.value, m.body)
  \/ c.type = "status" /\ m.status = c.equals

\* Mutant: a rule with a body action fires whatever was buffered.
matchesUnbuffered(r, direction, req, m, bodyAvailable) ==
  /\ r.direction = direction /\ r.enabled
  /\ (\E i \in DOMAIN r.conditions : r.conditions[i].type = "body") => bodyAvailable
  /\ matchesScope(r.scope, req)
  /\ \A i \in DOMAIN r.conditions : conditionMatches(r.conditions[i], m)

matches(r, direction, req, m, bodyAvailable) ==
  /\ r.direction = direction /\ r.enabled
  /\ needsBody(r) => bodyAvailable
  /\ matchesScope(r.scope, req)
  /\ \A i \in DOMAIN r.conditions : conditionMatches(r.conditions[i], m)

apply(a, m) ==
  CASE a.type = "replace_header" -> [m EXCEPT !.header[a.name] = {a.value}]
    [] a.type = "add_header"     -> [m EXCEPT !.header[a.name] = @ \cup {a.value}]
    [] a.type = "remove_header"  -> [m EXCEPT !.header[a.name] = {}]
    [] a.type = "replace_body"   -> [m EXCEPT !.body = a.body]
    [] a.type = "body_regex_replace" ->
         [m EXCEPT !.body = IF a.pattern \in @ THEN (@ \ {a.pattern}) \cup a.replacement
                                              ELSE @]
    [] a.type = "set_status"     -> [m EXCEPT !.status = a.status]

\* One rule's turn: r is a message and the ids of the rules that fired.
Turn(rule, direction, req, bodyAvailable, r) ==
  IF matches(rule, direction, req, r.msg, bodyAvailable)
  THEN [msg |-> apply(rule.action, r.msg), fired |-> Append(r.fired, rule.id)]
  ELSE r

=============================================================================
