-------------------------------- MODULE MCRules --------------------------------
(* Texts with rules of every kind of condition and action, some of which are
   not accepted, and a request and a response for them. *)
EXTENDS RulesEngine

Everywhere == [host |-> Anything, wildcard |-> FALSE, method |-> Anything,
               path |-> Anything, pathMatch |-> ""]

Rule(id, direction, scope, conditions, action) ==
  [id |-> id, enabled |-> TRUE, direction |-> direction, scope |-> scope,
   conditions |-> conditions, action |-> action]

Header(name, match, value) == [type |-> "header", name |-> name, match |-> match, value |-> value]
Body(match, value) == [type |-> "body", match |-> match, value |-> value]
Status(n) == [type |-> "status", equals |-> n]

\* Two rules that meet one after the other, a rule that looks at a body to
\* change a header, and one that replaces the body.
Chain == <<
  Rule("r1", "request", Everywhere, <<Header("h1", "exact", {"a"})>>,
       [type |-> "replace_header", name |-> "h1", value |-> {"b"}]),
  Rule("r2", "request", [Everywhere EXCEPT !.method = "GET"], <<Header("h1", "contains", {"b"})>>,
       [type |-> "add_header", name |-> "h2", value |-> {"a"}]) >>

ByBody == <<
  Rule("r1", "request", [Everywhere EXCEPT !.host = <<"example", "com">>, !.wildcard = TRUE],
       <<Body("contains", {"b"})>>, [type |-> "remove_header", name |-> "h1"]),
  [Rule("r2", "request", Everywhere, <<>>, [type |-> "replace_body", body |-> {"c"}])
     EXCEPT !.enabled = FALSE] >>

Answers == <<
  Rule("r3", "response", [Everywhere EXCEPT !.path = <<"/", "a">>, !.pathMatch = "prefix"],
       <<Status(200), Header("h1", "regex", {{"a"}, {"b"}})>>, [type |-> "set_status", status |-> 404]),
  Rule("r2", "response", [Everywhere EXCEPT !.path = {<<"/", "a", "b">>}, !.pathMatch = "regex"],
       <<Status(404), Body("regex", {{"a"}})>>,
       [type |-> "body_regex_replace", pattern |-> "a", replacement |-> {"b"},
        refs |-> {0}, groups |-> {0, 1}]),
  Rule("r1", "request", [Everywhere EXCEPT !.host = <<"example", "com">>], <<>>,
       [type |-> "replace_body", body |-> {"c"}]) >>

Contradiction == <<
  Rule("r1", "response", Everywhere, <<Status(200), Status(404)>>,
       [type |-> "set_status", status |-> 404]) >>

MCTexts == {
  [yaml |-> TRUE, file |-> [version |-> 1, rules |-> Chain]],
  [yaml |-> TRUE, file |-> [version |-> 0, rules |-> ByBody]],
  [yaml |-> TRUE, file |-> [version |-> 1, rules |-> Answers]],
  [yaml |-> TRUE, file |-> [version |-> 1, rules |-> Chain \o ByBody]],
  [yaml |-> TRUE, file |-> [version |-> 1, rules |-> Contradiction]] }

Req == [host |-> <<"www", "example", "com">>, path |-> <<"/", "a", "b">>, method |-> "GET"]

Msg(body) == [header |-> [h \in HeaderNames |-> IF h = "h1" THEN {{"a"}} ELSE {}],
              body |-> body, status |-> 200]

MCMessages == {
  [direction |-> "request", req |-> Req, msg |-> Msg({"a", "b"})],
  [direction |-> "request", req |-> [Req EXCEPT !.host = <<"example", "com">>], msg |-> Msg({"b"})],
  [direction |-> "response", req |-> Req, msg |-> Msg({"a"})] }

=============================================================================
