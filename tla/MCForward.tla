------------------------------- MODULE MCForward -------------------------------
\* An instance of Forward for TLC: one head and one body rule, each made by
\* a rule, by a user, or left as they came.
EXTENDS Forward

CONSTANTS plain, ruled, bodyless, b0, b1

MCWire(v) == [p \in Points |-> v]

MCWireHead == MCWire(plain)

MCWireBody == MCWire(b0)

\* The request's head rule sets a header; the response's sets status 204,
\* unless a user has done something to the response already.
MCRuledHead ==
  [request  |-> [h \in Heads |-> ruled],
   response |-> [h \in Heads |-> IF h = plain THEN bodyless ELSE ruled]]

\* A rule on Content-Length declares that of what the body rule would make.
MCRuledLength == MCWire([b \in Bodies |-> b1])

MCRuledBody == MCWire([b \in Bodies |-> b1])

\* No rules, or rules on requests and on the status and body, or on the
\* Content-Length, of responses.  (What other files do is done by a reload
\* between buffering and applying.)
MCRuleSets ==
  {MCWire({})} \cup
  {[request |-> Parts, response |-> r] : r \in {{"head", "body"}, {"length"}}}

=============================================================================
