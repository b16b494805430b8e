------------------------------ MODULE MCIntercept ------------------------------
\* Instances of Intercept for TLC: requests and a response, one edit.
EXTENDS Intercept, TLC

CONSTANTS q1, q2, p1, h1, h2, plain, edited

MCGroups == {"request", "response"}

MCGroupOf == [c \in Calls |-> IF c = p1 THEN "response" ELSE "request"]

MCContents == {plain, edited}

MCReceived == [c \in Calls |-> plain]

\* Two requests, and two handlers, are interchangeable.
Symmetry == Permutations(Calls \ {p1}) \cup Permutations(Handlers)

=============================================================================
