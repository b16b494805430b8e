------------------------------- MODULE MCHistory -------------------------------
(* A relayed and a captured connection; three exchanges, read one by one. *)
EXTENDS History

MCSource == [c \in Conns |-> IF c = "tcp" THEN "relay" ELSE "syscapture"]

=============================================================================
