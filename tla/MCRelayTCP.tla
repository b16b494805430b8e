------------------------------ MODULE MCRelayTCP ------------------------------
\* Instances of RelayTCP for TLC.
EXTENDS RelayTCP

\* A question and an answer, and one more chunk in one of the directions.
MCTwoUp == [d \in Dirs |-> IF d = "up" THEN 2 ELSE 1]

MCOneEach == [d \in Dirs |-> 1]

=============================================================================
