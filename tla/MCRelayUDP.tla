------------------------------ MODULE MCRelayUDP ------------------------------
\* Instances of RelayUDP for TLC.
EXTENDS RelayUDP

CONSTANT c1

=============================================================================
