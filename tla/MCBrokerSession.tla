--------------------------- MODULE MCBrokerSession ---------------------------
EXTENDS BrokerSession

CONSTANTS p1, o1
=============================================================================
