--------------------------- MODULE MCBridgeSessions ---------------------------
EXTENDS BridgeSessions
===============================================================================
