----------------------------- MODULE MCHeartbeat -----------------------------
EXTENDS HeartbeatProps
==============================================================================
