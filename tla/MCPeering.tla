------------------------------ MODULE MCPeering ------------------------------
EXTENDS PeeringProps
==============================================================================
