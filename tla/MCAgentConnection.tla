------------------------- MODULE MCAgentConnection -------------------------
EXTENDS AgentConnection
=============================================================================
