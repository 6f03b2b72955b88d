--------------------------- MODULE MCPolicyRevisions ---------------------------
EXTENDS PolicyRevisions

===============================================================================
