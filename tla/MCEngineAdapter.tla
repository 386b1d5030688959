--------------------------- MODULE MCEngineAdapter ---------------------------
EXTENDS EngineAdapter

CONSTANTS c1, c2, c3, c4
==============================================================================
