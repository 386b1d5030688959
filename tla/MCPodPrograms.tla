---------------------------- MODULE MCPodPrograms ----------------------------
EXTENDS PodPrograms

CONSTANTS p1, p2, p3
==============================================================================
