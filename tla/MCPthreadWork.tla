--------------------------- MODULE MCPthreadWork ---------------------------
\* Instances of PthreadWork for TLC.
EXTENDS PthreadWork
=============================================================================
