--------------------------- MODULE MCConnections ---------------------------
EXTENDS ConnectionManager
=============================================================================
