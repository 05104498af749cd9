--------------------------- MODULE MCForwardLoop ----------------------------
EXTENDS ForwardLoop
=============================================================================
