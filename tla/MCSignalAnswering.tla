------------------------- MODULE MCSignalAnswering -------------------------
EXTENDS SignalRpc
=============================================================================
