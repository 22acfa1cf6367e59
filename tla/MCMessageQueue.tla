--------------------------- MODULE MCMessageQueue ---------------------------
EXTENDS MessageQueue
=============================================================================
