------------------------- MODULE MCSocketTransport -------------------------
EXTENDS SocketTransport
=============================================================================
