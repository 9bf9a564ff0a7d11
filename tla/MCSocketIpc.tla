---------------------------- MODULE MCSocketIpc -----------------------------
EXTENDS SocketIpc
=============================================================================
