---------------------------- MODULE MCTcpBackend ----------------------------
EXTENDS TcpBackend
=============================================================================
