---------------------------- MODULE MCPeerArray ----------------------------
EXTENDS PeerArray, TLC

Symm == Permutations(Conn) \cup Permutations(Sub)
=============================================================================
