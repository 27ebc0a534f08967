---- MODULE MCCommandGate ----
(* CommandGate with two connections from two peers; the auth limit is the   *)
(* tighter of the two, over the longer window.                              *)
EXTENDS CommandGate, TLC

CONSTANTS c1, c2, p1, p2

MCConnections == {c1, c2}
MCPeers == {p1, p2}
Names == Permutations(MCConnections) \cup Permutations(MCPeers)
====
