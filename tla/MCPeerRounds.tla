---------------------------- MODULE MCPeerRounds ----------------------------
(* Instances of PeerRounds for TLC: the peer objects are interchangeable.   *)
EXTENDS PeerRounds, TLC

PeerSymmetry == Permutations(Peers)
=============================================================================
