------------------------------- MODULE MCPeers -------------------------------
(* Peers on a small instance: p1 and p2 are two sessions of one musician. *)
EXTENDS Peers, TLC

CONSTANTS p1, p2, i1

MCIdOf == [p \in Peer |-> i1]
=============================================================================
