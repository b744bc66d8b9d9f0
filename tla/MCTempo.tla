------------------------------- MODULE MCTempo -------------------------------
(* Instances of Tempo for TLC: sessions are numbers, an identity is the       *)
(* session's number and a peer id a larger one.                              *)
EXTENDS Tempo

MCIdentity == [p \in Peer |-> p]
MCPeerId   == [p \in Peer |-> 10 + p]
MCJoinBpm  == [p \in Peer |-> 100]
=============================================================================
