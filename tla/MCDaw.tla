-------------------------------- MODULE MCDaw --------------------------------
EXTENDS Daw

MCIdentity == [p \in Peer |-> p]
MCPeerId   == [p \in Peer |-> 10 + p]
MCJoinBpm  == [p \in Peer |-> 12000]

\* The tempos are such as the theorems about Daw are stated for.
ASSUME MCTuned == Tuned

\* Stream counts are rejected in rooms whose DAWs are at rest only.
Bounded == rejects > 0 => turns = 0 /\ \A p \in Daws : det[p].samples = <<>>
=============================================================================
