------------------------------- MODULE MCRelay -------------------------------
(* Relay on a small instance. *)
EXTENDS Relay, TLC

\* newRoom() always finds a cell: at most one per other room, one per other
\* goroutine and the one being scanned are in use.
ASSUME HeapAssumption == Cardinality(RoomObj) >= Cardinality(Room) + Cardinality(Conn)

Symmetry == {p \in Permutations(Conn) : \A c \in Rejoin : p[c] \in Rejoin} \cup Permutations(Peer)
=============================================================================
