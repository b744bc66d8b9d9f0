------------------------------ MODULE Membership ------------------------------
(* What the hub of the relay (signaling-server/main.go) promises about who is  *)
(* in a room, without its locks, heap and tables: a room knows a peer by one   *)
(* connection, a newer connection of the peer closes the older one in the same *)
(* step, and otherwise a member goes by its own leave only.  Relay implements  *)
(* it.                                                                         *)
EXTENDS Naturals

CONSTANTS
  Conn, Peer, Room, None,
  Reuse        \* may a connection join more than once?

VARIABLES
  member,      \* member[n][p]: the connection that room n finds under p, or None
  leaving,     \* connections that are on their way out of their room
  closed       \* connections whose send channel is closed

vars == <<member, leaving, closed>>

Nobody == [n \in Room |-> [p \in Peer |-> None]]

\* c is in no room.
Absent(c) == \A n \in Room, p \in Peer : member[n][p] # c

Init ==
  /\ member = Nobody
  /\ leaving = {}
  /\ closed = {}

\* c becomes p's connection in n, and the one before it is evicted.
Register(c, n, p) ==
  /\ Absent(c)
  /\ c \notin leaving
  /\ Reuse \/ c \notin closed
  /\ member[n][p] \notin closed
  /\ member' = [member EXCEPT ![n][p] = c]
  /\ closed' = closed \cup ({member[n][p]} \ {None})
  /\ UNCHANGED leaving

\* c says that it leaves, or its socket fails.
StartLeave(c) ==
  /\ leaving' = leaving \cup {c}
  /\ UNCHANGED <<member, closed>>

\* c's leave: the room forgets c, and nobody but c.
Depart(c) ==
  /\ c \in leaving
  /\ leaving' = leaving \ {c}
  /\ member' = [n \in Room |-> [p \in Peer |->
                  IF member[n][p] = c THEN None ELSE member[n][p]]]
  /\ UNCHANGED closed

\* The channel of a connection in no room is closed.
Close(c) ==
  /\ Reuse \/ Absent(c)
  /\ closed' = closed \cup {c}
  /\ UNCHANGED <<member, leaving>>

\* A member that is closed already cannot be evicted: the join of d panics
\* halfway and d leaves what room it is in.
Panic(d, n, p) ==
  /\ Reuse
  /\ member[n][p] \in closed
  /\ member' = [member EXCEPT ![n][p] = None]
  /\ leaving' \in {leaving, leaving \cup {d}}
  /\ UNCHANGED closed

\* The server starts again: rooms are in memory only.
Crash ==
  /\ member' = Nobody
  /\ leaving' = {}
  /\ closed' \in SUBSET Conn

Next ==
  \/ \E c \in Conn : StartLeave(c) \/ Depart(c) \/ Close(c)
  \/ \E c \in Conn, n \in Room, p \in Peer : Register(c, n, p) \/ Panic(c, n, p)
  \/ Crash

Spec == Init /\ [][Next]_vars
=============================================================================
