-------------------------------- MODULE Relay --------------------------------
(***************************************************************************)
(* The hub of the WAIL relay (signaling-server/main.go): which connection  *)
(* is a member of which room, and what the SQLite tables say about it.     *)
(*                                                                         *)
(* Every WebSocket has one goroutine, conn.readPump, which handles one     *)
(* message at a time; hub.join, hub.leave and hub.updateStreams run on it. *)
(* They are not atomic: each is a chain of database statements and of      *)
(* sections under hub.mu or room.mu, and the goroutines of different       *)
(* connections interleave between any two of them.  pc says which section  *)
(* a readPump executes next; one action below is one such section.         *)
(*                                                                         *)
(* A room object is a *room on the heap.  hub.rooms names at most one      *)
(* object per room, but a goroutine that looked one up keeps its pointer   *)
(* after hub.deleteRoom forgot it.                                         *)
(***************************************************************************)
EXTENDS Integers, FiniteSets, FiniteSetsExt

CONSTANTS
  Conn,          \* WebSocket connections, each used once
  Peer,          \* peer ids; a reconnecting client keeps its id
  Room,          \* room names
  RoomObj,       \* heap objects of type *room
  Password,      \* room passwords, NoPassword included
  NoPassword,    \* the empty password: a public room
  None,          \* nil, "" or "no row"
  StreamCounts,  \* the values a client puts into stream_count
  MaxStreams,    \* maxStreamsPerPeer
  Capacity,      \* roomCapacity
  Rejoin,        \* connections on which a client may send "join" again
  Metrics,       \* is somebody reading /metrics?
  MaxRestarts    \* bound on the server's restarts

ASSUME RelayAssumption ==
  /\ None \notin Conn \cup Peer \cup Room \cup RoomObj \cup Password
  /\ IsFiniteSet(Peer)
  /\ NoPassword \in Password
  /\ StreamCounts \subseteq Int
  /\ MaxStreams \in Nat \ {0}
  /\ Capacity \in Nat
  /\ Rejoin \subseteq Conn
  /\ Metrics \in BOOLEAN
  /\ MaxRestarts \in Nat

VARIABLES
  pc,        \* pc[c]: the next section of c's readPump
  req,       \* req[c]: the join or update_streams message being handled
  loc,       \* loc[c]: readPump's locals room and peerID
  obj,       \* obj[c]: the *room held by the running join or leave
  cont,      \* cont[c]: what readPump does when its leave returns
  open,      \* open[c]: the send channel is not closed
  streams,   \* streams[c]: conn.streamCount
  rooms,     \* hub.rooms
  connMap,   \* room.connMap of every room object
  session,   \* the peers of room.activeSession, {} for nil
  stuck,     \* room objects whose mu is never unlocked again
  hubLock,   \* the connection whose deleteRoom holds hub.mu
  scan,      \* the room object whose mu snapshotMetrics holds
  peerRow,   \* table peers: stream_count, 0 where there is no row
  roomRow,   \* table rooms: password_hash
  restarts

connVars == <<pc, req, loc, obj, cont, open, streams>>
hubVars  == <<rooms, connMap, session, stuck, hubLock, scan>>
dbVars   == <<peerRow, roomRow>>
vars     == <<connVars, hubVars, dbVars, restarts>>

JoinPC   == {"auth", "capacity", "addroom", "addpeer", "getroom", "register"}
LeavePC  == {"leave", "unregister", "delpeer", "empty", "hublock", "drop", "delroom"}
PC       == JoinPC \cup LeavePC \cup {"new", "read", "resize", "exit", "closed"}

Request  == [room : Room \cup {None}, peer : Peer \cup {None}, streams : 0..MaxStreams,
             pw : Password, row : Password \cup {None}]
NoRequest == [room |-> None, peer |-> None, streams |-> 0,
              pw |-> NoPassword, row |-> None]
Nowhere  == [room |-> None, peer |-> None]

TypeOK ==
  /\ pc \in [Conn -> PC]
  /\ req \in [Conn -> Request]
  /\ loc \in [Conn -> [room : Room, peer : Peer] \cup {Nowhere}]
  /\ obj \in [Conn -> RoomObj \cup {None}]
  /\ cont \in [Conn -> {"read", "join", "exit"}]
  /\ open \in [Conn -> BOOLEAN]
  /\ streams \in [Conn -> 0..MaxStreams]
  /\ rooms \in [Room -> RoomObj \cup {None}]
  /\ connMap \in [RoomObj -> [Peer -> Conn \cup {None}]]
  /\ session \in [RoomObj -> SUBSET Peer]
  /\ stuck \in SUBSET RoomObj
  /\ hubLock \in Conn \cup {None}
  /\ scan \in RoomObj \cup {None}
  /\ peerRow \in [Room -> [Peer -> 0..MaxStreams]]
  /\ roomRow \in [Room -> Password \cup {None}]
  /\ restarts \in Nat

-----------------------------------------------------------------------------
(* State functions. *)

NoMembers == [p \in Peer |-> None]

\* The peer ids registered in a map of room.connMap's type.
MembersOf(cm) == {p \in Peer : cm[p] # None}

Members(o) == MembersOf(connMap[o])

\* The connection that getRoom(n) finds registered under p.
Member(n, p) == IF rooms[n] = None THEN None ELSE connMap[rooms[n]][p]

Live(o) == \E n \in Room : rooms[n] = o

\* room.mu can be taken.
Unlocked(o) == o \notin stuck /\ scan # o

\* A heap cell newRoom() may return: nothing points to it any more.  Members
\* do not count: a connection knows its room by name only.
Garbage(o) == ~Live(o) /\ scan # o /\ \A c \in Conn : obj[c] # o

\* The cell newRoom gets: no matter which, so that TLC need not try them all.
FreeCell == {o \in RoomObj : Garbage(o) /\ o = CHOOSE g \in RoomObj : Garbage(g)}

\* SELECT COALESCE(SUM(stream_count), 0) FROM peers WHERE room = ?
UsedSlots(n) == MapThenSumSet(LAMBDA p : peerRow[n][p], Peer)

Clamp(s) == IF s < 1 THEN 1 ELSE IF s > MaxStreams THEN MaxStreams ELSE s

Goto(c, label) == pc' = [pc EXCEPT ![c] = label]

-----------------------------------------------------------------------------
(* readPump *)

\* case "join": leave first when this connection is already in a room.  The
\* client of wail-app/signaling.go dials a new WebSocket for every join.
Join(c, n, p, s, w) ==
  /\ pc[c] \in IF c \in Rejoin THEN {"new", "read"} ELSE {"new"}
  /\ req' = [req EXCEPT ![c] = [room |-> n, peer |-> p, streams |-> Clamp(s),
                                pw |-> w, row |-> None]]
  /\ IF loc[c].room = None
     THEN Goto(c, "auth") /\ UNCHANGED cont
     ELSE Goto(c, "leave") /\ cont' = [cont EXCEPT ![c] = "join"]
  /\ UNCHANGED <<loc, obj, open, streams, hubVars, dbVars, restarts>>

\* case "leave"
Leave(c) ==
  /\ pc[c] = "read" /\ loc[c].room # None
  /\ cont' = [cont EXCEPT ![c] = "read"]
  /\ Goto(c, "leave")
  /\ UNCHANGED <<req, loc, obj, open, streams, hubVars, dbVars, restarts>>

\* Mutant: the deferred function forgets hub.leave.
DisconnectWithoutLeave(c) ==
  /\ pc[c] = "read"
  /\ Goto(c, "exit")
  /\ UNCHANGED <<req, loc, obj, cont, open, streams, hubVars, dbVars, restarts>>

\* ReadMessage fails (the client is gone, the pong deadline passed, writePump
\* closed the socket after an eviction) or the rate limit was hit 50 times:
\* the deferred function leaves the room.
Disconnect(c) ==
  /\ pc[c] = "read"
  /\ IF loc[c].room = None
     THEN Goto(c, "exit") /\ UNCHANGED cont
     ELSE Goto(c, "leave") /\ cont' = [cont EXCEPT ![c] = "exit"]
  /\ UNCHANGED <<req, loc, obj, open, streams, hubVars, dbVars, restarts>>

\* The deferred close(c.send) (a panic on a closed channel is recovered), and
\* the goroutine ends with its locals.
Exit(c) ==
  /\ pc[c] = "exit"
  /\ open' = [open EXCEPT ![c] = FALSE]
  /\ loc' = [loc EXCEPT ![c] = Nowhere]
  /\ streams' = [streams EXCEPT ![c] = 0]
  /\ Goto(c, "closed")
  /\ UNCHANGED <<req, obj, cont, hubVars, dbVars, restarts>>

-----------------------------------------------------------------------------
(* hub.join *)

\* join returns "", "", 0 and readPump stores that in its locals.
Reject(c) ==
  /\ Goto(c, "read")
  /\ loc' = [loc EXCEPT ![c] = Nowhere]
  /\ req' = [req EXCEPT ![c] = NoRequest]

\* SELECT password_hash FROM rooms and checkPassword.
JoinAuth(c) ==
  LET row == roomRow[req[c].room] IN
  /\ pc[c] = "auth"
  /\ \/ /\ row \in {None, NoPassword, req[c].pw}
        /\ req' = [req EXCEPT ![c].row = row]
        /\ Goto(c, "capacity")
        /\ UNCHANGED loc
     \/ /\ row \notin {None, NoPassword, req[c].pw}
        /\ Reject(c)
  /\ UNCHANGED <<obj, cont, open, streams, hubVars, dbVars, restarts>>

\* The room_full check: a read of the table, no reservation.
JoinCapacity(c) ==
  LET fits == UsedSlots(req[c].room) + req[c].streams <= Capacity IN
  /\ pc[c] = "capacity"
  /\ \/ /\ fits
        /\ Goto(c, IF req[c].row = None THEN "addroom" ELSE "addpeer")
        /\ UNCHANGED <<loc, req>>
     \/ ~fits /\ Reject(c)
  /\ UNCHANGED <<obj, cont, open, streams, hubVars, dbVars, restarts>>

\* INSERT OR IGNORE INTO rooms
JoinAddRoom(c) ==
  LET n == req[c].room IN
  /\ pc[c] = "addroom"
  /\ roomRow' = [roomRow EXCEPT ![n] = IF @ = None THEN req[c].pw ELSE @]
  /\ Goto(c, "addpeer")
  /\ UNCHANGED <<req, loc, obj, cont, open, streams, hubVars, peerRow, restarts>>

\* INSERT INTO peers ... ON CONFLICT DO UPDATE
JoinAddPeer(c) ==
  /\ pc[c] = "addpeer"
  /\ peerRow' = [peerRow EXCEPT ![req[c].room][req[c].peer] = req[c].streams]
  /\ Goto(c, "getroom")
  /\ UNCHANGED <<req, loc, obj, cont, open, streams, hubVars, roomRow, restarts>>

\* Mutant: h.mu is not unlocked after a room was created.
JoinGetRoomKeepsLock(c) ==
  LET n == req[c].room IN
  /\ pc[c] = "getroom"
  /\ hubLock = None
  /\ \E o \in IF rooms[n] # None THEN {rooms[n]} ELSE FreeCell :
       /\ obj' = [obj EXCEPT ![c] = o]
       /\ rooms' = [rooms EXCEPT ![n] = o]
       /\ hubLock' = IF rooms[n] = None THEN c ELSE None
  /\ Goto(c, "register")
  /\ UNCHANGED <<req, loc, cont, open, streams, connMap, session, stuck, scan, dbVars,
                 restarts>>

\* hub.getOrCreateRoom
JoinGetRoom(c) ==
  LET n == req[c].room IN
  /\ pc[c] = "getroom"
  /\ hubLock = None
  /\ \/ /\ rooms[n] # None
        /\ obj' = [obj EXCEPT ![c] = rooms[n]]
        /\ UNCHANGED <<rooms, connMap, session, stuck>>
     \/ /\ rooms[n] = None
        /\ \E o \in FreeCell :
             /\ obj' = [obj EXCEPT ![c] = o]
             /\ rooms' = [rooms EXCEPT ![n] = o]
             /\ connMap' = [connMap EXCEPT ![o] = NoMembers]
             /\ session' = [session EXCEPT ![o] = {}]
             /\ stuck' = stuck \ {o}
  /\ Goto(c, "register")
  /\ UNCHANGED <<req, loc, cont, open, streams, hubLock, scan, dbVars, restarts>>

\* The peers of the active session after p joined and the room is cm.
SessionAfterJoin(o, p, cm) ==
  IF Cardinality(MembersOf(cm)) < 2 THEN session[o]
  ELSE IF session[o] # {} THEN session[o] \cup {p} ELSE MembersOf(cm)

\* The section under room.mu: evict the peer's previous connection, register.
JoinRegister(c) ==
  LET o   == obj[c]
      p   == req[c].peer
      old == connMap[o][p]
      cm  == [connMap[o] EXCEPT ![p] = c]
  IN
  /\ pc[c] = "register"
  /\ Unlocked(o)
  /\ old \notin {None, c} => open[old]
  /\ open' = IF old \in {None, c} THEN open ELSE [open EXCEPT ![old] = FALSE]
  /\ connMap' = [connMap EXCEPT ![o] = cm]
  /\ session' = [session EXCEPT ![o] = SessionAfterJoin(o, p, cm)]
  /\ streams' = [streams EXCEPT ![c] = req[c].streams]
  /\ loc' = [loc EXCEPT ![c] = [room |-> req[c].room, peer |-> p]]
  /\ obj' = [obj EXCEPT ![c] = None]
  /\ req' = [req EXCEPT ![c] = NoRequest]
  /\ Goto(c, "read")
  /\ UNCHANGED <<cont, rooms, stuck, hubLock, scan, dbVars, restarts>>

\* The eviction closes a channel that is closed already: close panics with
\* room.mu held, readPump's deferred function runs, and net/http recovers.
JoinPanic(c) ==
  LET o   == obj[c]
      p   == req[c].peer
      old == connMap[o][p]
  IN
  /\ pc[c] = "register"
  /\ Unlocked(o)
  /\ old \notin {None, c} /\ ~open[old]
  /\ connMap' = [connMap EXCEPT ![o][p] = None]
  /\ stuck' = stuck \cup {o}
  /\ obj' = [obj EXCEPT ![c] = None]
  /\ req' = [req EXCEPT ![c] = NoRequest]
  /\ IF loc[c].room = None
     THEN Goto(c, "exit") /\ UNCHANGED cont
     ELSE Goto(c, "leave") /\ cont' = [cont EXCEPT ![c] = "exit"]
  /\ UNCHANGED <<loc, open, streams, rooms, session, hubLock, scan, dbVars, restarts>>

-----------------------------------------------------------------------------
(* hub.leave *)

\* What readPump does after leave returned.
Return(c) ==
  /\ obj' = [obj EXCEPT ![c] = None]
  /\ cont' = [cont EXCEPT ![c] = "read"]
  /\ loc' = IF cont[c] = "join" THEN loc ELSE [loc EXCEPT ![c] = Nowhere]
  /\ Goto(c, IF cont[c] = "join" THEN "auth" ELSE cont[c])

\* hub.getRoom; leave returns at once when the room has no object.
LeaveGetRoom(c) ==
  LET o == rooms[loc[c].room] IN
  /\ pc[c] = "leave"
  /\ hubLock = None
  /\ \/ /\ o # None
        /\ obj' = [obj EXCEPT ![c] = o]
        /\ Goto(c, "unregister")
        /\ UNCHANGED <<loc, cont>>
     \/ o = None /\ Return(c)
  /\ UNCHANGED <<req, open, streams, hubVars, dbVars, restarts>>

\* Mutant: whoever leaves unregisters its peer id.
LeaveUnregisterAnyone(c) ==
  LET cm == [connMap[obj[c]] EXCEPT ![loc[c].peer] = None] IN
  /\ pc[c] = "unregister"
  /\ Unlocked(obj[c])
  /\ connMap' = [connMap EXCEPT ![obj[c]] = cm]
  /\ session' = IF Cardinality(MembersOf(cm)) < 2
                THEN [session EXCEPT ![obj[c]] = {}] ELSE session
  /\ Goto(c, "delpeer")
  /\ UNCHANGED <<req, loc, obj, cont, open, streams, rooms, stuck, hubLock, scan,
                 dbVars, restarts>>

\* Mutant: the session ends only with the last member.
LeaveUnregisterKeepsSession(c) ==
  LET o == obj[c]  p == loc[c].peer IN
  /\ pc[c] = "unregister"
  /\ Unlocked(o)
  /\ connMap' = IF connMap[o][p] = c THEN [connMap EXCEPT ![o][p] = None] ELSE connMap
  /\ session' = IF Members(o) = {p} THEN [session EXCEPT ![o] = {}] ELSE session
  /\ Goto(c, "delpeer")
  /\ UNCHANGED <<req, loc, obj, cont, open, streams, rooms, stuck, hubLock, scan,
                 dbVars, restarts>>

\* The section under room.mu.  Only the registered connection unregisters.
LeaveUnregister(c) ==
  LET o  == obj[c]
      p  == loc[c].peer
      cm == [connMap[o] EXCEPT ![p] = None]
  IN
  /\ pc[c] = "unregister"
  /\ Unlocked(o)
  /\ \/ /\ connMap[o][p] = c
        /\ connMap' = [connMap EXCEPT ![o] = cm]
        /\ session' = IF Cardinality(MembersOf(cm)) < 2
                      THEN [session EXCEPT ![o] = {}] ELSE session
     \/ /\ connMap[o][p] # c
        /\ UNCHANGED <<connMap, session>>
  /\ Goto(c, "delpeer")
  /\ UNCHANGED <<req, loc, obj, cont, open, streams, rooms, stuck, hubLock, scan,
                 dbVars, restarts>>

\* DELETE FROM peers, whoever is registered under that peer id now.
LeaveDeletePeer(c) ==
  /\ pc[c] = "delpeer"
  /\ peerRow' = [peerRow EXCEPT ![loc[c].room][loc[c].peer] = 0]
  /\ Goto(c, "empty")
  /\ UNCHANGED <<req, loc, obj, cont, open, streams, hubVars, roomRow, restarts>>

\* Mutant: a connection that ends without an eviction does not look.
LeaveEmptyByEviction(c) ==
  /\ pc[c] = "empty"
  /\ Unlocked(obj[c])
  /\ IF Members(obj[c]) = {} /\ (~open[c] \/ cont[c] = "read")
     THEN Goto(c, "hublock") /\ UNCHANGED <<obj, loc, cont>>
     ELSE Return(c)
  /\ UNCHANGED <<req, open, streams, hubVars, dbVars, restarts>>

\* empty := len(r.connMap) == 0, under room.mu
LeaveEmpty(c) ==
  /\ pc[c] = "empty"
  /\ Unlocked(obj[c])
  /\ \/ /\ Members(obj[c]) = {}
        /\ Goto(c, "hublock")
        /\ UNCHANGED <<obj, loc, cont>>
     \/ Members(obj[c]) # {} /\ Return(c)
  /\ UNCHANGED <<req, open, streams, hubVars, dbVars, restarts>>

\* hub.deleteRoom takes hub.mu ...
DeleteRoomLock(c) ==
  /\ pc[c] = "hublock"
  /\ hubLock = None
  /\ hubLock' = c
  /\ Goto(c, "drop")
  /\ UNCHANGED <<req, loc, obj, cont, open, streams, rooms, connMap, session, stuck,
                 scan, dbVars, restarts>>

\* Mutant: h.mu is not unlocked after a room was dropped.
DeleteRoomKeepsLock(c) ==
  LET n == loc[c].room
      gone == rooms[n] # None /\ Members(rooms[n]) = {}
  IN
  /\ pc[c] = "drop"
  /\ rooms[n] # None => Unlocked(rooms[n])
  /\ rooms' = IF gone THEN [rooms EXCEPT ![n] = None] ELSE rooms
  /\ hubLock' = IF gone THEN c ELSE None
  /\ Goto(c, "delroom")
  /\ UNCHANGED <<req, loc, obj, cont, open, streams, connMap, session, stuck, scan,
                 dbVars, restarts>>

\* ... and, holding it, the mu of the object the room has now.
DeleteRoom(c) ==
  LET n == loc[c].room
      o == rooms[n]
  IN
  /\ pc[c] = "drop"
  /\ o # None => Unlocked(o)
  /\ rooms' = IF o # None /\ Members(o) = {} THEN [rooms EXCEPT ![n] = None] ELSE rooms
  /\ hubLock' = None
  /\ Goto(c, "delroom")
  /\ UNCHANGED <<req, loc, obj, cont, open, streams, connMap, session, stuck, scan,
                 dbVars, restarts>>

\* DELETE FROM rooms, whether or not deleteRoom still found the room empty.
LeaveDeleteRoomRow(c) ==
  /\ pc[c] = "delroom"
  /\ roomRow' = [roomRow EXCEPT ![loc[c].room] = None]
  /\ Return(c)
  /\ UNCHANGED <<req, open, streams, hubVars, peerRow, restarts>>

-----------------------------------------------------------------------------
(* hub.updateStreams: the check, then the write. *)

UpdateStreams(c, s) ==
  LET new == Clamp(s) IN
  /\ pc[c] = "read" /\ loc[c].room # None
  /\ new # streams[c]
  /\ UsedSlots(loc[c].room) - streams[c] + new <= Capacity
  /\ req' = [req EXCEPT ![c].streams = new]
  /\ Goto(c, "resize")
  /\ UNCHANGED <<loc, obj, cont, open, streams, hubVars, dbVars, restarts>>

\* UPDATE peers SET stream_count changes nothing where there is no row.
UpdateStreamsWrite(c) ==
  /\ pc[c] = "resize"
  /\ peerRow' = [peerRow EXCEPT ![loc[c].room][loc[c].peer] =
                   IF @ = 0 THEN 0 ELSE req[c].streams]
  /\ streams' = [streams EXCEPT ![c] = req[c].streams]
  /\ req' = [req EXCEPT ![c] = NoRequest]
  /\ Goto(c, "read")
  /\ UNCHANGED <<loc, obj, cont, open, hubVars, roomRow, restarts>>

-----------------------------------------------------------------------------
(* snapshotMetrics: for a room with an active session it holds room.mu     *)
(* while lookupDisplayNames takes hub.mu for reading.                      *)

ScanRoom(o) ==
  /\ Metrics
  /\ scan = None /\ o \notin stuck
  /\ session[o] # {}
  /\ scan' = o
  /\ UNCHANGED <<connVars, rooms, connMap, session, stuck, hubLock, dbVars, restarts>>

ScanNames ==
  /\ scan # None
  /\ hubLock = None
  /\ scan' = None
  /\ UNCHANGED <<connVars, rooms, connMap, session, stuck, hubLock, dbVars, restarts>>

-----------------------------------------------------------------------------
(* The server process dies and starts again: the heap is gone, openDB      *)
(* drops the rows not seen for stalePeerSec (any of them may be) and the   *)
(* rooms without a row in peers.                                           *)

Restart ==
  /\ restarts < MaxRestarts
  /\ restarts' = restarts + 1
  /\ \E stale \in SUBSET (Room \X Peer) :
       LET kept == [n \in Room |-> [p \in Peer |->
                      IF <<n, p>> \in stale THEN 0 ELSE peerRow[n][p]]]
       IN /\ peerRow' = kept
          /\ roomRow' = [n \in Room |->
               IF \E p \in Peer : kept[n][p] # 0 THEN roomRow[n] ELSE None]
  /\ pc' = [c \in Conn |-> IF pc[c] = "new" THEN "new" ELSE "closed"]
  /\ open' = [c \in Conn |-> pc[c] = "new"]
  /\ req' = [c \in Conn |-> NoRequest]
  /\ loc' = [c \in Conn |-> Nowhere]
  /\ obj' = [c \in Conn |-> None]
  /\ cont' = [c \in Conn |-> "read"]
  /\ streams' = [c \in Conn |-> 0]
  /\ rooms' = [n \in Room |-> None]
  /\ connMap' = [o \in RoomObj |-> NoMembers]
  /\ session' = [o \in RoomObj |-> {}]
  /\ stuck' = {}
  /\ hubLock' = None
  /\ scan' = None

-----------------------------------------------------------------------------
Init ==
  /\ pc = [c \in Conn |-> "new"]
  /\ req = [c \in Conn |-> NoRequest]
  /\ loc = [c \in Conn |-> Nowhere]
  /\ obj = [c \in Conn |-> None]
  /\ cont = [c \in Conn |-> "read"]
  /\ open = [c \in Conn |-> TRUE]
  /\ streams = [c \in Conn |-> 0]
  /\ rooms = [n \in Room |-> None]
  /\ connMap = [o \in RoomObj |-> NoMembers]
  /\ session = [o \in RoomObj |-> {}]
  /\ stuck = {}
  /\ hubLock = None
  /\ scan = None
  /\ peerRow = [n \in Room |-> [p \in Peer |-> 0]]
  /\ roomRow = [n \in Room |-> None]
  /\ restarts = 0

\* What clients choose to do.
Client(c) ==
  \/ \E n \in Room, p \in Peer, s \in StreamCounts, w \in Password : Join(c, n, p, s, w)
  \/ Leave(c)
  \/ Disconnect(c)
  \/ \E s \in StreamCounts : UpdateStreams(c, s)

\* What a readPump does on its own once a handler runs.
Handler(c) ==
  \/ JoinAuth(c) \/ JoinCapacity(c) \/ JoinAddRoom(c) \/ JoinAddPeer(c)
  \/ JoinGetRoom(c) \/ JoinRegister(c) \/ JoinPanic(c)
  \/ LeaveGetRoom(c) \/ LeaveUnregister(c) \/ LeaveDeletePeer(c) \/ LeaveEmpty(c)
  \/ DeleteRoomLock(c) \/ DeleteRoom(c) \/ LeaveDeleteRoomRow(c)
  \/ UpdateStreamsWrite(c) \/ Exit(c)

Next ==
  \/ \E c \in Conn : Client(c) \/ Handler(c)
  \/ \E o \in RoomObj : ScanRoom(o)
  \/ ScanNames
  \/ Restart

Spec == Init /\ [][Next]_vars

\* The Go scheduler runs every runnable goroutine and a sync.Mutex starves
\* nobody (a handler is disabled only by a mutex, hence SF); writePump closes
\* the socket of an evicted connection, so that its next read fails.
Fairness ==
  /\ \A c \in Conn : SF_vars(Handler(c)) /\ SF_vars(~open[c] /\ Disconnect(c))
  /\ WF_vars(ScanNames)

FairSpec == Spec /\ Fairness

-----------------------------------------------------------------------------
(* Safety. *)

\* A room has an active metrics session exactly while it has two members or
\* more, and the session lists every member (main.go:628-642 against 940-956).
SessionMatchesMembers ==
  \A o \in RoomObj \ stuck :
    IF Cardinality(Members(o)) < 2 THEN session[o] = {} ELSE Members(o) \subseteq session[o]

\* Every member of a room that hub.rooms names is served: its readPump runs,
\* believes in exactly this membership (so that its leave will find it), and
\* unless clients reuse connections its send channel is open - no order of
\* evictions, leaves and re-created rooms leaves a dead member behind.
MembersServed ==
  \A n \in Room, p \in Peer :
    LET c == Member(n, p) IN
    c # None =>
      /\ pc[c] \in {"read", "resize", "leave", "unregister"}
      /\ loc[c] = [room |-> n, peer |-> p]
      /\ Rejoin = {} => open[c]

\* hub.rooms does not leak: a room without members is named only while some
\* goroutine holds its pointer and will register in it or check it again.
NoLeakedRoom ==
  \A n \in Room :
    rooms[n] # None /\ rooms[n] \notin stuck /\ Members(rooms[n]) = {} =>
      \E c \in Conn : obj[c] = rooms[n]

\* The hub keeps the promise of Membership: a member goes by its own leave, by a
\* newer connection of its peer (which closes its channel in the same step), or
\* with the process.  Neither the late leave of an evicted connection nor a
\* deleteRoom decided on an older state removes somebody else.
Hub == INSTANCE Membership WITH
  Reuse   <- Rejoin # {},
  member  <- [n \in Room |-> [p \in Peer |-> Member(n, p)]],
  leaving <- {c \in Conn : pc[c] \in {"leave", "unregister"}},
  closed  <- {c \in Conn : ~open[c]}

HubImplementsMembership == Hub!Spec

\* "transmitted to all connected peers" (README.md:54): a connection that got
\* join_ok, was not evicted and has not left is in the room that everybody
\* else finds.  NOT so: deleteRoom may forget the object between
\* getOrCreateRoom and the registration; see the run relay_split.
JoinedIsMember ==
  \A c \in Conn :
    pc[c] = "read" /\ loc[c].room # None /\ open[c] => Member(loc[c].room, loc[c].peer) = c

\* hub.mu and a room.mu are never each held by a goroutine that waits for the
\* other: no broadcast, join or leave would get past getRoom again.  NOT so
\* once /metrics is read; see the run relay_wedge.
HubNotWedged ==
  ~ /\ hubLock # None /\ scan # None
    /\ rooms[loc[hubLock].room] = scan

-----------------------------------------------------------------------------
(* Liveness, unless a mutex is lost: a room.mu to the panic of JoinPanic,  *)
(* or hub.mu and a room.mu to each other.                                  *)

Hung == stuck # {} \/ ~HubNotWedged

\* A join is answered, whatever the other connections do.
JoinAnswered ==
  \A c \in Conn : pc[c] \in JoinPC ~> (pc[c] \notin JoinPC \/ Hung)

\* A connection that was evicted ends.
EvictedConnectionEnds ==
  \A c \in Conn : ~open[c] ~> (pc[c] = "closed" \/ Hung)

\* A room that nobody is in is forgotten, unless somebody joins it.
EmptyRoomForgotten ==
  \A n \in Room :
    (rooms[n] # None /\ Members(rooms[n]) = {}) ~>
      (rooms[n] = None \/ Hung \/ Members(rooms[n]) # {})
=============================================================================
