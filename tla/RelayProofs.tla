---------------------------- MODULE RelayProofs ----------------------------
(***************************************************************************)
(* What holds of the relay hub for every set of connections, peers and     *)
(* rooms, every capacity, and clients that reuse connections or not.       *)
(***************************************************************************)
EXTENDS Relay, FiniteSetTheorems, TLAPS

(* Where a readPump stands determines what its message, its locals and its *)
(* pointer are.                                                            *)

Asked(c)  == req[c].room \in Room /\ req[c].peer \in Peer
Placed(c) == loc[c] \in [room : Room, peer : Peer]
Holds(c)  == obj[c] \in RoomObj

Control ==
  \A c \in Conn :
    /\ pc[c] \in JoinPC => Asked(c)
    /\ cont[c] = "join" => pc[c] \in LeavePC /\ Asked(c)
    /\ pc[c] \in LeavePC \cup {"resize"} => Placed(c)
    /\ Holds(c) <=> pc[c] \in {"register"} \cup (LeavePC \ {"leave"})

TypeInv == TypeOK /\ Control

\* Clamp bounds what a client declares by [1, maxStreamsPerPeer].
LEMMA ClampRange == \A s \in Int : Clamp(s) \in 1..MaxStreams
  BY RelayAssumption DEF Clamp

LEMMA TypeInvInit == Init => TypeInv
  BY RelayAssumption DEF Init, TypeInv, TypeOK, Control, Request, NoRequest, Nowhere, PC,
     JoinPC, LeavePC, NoMembers, Asked, Placed, Holds

\* Updating a field of a request gives a request.
LEMMA RequestRow ==
  ASSUME NEW r \in Request, NEW x \in Password \cup {None}
  PROVE  [r EXCEPT !.row = x] \in Request
  BY DEF Request

LEMMA RequestStreams ==
  ASSUME NEW r \in Request, NEW x \in 0..MaxStreams
  PROVE  [r EXCEPT !.streams = x] \in Request
  BY DEF Request

LEMMA TypeInvNext == TypeInv /\ [Next]_vars => TypeInv'
<1> SUFFICES ASSUME TypeInv, [Next]_vars PROVE TypeInv'
  OBVIOUS
<1> USE RelayAssumption DEF TypeInv, TypeOK, Control, Asked, Placed, Holds, PC, JoinPC, LeavePC,
        connVars, hubVars, dbVars
<1>1. ASSUME NEW c \in Conn, NEW n \in Room, NEW p \in Peer, NEW s \in StreamCounts,
             NEW w \in Password, Join(c, n, p, s, w)
      PROVE TypeInv'
  <2> DEFINE r == [room |-> n, peer |-> p, streams |-> Clamp(s), pw |-> w, row |-> None]
  <2>1. r \in Request /\ r.room \in Room /\ r.peer \in Peer
    BY ClampRange DEF Request
  <2>2. /\ pc[c] \in {"new", "read"}
        /\ req' = [req EXCEPT ![c] = r]
        /\ UNCHANGED <<loc, obj, open, streams, hubVars, dbVars, restarts>>
    BY <1>1 DEF Join
  <2> HIDE DEF r
  <2>3. CASE loc[c].room = None
    <3>1. pc' = [pc EXCEPT ![c] = "auth"] /\ UNCHANGED cont
      BY <1>1, <2>3 DEF Join, Goto
    <3> QED BY <2>1, <2>2, <3>1
  <2>4. CASE loc[c].room # None
    <3>1. pc' = [pc EXCEPT ![c] = "leave"] /\ cont' = [cont EXCEPT ![c] = "join"]
      BY <1>1, <2>4 DEF Join, Goto
    <3>2. Placed(c)
      BY <2>4 DEF Nowhere
    <3> QED BY <2>1, <2>2, <3>1, <3>2
  <2> QED BY <2>3, <2>4
<1>2. ASSUME NEW c \in Conn, Leave(c) PROVE TypeInv'
  BY <1>2 DEF Leave, Goto, Nowhere
<1>3. ASSUME NEW c \in Conn, Disconnect(c) PROVE TypeInv'
  <2>1. /\ pc[c] = "read"
        /\ UNCHANGED <<req, loc, obj, open, streams, hubVars, dbVars, restarts>>
    BY <1>3 DEF Disconnect
  <2>2. CASE loc[c].room = None
    <3>1. pc' = [pc EXCEPT ![c] = "exit"] /\ UNCHANGED cont
      BY <1>3, <2>2 DEF Disconnect, Goto
    <3> QED BY <2>1, <3>1
  <2>3. CASE loc[c].room # None
    <3>1. pc' = [pc EXCEPT ![c] = "leave"] /\ cont' = [cont EXCEPT ![c] = "exit"]
      BY <1>3, <2>3 DEF Disconnect, Goto
    <3>2. Placed(c)
      BY <2>3 DEF Nowhere
    <3> QED BY <2>1, <3>1, <3>2
  <2> QED BY <2>2, <2>3
<1>4. ASSUME NEW c \in Conn, Exit(c) PROVE TypeInv'
  BY <1>4 DEF Exit, Goto
<1>5. ASSUME NEW c \in Conn, JoinAuth(c) PROVE TypeInv'
  <2> DEFINE row == roomRow[req[c].room]
  <2>1. pc[c] = "auth" /\ UNCHANGED <<obj, cont, open, streams, hubVars, dbVars, restarts>>
    BY <1>5 DEF JoinAuth
  <2>2. CASE row \in {None, NoPassword, req[c].pw}
    <3>1. /\ req' = [req EXCEPT ![c].row = row]
          /\ pc' = [pc EXCEPT ![c] = "capacity"]
          /\ UNCHANGED loc
      BY <1>5, <2>2 DEF JoinAuth, Goto
    <3>2. [req[c] EXCEPT !.row = row] \in Request
      BY <2>1, RequestRow
    <3>3. Asked(c)'
      BY <2>1, <3>1
    <3> QED BY <2>1, <3>1, <3>2, <3>3
  <2>3. CASE row \notin {None, NoPassword, req[c].pw}
    <3>1. Reject(c)
      BY <1>5, <2>3 DEF JoinAuth
    <3> QED BY <2>1, <3>1 DEF Reject, Goto, NoRequest, Request
  <2> QED BY <2>2, <2>3
<1>6. ASSUME NEW c \in Conn, JoinCapacity(c) PROVE TypeInv'
  <2> DEFINE fits == UsedSlots(req[c].room) + req[c].streams <= Capacity
  <2>1. pc[c] = "capacity" /\ UNCHANGED <<obj, cont, open, streams, hubVars, dbVars, restarts>>
    BY <1>6 DEF JoinCapacity
  <2>2. CASE fits
    <3>1. /\ pc' = [pc EXCEPT ![c] = IF req[c].row = None THEN "addroom" ELSE "addpeer"]
          /\ UNCHANGED <<loc, req>>
      BY <1>6, <2>2 DEF JoinCapacity, Goto
    <3> QED BY <2>1, <3>1
  <2>3. CASE ~fits
    <3>1. Reject(c)
      BY <1>6, <2>3 DEF JoinCapacity
    <3> QED BY <2>1, <3>1 DEF Reject, Goto, NoRequest, Request
  <2> QED BY <2>2, <2>3
<1>7. ASSUME NEW c \in Conn, JoinAddRoom(c) PROVE TypeInv'
  BY <1>7 DEF JoinAddRoom, Goto, Request
<1>8. ASSUME NEW c \in Conn, JoinAddPeer(c) PROVE TypeInv'
  BY <1>8 DEF JoinAddPeer, Goto, Request
<1>9. ASSUME NEW c \in Conn, JoinGetRoom(c) PROVE TypeInv'
  <2> DEFINE n == req[c].room
  <2>1. /\ pc[c] = "getroom" /\ pc' = [pc EXCEPT ![c] = "register"]
        /\ UNCHANGED <<req, loc, cont, open, streams, hubLock, scan, dbVars, restarts>>
    BY <1>9 DEF JoinGetRoom, Goto
  <2>2. CASE rooms[n] # None
    <3>1. obj' = [obj EXCEPT ![c] = rooms[n]] /\ UNCHANGED <<rooms, connMap, session, stuck>>
      BY <1>9, <2>2 DEF JoinGetRoom
    <3> QED BY <2>1, <2>2, <3>1
  <2>3. CASE rooms[n] = None
    <3>1. PICK o \in RoomObj :
            /\ obj' = [obj EXCEPT ![c] = o]
            /\ rooms' = [rooms EXCEPT ![n] = o]
            /\ connMap' = [connMap EXCEPT ![o] = NoMembers]
            /\ session' = [session EXCEPT ![o] = {}]
            /\ stuck' = stuck \ {o}
      BY <1>9, <2>3 DEF JoinGetRoom, FreeCell
    <3>2. NoMembers \in [Peer -> Conn \cup {None}]
      BY DEF NoMembers
    <3> QED BY <2>1, <3>1, <3>2
  <2> QED BY <2>2, <2>3
<1>10. ASSUME NEW c \in Conn, JoinRegister(c) PROVE TypeInv'
  BY <1>10 DEF JoinRegister, SessionAfterJoin, MembersOf, Goto, Request, NoRequest
<1>11. ASSUME NEW c \in Conn, JoinPanic(c) PROVE TypeInv'
  <2>1. /\ pc[c] = "register"
        /\ connMap' = [connMap EXCEPT ![obj[c]][req[c].peer] = None]
        /\ stuck' = stuck \cup {obj[c]}
        /\ obj' = [obj EXCEPT ![c] = None]
        /\ req' = [req EXCEPT ![c] = NoRequest]
        /\ UNCHANGED <<loc, open, streams, rooms, session, hubLock, scan, dbVars, restarts>>
    BY <1>11 DEF JoinPanic
  <2>2. NoRequest \in Request
    BY DEF NoRequest, Request
  <2>3. CASE loc[c].room = None
    <3>1. pc' = [pc EXCEPT ![c] = "exit"] /\ UNCHANGED cont
      BY <1>11, <2>3 DEF JoinPanic, Goto
    <3> QED BY <2>1, <2>2, <3>1
  <2>4. CASE loc[c].room # None
    <3>1. pc' = [pc EXCEPT ![c] = "leave"] /\ cont' = [cont EXCEPT ![c] = "exit"]
      BY <1>11, <2>4 DEF JoinPanic, Goto
    <3>2. Placed(c)
      BY <2>4 DEF Nowhere
    <3> QED BY <2>1, <2>2, <3>1, <3>2
  <2> QED BY <2>3, <2>4
<1>12. ASSUME NEW c \in Conn, LeaveGetRoom(c) PROVE TypeInv'
  <2>1. pc[c] = "leave" /\ UNCHANGED <<req, open, streams, hubVars, dbVars, restarts>>
    BY <1>12 DEF LeaveGetRoom
  <2>2. CASE rooms[loc[c].room] # None
    <3>1. /\ obj' = [obj EXCEPT ![c] = rooms[loc[c].room]]
          /\ pc' = [pc EXCEPT ![c] = "unregister"]
          /\ UNCHANGED <<loc, cont>>
      BY <1>12, <2>2 DEF LeaveGetRoom, Goto
    <3> QED BY <2>1, <2>2, <3>1
  <2>3. CASE rooms[loc[c].room] = None
    <3>1. Return(c)
      BY <1>12, <2>3 DEF LeaveGetRoom
    <3> QED BY <2>1, <3>1 DEF Return, Goto
  <2> QED BY <2>2, <2>3
<1>13. ASSUME NEW c \in Conn, LeaveUnregister(c) PROVE TypeInv'
  <2> DEFINE cm == [connMap[obj[c]] EXCEPT ![loc[c].peer] = None]
  <2>1. /\ pc[c] = "unregister" /\ pc' = [pc EXCEPT ![c] = "delpeer"]
        /\ UNCHANGED <<req, loc, obj, cont, open, streams, rooms, stuck, hubLock, scan,
                       dbVars, restarts>>
    BY <1>13 DEF LeaveUnregister, Goto
  <2>2. cm \in [Peer -> Conn \cup {None}]
    BY <2>1
  <2> DEFINE Maps == [RoomObj -> [Peer -> Conn \cup {None}]]
  <2>3. connMap' = connMap \/ connMap' = [connMap EXCEPT ![obj[c]] = cm]
    BY <1>13 DEF LeaveUnregister
  <2>4. session' = session \/ session' = [session EXCEPT ![obj[c]] = {}]
    BY <1>13 DEF LeaveUnregister
  <2> HIDE DEF cm
  <2>5. connMap' \in Maps
    <3>1. connMap \in Maps
      OBVIOUS
    <3>2. CASE connMap' = connMap
      BY <3>1, <3>2
    <3>3. CASE connMap' = [connMap EXCEPT ![obj[c]] = cm]
      BY <3>1, <3>3, <2>2
    <3> QED BY <2>3, <3>2, <3>3
  <2>6. session' \in [RoomObj -> SUBSET Peer]
    BY <2>4
  <2> QED BY <2>1, <2>5, <2>6
<1>14. ASSUME NEW c \in Conn, LeaveDeletePeer(c) PROVE TypeInv'
  BY <1>14 DEF LeaveDeletePeer, Goto
<1>15. ASSUME NEW c \in Conn, LeaveEmpty(c) PROVE TypeInv'
  <2>1. pc[c] = "empty" /\ UNCHANGED <<req, open, streams, hubVars, dbVars, restarts>>
    BY <1>15 DEF LeaveEmpty
  <2>2. CASE Members(obj[c]) = {}
    <3>1. pc' = [pc EXCEPT ![c] = "hublock"] /\ UNCHANGED <<obj, loc, cont>>
      BY <1>15, <2>2 DEF LeaveEmpty, Goto
    <3> QED BY <2>1, <3>1
  <2>3. CASE Members(obj[c]) # {}
    <3>1. Return(c)
      BY <1>15, <2>3 DEF LeaveEmpty
    <3> QED BY <2>1, <3>1 DEF Return, Goto
  <2> QED BY <2>2, <2>3
<1>16. ASSUME NEW c \in Conn, DeleteRoomLock(c) PROVE TypeInv'
  BY <1>16 DEF DeleteRoomLock, Goto
<1>17. ASSUME NEW c \in Conn, DeleteRoom(c) PROVE TypeInv'
  BY <1>17 DEF DeleteRoom, Goto
<1>18. ASSUME NEW c \in Conn, LeaveDeleteRoomRow(c) PROVE TypeInv'
  BY <1>18 DEF LeaveDeleteRoomRow, Return, Goto
<1>19. ASSUME NEW c \in Conn, NEW s \in StreamCounts, UpdateStreams(c, s) PROVE TypeInv'
  <2>1. Clamp(s) \in 0..MaxStreams
    BY ClampRange
  <2>2. /\ pc[c] = "read" /\ loc[c].room # None
        /\ req' = [req EXCEPT ![c].streams = Clamp(s)]
        /\ pc' = [pc EXCEPT ![c] = "resize"]
        /\ UNCHANGED <<loc, obj, cont, open, streams, hubVars, dbVars, restarts>>
    BY <1>19 DEF UpdateStreams, Goto
  <2>3. [req[c] EXCEPT !.streams = Clamp(s)] \in Request
    BY <2>1, RequestStreams
  <2>4. Placed(c)
    BY <2>2 DEF Nowhere
  <2> QED BY <2>2, <2>3, <2>4
<1>20. ASSUME NEW c \in Conn, UpdateStreamsWrite(c) PROVE TypeInv'
  BY <1>20 DEF UpdateStreamsWrite, Goto, Request, NoRequest
<1>21. ASSUME NEW o \in RoomObj, ScanRoom(o) PROVE TypeInv'
  BY <1>21 DEF ScanRoom
<1>22. CASE ScanNames
  BY <1>22 DEF ScanNames
<1>23. CASE Restart
  BY <1>23 DEF Restart, NoMembers, Request, NoRequest
<1>24. CASE UNCHANGED vars
  BY <1>24 DEF vars
<1> QED
  BY <1>1, <1>2, <1>3, <1>4, <1>5, <1>6, <1>7, <1>8, <1>9, <1>10, <1>11, <1>12, <1>13, <1>14,
     <1>15, <1>16, <1>17, <1>18, <1>19, <1>20, <1>21, <1>22, <1>23, <1>24
  DEF Next, Client, Handler

\* The hub's state keeps its type, and a section never runs with a missing
\* room name, peer id or pointer: nothing is dereferenced that is nil.
THEOREM TypeCorrect == Spec => []TypeOK
<1>1. Spec => []TypeInv
  BY TypeInvInit, TypeInvNext, PTL DEF Spec
<1> QED BY <1>1, PTL DEF TypeInv

-----------------------------------------------------------------------------
(* The inductive invariant behind the safety properties.                   *)

\* No object serves two rooms, and a connection that joins once is
\* registered once, in whatever object.
Distinct ==
  /\ \A m, n \in Room : rooms[m] # None /\ rooms[m] = rooms[n] => m = n
  /\ Rejoin = {} => \A o1, o2 \in RoomObj, p1, p2 \in Peer :
       connMap[o1][p1] # None /\ connMap[o1][p1] = connMap[o2][p2] => o1 = o2 /\ p1 = p2

\* c holds the object of a live room on behalf of that room only.
HoldsOwnRoom(c) ==
  \A n \in Room : obj[c] # None /\ obj[c] = rooms[n] =>
    /\ pc[c] = "register" => req[c].room = n
    /\ pc[c] \in LeavePC => loc[c].room = n

\* MembersServed, and a member that leaves holds the right object.
ServedMember(c) ==
  \A n \in Room, p \in Peer : Member(n, p) = c =>
    /\ pc[c] \in {"read", "resize", "leave", "unregister"}
    /\ loc[c] = [room |-> n, peer |-> p]
    /\ pc[c] = "unregister" => obj[c] = rooms[n]
    /\ Rejoin = {} => open[c]

\* Unless clients reuse connections, c is open and in no object before it
\* registered.
JoinsOnce(c) ==
  Rejoin = {} =>
    /\ cont[c] # "join"
    /\ pc[c] = "new" => loc[c] = Nowhere
    /\ pc[c] \in JoinPC \cup {"new"} =>
         open[c] /\ \A o \in RoomObj, p \in Peer : connMap[o][p] # c

Own(c) == HoldsOwnRoom(c) /\ ServedMember(c) /\ JoinsOnce(c)

\* NoLeakedRoom, where a leave that is past deleteRoom does not count.
Witnesses == {"register"} \cup (LeavePC \ {"leave", "delroom"})

Minded ==
  \A n \in Room :
    rooms[n] # None /\ rooms[n] \notin stuck /\ Members(rooms[n]) = {} =>
      \E c \in Conn : obj[c] = rooms[n] /\ pc[c] \in Witnesses

IndInv == Distinct /\ (\A c \in Conn : Own(c)) /\ Minded /\ SessionMatchesMembers

LEMMA IndInvInit == Init => IndInv
<1> SUFFICES ASSUME Init PROVE IndInv
  OBVIOUS
<1>1. \A o \in RoomObj : Members(o) = {} /\ session[o] = {}
  BY DEF Init, Members, MembersOf, NoMembers
<1>2. SessionMatchesMembers
  BY <1>1, FS_EmptySet DEF SessionMatchesMembers
<1> QED
  BY <1>2, RelayAssumption DEF Init, IndInv, Distinct, Own, HoldsOwnRoom, ServedMember,
     JoinsOnce, Minded, Member, NoMembers

OthersKeep(c) ==
  \A d \in Conn \ {c} : /\ pc'[d] = pc[d] /\ req'[d] = req[d] /\ loc'[d] = loc[d]
                        /\ obj'[d] = obj[d] /\ cont'[d] = cont[d] /\ open'[d] = open[d]

\* A step of c that touches neither hub.rooms nor any connMap keeps the
\* invariant if c's own pc, locals and pointer stay in order.
LEMMA ControlStep ==
  ASSUME TypeInv, IndInv, NEW c \in Conn,
         UNCHANGED <<rooms, connMap, session, stuck>>, OthersKeep(c), Own(c)',
         \A n \in Room :
           /\ rooms[n] # None /\ Members(rooms[n]) = {}
           /\ obj[c] = rooms[n] /\ pc[c] \in Witnesses
           => obj'[c] = obj[c] /\ pc'[c] \in Witnesses
  PROVE  IndInv'
<1> USE RelayAssumption DEF IndInv, OthersKeep
<1>1. Distinct'
  BY DEF Distinct
<1>2. ASSUME NEW d \in Conn PROVE Own(d)'
  <2>1. CASE d = c
    BY <2>1
  <2>2. CASE d # c
    BY <2>2 DEF Own, HoldsOwnRoom, ServedMember, JoinsOnce, Member
  <2> QED BY <2>1, <2>2
<1>3. Minded'
  BY DEF Minded, Members
<1>4. SessionMatchesMembers'
  BY DEF SessionMatchesMembers, Members
<1> QED BY <1>1, <1>2, <1>3, <1>4

LEMMA ControlNext ==
  ASSUME TypeInv, TypeInv', IndInv, NEW c \in Conn
  PROVE  /\ Client(c) => IndInv'
         /\ JoinAuth(c) \/ JoinCapacity(c) \/ JoinAddRoom(c) \/ JoinAddPeer(c) => IndInv'
         /\ LeaveGetRoom(c) \/ LeaveDeletePeer(c) \/ LeaveEmpty(c) => IndInv'
         /\ DeleteRoomLock(c) \/ LeaveDeleteRoomRow(c) => IndInv'
         /\ UpdateStreamsWrite(c) \/ Exit(c) => IndInv'
<1> USE RelayAssumption DEF TypeInv, TypeOK, hubVars, dbVars, connVars, Goto
<1>0. Own(c)
  BY DEF IndInv
<1>1. ASSUME NEW nm \in Room, NEW p \in Peer, NEW s \in StreamCounts, NEW w \in Password,
             Join(c, nm, p, s, w) PROVE IndInv'
  <2>1. UNCHANGED <<rooms, connMap, session, stuck>> /\ OthersKeep(c)
    BY <1>1 DEF Join, OthersKeep
  <2>2. HoldsOwnRoom(c)'
    <3>1. obj'[c] = None
      BY <1>1 DEF Join, Control, Holds, LeavePC
    <3> QED BY <3>1 DEF HoldsOwnRoom
  <2>3. ServedMember(c)'
    BY <1>0, <1>1, <2>1 DEF Join, Own, ServedMember, Member
  <2>4. JoinsOnce(c)'
    <3>1. CASE Rejoin # {}
      BY <3>1 DEF JoinsOnce
    <3>2. CASE Rejoin = {}
      <4>1. pc[c] = "new" /\ loc[c].room = None
        BY <1>0, <1>1, <3>2 DEF Join, Own, JoinsOnce, Nowhere
      <4> QED BY <1>0, <1>1, <3>2, <4>1 DEF Join, Own, JoinsOnce
    <3> QED BY <3>1, <3>2
  <2>5. \A n \in Room : /\ rooms[n] # None /\ Members(rooms[n]) = {}
                       /\ obj[c] = rooms[n] /\ pc[c] \in Witnesses
                       => obj'[c] = obj[c] /\ pc'[c] \in Witnesses
    BY <1>1 DEF Join, Witnesses, LeavePC
  <2> QED BY <2>1, <2>2, <2>3, <2>4, <2>5, ControlStep DEF Own
<1>2. ASSUME Leave(c) PROVE IndInv'
  <2>1. UNCHANGED <<rooms, connMap, session, stuck>> /\ OthersKeep(c)
    BY <1>2 DEF Leave, OthersKeep
  <2>2. HoldsOwnRoom(c)'
    <3>1. obj'[c] = None
      BY <1>2 DEF Leave, Control, Holds, LeavePC
    <3> QED BY <3>1 DEF HoldsOwnRoom
  <2>3. ServedMember(c)'
    BY <1>0, <1>2, <2>1 DEF Leave, Own, ServedMember, Member
  <2>4. JoinsOnce(c)'
    BY <1>0, <1>2, <2>1 DEF Leave, Own, JoinsOnce, JoinPC
  <2>5. \A n \in Room : /\ rooms[n] # None /\ Members(rooms[n]) = {}
                       /\ obj[c] = rooms[n] /\ pc[c] \in Witnesses
                       => obj'[c] = obj[c] /\ pc'[c] \in Witnesses
    BY <1>2 DEF Leave, Witnesses, LeavePC
  <2> QED BY <2>1, <2>2, <2>3, <2>4, <2>5, ControlStep DEF Own
<1>3. ASSUME Disconnect(c) PROVE IndInv'
  <2>1. UNCHANGED <<rooms, connMap, session, stuck>> /\ OthersKeep(c)
    BY <1>3 DEF Disconnect, OthersKeep
  <2>2. HoldsOwnRoom(c)'
    <3>1. obj'[c] = None
      BY <1>3 DEF Disconnect, Control, Holds, LeavePC
    <3> QED BY <3>1 DEF HoldsOwnRoom
  <2>3. ServedMember(c)'
    BY <1>0, <1>3, <2>1 DEF Disconnect, Own, ServedMember, Member
  <2>4. JoinsOnce(c)'
    BY <1>0, <1>3, <2>1 DEF Disconnect, Own, JoinsOnce, JoinPC
  <2>5. \A n \in Room : /\ rooms[n] # None /\ Members(rooms[n]) = {}
                       /\ obj[c] = rooms[n] /\ pc[c] \in Witnesses
                       => obj'[c] = obj[c] /\ pc'[c] \in Witnesses
    BY <1>3 DEF Disconnect, Witnesses, LeavePC
  <2> QED BY <2>1, <2>2, <2>3, <2>4, <2>5, ControlStep DEF Own
<1>4. ASSUME Exit(c) PROVE IndInv'
  <2>1. UNCHANGED <<rooms, connMap, session, stuck>> /\ OthersKeep(c)
    BY <1>4 DEF Exit, OthersKeep
  <2>2. HoldsOwnRoom(c)'
    BY <1>0, <1>4, <2>1 DEF Exit, Own, HoldsOwnRoom, LeavePC, JoinPC
  <2>3. ServedMember(c)'
    BY <1>0, <1>4, <2>1 DEF Exit, Own, ServedMember, Member
  <2>4. JoinsOnce(c)'
    BY <1>0, <1>4, <2>1 DEF Exit, Own, JoinsOnce, JoinPC
  <2>5. \A n \in Room : /\ rooms[n] # None /\ Members(rooms[n]) = {}
                       /\ obj[c] = rooms[n] /\ pc[c] \in Witnesses
                       => obj'[c] = obj[c] /\ pc'[c] \in Witnesses
    BY <1>4 DEF Exit, Witnesses, LeavePC
  <2> QED BY <2>1, <2>2, <2>3, <2>4, <2>5, ControlStep DEF Own
<1>5. ASSUME JoinAuth(c) PROVE IndInv'
  <2>1. UNCHANGED <<rooms, connMap, session, stuck>> /\ OthersKeep(c)
    BY <1>5 DEF JoinAuth, Reject, OthersKeep
  <2>2. HoldsOwnRoom(c)'
    BY <1>0, <1>5, <2>1 DEF JoinAuth, Reject, Own, HoldsOwnRoom, LeavePC, JoinPC
  <2>3. ServedMember(c)'
    BY <1>0, <1>5, <2>1 DEF JoinAuth, Reject, Own, ServedMember, Member
  <2>4. JoinsOnce(c)'
    BY <1>0, <1>5, <2>1 DEF JoinAuth, Reject, Own, JoinsOnce, JoinPC
  <2>5. \A n \in Room : /\ rooms[n] # None /\ Members(rooms[n]) = {}
                       /\ obj[c] = rooms[n] /\ pc[c] \in Witnesses
                       => obj'[c] = obj[c] /\ pc'[c] \in Witnesses
    BY <1>5 DEF JoinAuth, Reject, Witnesses, LeavePC
  <2> QED BY <2>1, <2>2, <2>3, <2>4, <2>5, ControlStep DEF Own
<1>6. ASSUME JoinCapacity(c) PROVE IndInv'
  <2>1. UNCHANGED <<rooms, connMap, session, stuck>> /\ OthersKeep(c)
    BY <1>6 DEF JoinCapacity, Reject, OthersKeep
  <2>2. HoldsOwnRoom(c)'
    BY <1>0, <1>6, <2>1 DEF JoinCapacity, Reject, Own, HoldsOwnRoom, LeavePC, JoinPC
  <2>3. ServedMember(c)'
    BY <1>0, <1>6, <2>1 DEF JoinCapacity, Reject, Own, ServedMember, Member
  <2>4. JoinsOnce(c)'
    BY <1>0, <1>6, <2>1 DEF JoinCapacity, Reject, Own, JoinsOnce, JoinPC
  <2>5. \A n \in Room : /\ rooms[n] # None /\ Members(rooms[n]) = {}
                       /\ obj[c] = rooms[n] /\ pc[c] \in Witnesses
                       => obj'[c] = obj[c] /\ pc'[c] \in Witnesses
    BY <1>6 DEF JoinCapacity, Reject, Witnesses, LeavePC
  <2> QED BY <2>1, <2>2, <2>3, <2>4, <2>5, ControlStep DEF Own
<1>7. ASSUME JoinAddRoom(c) PROVE IndInv'
  <2>1. UNCHANGED <<rooms, connMap, session, stuck>> /\ OthersKeep(c)
    BY <1>7 DEF JoinAddRoom, OthersKeep
  <2>2. HoldsOwnRoom(c)'
    BY <1>0, <1>7, <2>1 DEF JoinAddRoom, Own, HoldsOwnRoom, LeavePC, JoinPC
  <2>3. ServedMember(c)'
    BY <1>0, <1>7, <2>1 DEF JoinAddRoom, Own, ServedMember, Member
  <2>4. JoinsOnce(c)'
    BY <1>0, <1>7, <2>1 DEF JoinAddRoom, Own, JoinsOnce, JoinPC
  <2>5. \A n \in Room : /\ rooms[n] # None /\ Members(rooms[n]) = {}
                       /\ obj[c] = rooms[n] /\ pc[c] \in Witnesses
                       => obj'[c] = obj[c] /\ pc'[c] \in Witnesses
    BY <1>7 DEF JoinAddRoom, Witnesses, LeavePC
  <2> QED BY <2>1, <2>2, <2>3, <2>4, <2>5, ControlStep DEF Own
<1>8. ASSUME JoinAddPeer(c) PROVE IndInv'
  <2>1. UNCHANGED <<rooms, connMap, session, stuck>> /\ OthersKeep(c)
    BY <1>8 DEF JoinAddPeer, OthersKeep
  <2>2. HoldsOwnRoom(c)'
    BY <1>0, <1>8, <2>1 DEF JoinAddPeer, Own, HoldsOwnRoom, LeavePC, JoinPC
  <2>3. ServedMember(c)'
    BY <1>0, <1>8, <2>1 DEF JoinAddPeer, Own, ServedMember, Member
  <2>4. JoinsOnce(c)'
    BY <1>0, <1>8, <2>1 DEF JoinAddPeer, Own, JoinsOnce, JoinPC
  <2>5. \A n \in Room : /\ rooms[n] # None /\ Members(rooms[n]) = {}
                       /\ obj[c] = rooms[n] /\ pc[c] \in Witnesses
                       => obj'[c] = obj[c] /\ pc'[c] \in Witnesses
    BY <1>8 DEF JoinAddPeer, Witnesses, LeavePC
  <2> QED BY <2>1, <2>2, <2>3, <2>4, <2>5, ControlStep DEF Own
<1>9. ASSUME LeaveGetRoom(c) PROVE IndInv'
  <2>1. UNCHANGED <<rooms, connMap, session, stuck>> /\ OthersKeep(c)
    BY <1>9 DEF LeaveGetRoom, Return, OthersKeep
  <2>2. HoldsOwnRoom(c)'
    <3>1. pc[c] = "leave" /\ loc[c].room \in Room
      BY <1>9 DEF LeaveGetRoom, Control, Placed, LeavePC
    <3>2. CASE rooms[loc[c].room] = None
      BY <1>9, <3>2 DEF LeaveGetRoom, Return, HoldsOwnRoom
    <3>3. CASE rooms[loc[c].room] # None
      <4>1. obj'[c] = rooms[loc[c].room] /\ pc'[c] = "unregister" /\ UNCHANGED <<rooms, loc>>
        BY <1>9, <3>3 DEF LeaveGetRoom
      <4> QED BY <3>1, <3>3, <4>1 DEF HoldsOwnRoom, IndInv, Distinct
    <3> QED BY <3>2, <3>3
  <2>3. ServedMember(c)'
    BY <1>0, <1>9, <2>1 DEF LeaveGetRoom, Return, Own, ServedMember, Member
  <2>4. JoinsOnce(c)'
    BY <1>0, <1>9, <2>1 DEF LeaveGetRoom, Return, Own, JoinsOnce, JoinPC
  <2>5. \A n \in Room : /\ rooms[n] # None /\ Members(rooms[n]) = {}
                       /\ obj[c] = rooms[n] /\ pc[c] \in Witnesses
                       => obj'[c] = obj[c] /\ pc'[c] \in Witnesses
    BY <1>9 DEF LeaveGetRoom, Return, Witnesses, LeavePC
  <2> QED BY <2>1, <2>2, <2>3, <2>4, <2>5, ControlStep DEF Own
<1>10. ASSUME LeaveDeletePeer(c) PROVE IndInv'
  <2>1. UNCHANGED <<rooms, connMap, session, stuck>> /\ OthersKeep(c)
    BY <1>10 DEF LeaveDeletePeer, OthersKeep
  <2>2. HoldsOwnRoom(c)'
    BY <1>0, <1>10, <2>1 DEF LeaveDeletePeer, Own, HoldsOwnRoom, LeavePC, JoinPC
  <2>3. ServedMember(c)'
    BY <1>0, <1>10, <2>1 DEF LeaveDeletePeer, Own, ServedMember, Member
  <2>4. JoinsOnce(c)'
    BY <1>0, <1>10, <2>1 DEF LeaveDeletePeer, Own, JoinsOnce, JoinPC
  <2>5. \A n \in Room : /\ rooms[n] # None /\ Members(rooms[n]) = {}
                       /\ obj[c] = rooms[n] /\ pc[c] \in Witnesses
                       => obj'[c] = obj[c] /\ pc'[c] \in Witnesses
    BY <1>10 DEF LeaveDeletePeer, Witnesses, LeavePC
  <2> QED BY <2>1, <2>2, <2>3, <2>4, <2>5, ControlStep DEF Own
<1>11. ASSUME LeaveEmpty(c) PROVE IndInv'
  <2>1. UNCHANGED <<rooms, connMap, session, stuck>> /\ OthersKeep(c)
    BY <1>11 DEF LeaveEmpty, Return, OthersKeep
  <2>2. HoldsOwnRoom(c)'
    BY <1>0, <1>11, <2>1 DEF LeaveEmpty, Return, Own, HoldsOwnRoom, LeavePC, JoinPC
  <2>3. ServedMember(c)'
    BY <1>0, <1>11, <2>1 DEF LeaveEmpty, Return, Own, ServedMember, Member
  <2>4. JoinsOnce(c)'
    BY <1>0, <1>11, <2>1 DEF LeaveEmpty, Return, Own, JoinsOnce, JoinPC
  <2>5. \A n \in Room : /\ rooms[n] # None /\ Members(rooms[n]) = {}
                       /\ obj[c] = rooms[n] /\ pc[c] \in Witnesses
                       => obj'[c] = obj[c] /\ pc'[c] \in Witnesses
    BY <1>11 DEF LeaveEmpty, Return, Witnesses, LeavePC
  <2> QED BY <2>1, <2>2, <2>3, <2>4, <2>5, ControlStep DEF Own
<1>12. ASSUME DeleteRoomLock(c) PROVE IndInv'
  <2>1. UNCHANGED <<rooms, connMap, session, stuck>> /\ OthersKeep(c)
    BY <1>12 DEF DeleteRoomLock, OthersKeep
  <2>2. HoldsOwnRoom(c)'
    BY <1>0, <1>12, <2>1 DEF DeleteRoomLock, Own, HoldsOwnRoom, LeavePC, JoinPC
  <2>3. ServedMember(c)'
    BY <1>0, <1>12, <2>1 DEF DeleteRoomLock, Own, ServedMember, Member
  <2>4. JoinsOnce(c)'
    BY <1>0, <1>12, <2>1 DEF DeleteRoomLock, Own, JoinsOnce, JoinPC
  <2>5. \A n \in Room : /\ rooms[n] # None /\ Members(rooms[n]) = {}
                       /\ obj[c] = rooms[n] /\ pc[c] \in Witnesses
                       => obj'[c] = obj[c] /\ pc'[c] \in Witnesses
    BY <1>12 DEF DeleteRoomLock, Witnesses, LeavePC
  <2> QED BY <2>1, <2>2, <2>3, <2>4, <2>5, ControlStep DEF Own
<1>13. ASSUME LeaveDeleteRoomRow(c) PROVE IndInv'
  <2>1. UNCHANGED <<rooms, connMap, session, stuck>> /\ OthersKeep(c)
    BY <1>13 DEF LeaveDeleteRoomRow, Return, OthersKeep
  <2>2. HoldsOwnRoom(c)'
    BY <1>0, <1>13, <2>1 DEF LeaveDeleteRoomRow, Return, Own, HoldsOwnRoom, LeavePC, JoinPC
  <2>3. ServedMember(c)'
    BY <1>0, <1>13, <2>1 DEF LeaveDeleteRoomRow, Return, Own, ServedMember, Member
  <2>4. JoinsOnce(c)'
    BY <1>0, <1>13, <2>1 DEF LeaveDeleteRoomRow, Return, Own, JoinsOnce, JoinPC
  <2>5. \A n \in Room : /\ rooms[n] # None /\ Members(rooms[n]) = {}
                       /\ obj[c] = rooms[n] /\ pc[c] \in Witnesses
                       => obj'[c] = obj[c] /\ pc'[c] \in Witnesses
    BY <1>13 DEF LeaveDeleteRoomRow, Return, Witnesses, LeavePC
  <2> QED BY <2>1, <2>2, <2>3, <2>4, <2>5, ControlStep DEF Own
<1>14. ASSUME NEW s \in StreamCounts, UpdateStreams(c, s) PROVE IndInv'
  <2>1. UNCHANGED <<rooms, connMap, session, stuck>> /\ OthersKeep(c)
    BY <1>14 DEF UpdateStreams, OthersKeep
  <2>2. HoldsOwnRoom(c)'
    BY <1>0, <1>14, <2>1 DEF UpdateStreams, Own, HoldsOwnRoom, LeavePC, JoinPC
  <2>3. ServedMember(c)'
    BY <1>0, <1>14, <2>1 DEF UpdateStreams, Own, ServedMember, Member
  <2>4. JoinsOnce(c)'
    BY <1>0, <1>14, <2>1 DEF UpdateStreams, Own, JoinsOnce, JoinPC
  <2>5. \A n \in Room : /\ rooms[n] # None /\ Members(rooms[n]) = {}
                       /\ obj[c] = rooms[n] /\ pc[c] \in Witnesses
                       => obj'[c] = obj[c] /\ pc'[c] \in Witnesses
    BY <1>14 DEF UpdateStreams, Witnesses, LeavePC
  <2> QED BY <2>1, <2>2, <2>3, <2>4, <2>5, ControlStep DEF Own
<1>15. ASSUME UpdateStreamsWrite(c) PROVE IndInv'
  <2>1. UNCHANGED <<rooms, connMap, session, stuck>> /\ OthersKeep(c)
    BY <1>15 DEF UpdateStreamsWrite, OthersKeep
  <2>2. HoldsOwnRoom(c)'
    BY <1>0, <1>15, <2>1 DEF UpdateStreamsWrite, Own, HoldsOwnRoom, LeavePC, JoinPC
  <2>3. ServedMember(c)'
    BY <1>0, <1>15, <2>1 DEF UpdateStreamsWrite, Own, ServedMember, Member
  <2>4. JoinsOnce(c)'
    BY <1>0, <1>15, <2>1 DEF UpdateStreamsWrite, Own, JoinsOnce, JoinPC
  <2>5. \A n \in Room : /\ rooms[n] # None /\ Members(rooms[n]) = {}
                       /\ obj[c] = rooms[n] /\ pc[c] \in Witnesses
                       => obj'[c] = obj[c] /\ pc'[c] \in Witnesses
    BY <1>15 DEF UpdateStreamsWrite, Witnesses, LeavePC
  <2> QED BY <2>1, <2>2, <2>3, <2>4, <2>5, ControlStep DEF Own
<1> QED
  BY <1>1, <1>2, <1>3, <1>4, <1>5, <1>6, <1>7, <1>8, <1>9, <1>10, <1>11, <1>12, <1>13, <1>14, <1>15 DEF Client

-----------------------------------------------------------------------------
(* Sessions: the cardinality of a room that grows or shrinks by one peer.  *)

LEMMA FewerMembers ==
  ASSUME NEW A \in SUBSET Peer, NEW B \in SUBSET Peer, A \subseteq B
  PROVE  /\ Cardinality(A) \in Nat /\ Cardinality(B) \in Nat
         /\ Cardinality(A) <= Cardinality(B)
  BY RelayAssumption, FS_Subset, FS_CardinalityType

LEMMA SessionKept ==
  ASSUME SessionMatchesMembers, NEW o \in RoomObj, NEW cm, NEW sess,
         connMap \in [RoomObj -> [Peer -> Conn \cup {None}]],
         session \in [RoomObj -> SUBSET Peer],
         connMap' = [connMap EXCEPT ![o] = cm], session' = [session EXCEPT ![o] = sess],
         stuck \ {o} \subseteq stuck',
         o \notin stuck' =>
           IF Cardinality(MembersOf(cm)) < 2 THEN sess = {} ELSE MembersOf(cm) \subseteq sess
  PROVE  SessionMatchesMembers'
<1> SUFFICES ASSUME NEW x \in RoomObj \ stuck'
             PROVE  IF Cardinality(MembersOf(connMap'[x])) < 2 THEN session'[x] = {}
                    ELSE MembersOf(connMap'[x]) \subseteq session'[x]
  BY DEF SessionMatchesMembers, Members
<1>1. CASE x = o
  BY <1>1
<1>2. CASE x # o
  BY <1>2 DEF SessionMatchesMembers, Members
<1> QED BY <1>1, <1>2

LEMMA SessionShrinks ==
  ASSUME SessionMatchesMembers, NEW o \in RoomObj, NEW p \in Peer, NEW cm,
         connMap \in [RoomObj -> [Peer -> Conn \cup {None}]],
         session \in [RoomObj -> SUBSET Peer],
         cm = [connMap[o] EXCEPT ![p] = None],
         connMap' = [connMap EXCEPT ![o] = cm],
         session' = IF Cardinality(MembersOf(cm)) < 2
                    THEN [session EXCEPT ![o] = {}] ELSE session,
         stuck' = stuck
  PROVE  SessionMatchesMembers'
<1> SUFFICES ASSUME NEW sess, sess = session[o] PROVE SessionMatchesMembers'
  OBVIOUS
<1>1. MembersOf(cm) \subseteq Members(o) /\ Members(o) \subseteq Peer
  BY DEF Members, MembersOf
<1>2. /\ Cardinality(Members(o)) \in Nat /\ Cardinality(MembersOf(cm)) \in Nat
      /\ Cardinality(MembersOf(cm)) <= Cardinality(Members(o))
  BY <1>1, FewerMembers
<1>3. CASE Cardinality(MembersOf(cm)) < 2
  <2>1. session' = [session EXCEPT ![o] = {}]
    BY <1>3
  <2> QED BY <1>3, <2>1, SessionKept
<1>4. CASE ~(Cardinality(MembersOf(cm)) < 2)
  <2>1. session' = [session EXCEPT ![o] = sess]
    BY <1>4
  <2>2. ~(Cardinality(Members(o)) < 2)
    BY <1>2, <1>4
  <2>3. o \notin stuck => MembersOf(cm) \subseteq sess
    BY <1>1, <2>2 DEF SessionMatchesMembers
  <2> QED BY <1>4, <2>1, <2>3, SessionKept
<1> QED BY <1>3, <1>4

-----------------------------------------------------------------------------
(* The steps that change hub.rooms or a connMap.                           *)

LEMMA JoinGetRoomInv ==
  ASSUME TypeInv, TypeInv', IndInv, NEW c \in Conn, JoinGetRoom(c) PROVE IndInv'
<1> USE RelayAssumption DEF TypeInv, TypeOK, hubVars, dbVars
<1> DEFINE n == req[c].room
<1>1. /\ pc[c] = "getroom" /\ pc' = [pc EXCEPT ![c] = "register"]
      /\ UNCHANGED <<req, loc, cont, open>>
      /\ n \in Room
  BY DEF JoinGetRoom, Goto, Control, Asked, JoinPC
<1>2. Own(c) /\ \A p \in Peer, m \in Room : Member(m, p) # c
  <2>1. Own(c)
    BY DEF IndInv
  <2> QED BY <1>1, <2>1 DEF Own, ServedMember
<1>3. CASE rooms[n] # None
  <2>1. obj' = [obj EXCEPT ![c] = rooms[n]] /\ UNCHANGED <<rooms, connMap, session, stuck>>
    BY <1>3 DEF JoinGetRoom
  <2>2. OthersKeep(c)
    BY <1>1, <2>1 DEF OthersKeep
  <2>3. HoldsOwnRoom(c)'
    BY <1>1, <1>3, <2>1 DEF HoldsOwnRoom, IndInv, Distinct, LeavePC
  <2>4. ServedMember(c)' /\ JoinsOnce(c)'
    BY <1>1, <1>2, <2>1 DEF Own, ServedMember, JoinsOnce, Member, JoinPC
  <2> QED BY <1>1, <2>1, <2>2, <2>3, <2>4, ControlStep DEF Own, Witnesses, LeavePC
<1>4. CASE rooms[n] = None
  <2>1. PICK o \in RoomObj :
          /\ Garbage(o)
          /\ obj' = [obj EXCEPT ![c] = o]
          /\ rooms' = [rooms EXCEPT ![n] = o]
          /\ connMap' = [connMap EXCEPT ![o] = NoMembers]
          /\ session' = [session EXCEPT ![o] = {}]
          /\ stuck' = stuck \ {o}
    BY <1>4 DEF JoinGetRoom, FreeCell
  <2>2. (\A m \in Room : rooms[m] # o) /\ (\A d \in Conn : obj[d] # o)
    BY <2>1 DEF Garbage, Live
  <2>3. /\ \A p \in Peer : Member(n, p)' = None
        /\ \A m \in Room \ {n}, p \in Peer : Member(m, p)' = Member(m, p)
    BY <1>1, <2>1, <2>2 DEF Member, NoMembers
  <2>4. /\ MembersOf(NoMembers) = {}
        /\ Members(o)' = {}
        /\ \A m \in Room \ {n} : rooms[m] # None => Members(rooms[m])' = Members(rooms[m])
    BY <2>1, <2>2 DEF Members, MembersOf, NoMembers
  <2>5. Distinct'
    <3>1. \A m1, m2 \in Room : rooms'[m1] # None /\ rooms'[m1] = rooms'[m2] => m1 = m2
      BY <2>1, <2>2 DEF IndInv, Distinct
    <3>2. \A x \in RoomObj, p \in Peer : connMap'[x][p] \in {None, connMap[x][p]}
      BY <2>1 DEF NoMembers
    <3> QED BY <3>1, <3>2 DEF IndInv, Distinct
  <2>6. ASSUME NEW d \in Conn PROVE Own(d)'
    <3>1. HoldsOwnRoom(d)'
      BY <1>1, <2>1, <2>2 DEF IndInv, Own, HoldsOwnRoom, LeavePC
    <3>2. ServedMember(d)'
      <4> SUFFICES ASSUME NEW m \in Room, NEW p \in Peer, Member(m, p)' = d
                   PROVE  /\ pc'[d] \in {"read", "resize", "leave", "unregister"}
                          /\ loc'[d] = [room |-> m, peer |-> p]
                          /\ pc'[d] = "unregister" => obj'[d] = rooms'[m]
                          /\ Rejoin = {} => open'[d]
        BY DEF ServedMember
      <4>1. m # n /\ Member(m, p) = d /\ d # c
        <5>1. CASE m = n
          BY <1>1, <2>3, <5>1 DEF Member
        <5>2. CASE m # n
          BY <1>2, <2>3, <5>2
        <5> QED BY <5>1, <5>2
      <4> QED BY <1>1, <2>1, <4>1 DEF IndInv, Own, ServedMember
    <3>3. JoinsOnce(d)'
      <4>1. \A x \in RoomObj, p \in Peer : connMap'[x][p] \in {None, connMap[x][p]}
        BY <2>1 DEF NoMembers
      <4> QED BY <1>1, <4>1 DEF IndInv, Own, JoinsOnce, JoinPC
    <3> QED BY <3>1, <3>2, <3>3 DEF Own
  <2>7. Minded'
    <3> SUFFICES ASSUME NEW m \in Room, rooms'[m] # None, rooms'[m] \notin stuck',
                        Members(rooms[m])' = {}
                 PROVE  \E d \in Conn : obj'[d] = rooms'[m] /\ pc'[d] \in Witnesses
      BY DEF Minded
    <3>1. CASE m = n
      BY <1>1, <2>1, <3>1 DEF Witnesses
    <3>2. CASE m # n
      <4>1. rooms[m] # None /\ rooms[m] \notin stuck /\ Members(rooms[m]) = {}
        BY <2>1, <2>2, <2>4, <3>2
      <4>2. PICK d \in Conn : obj[d] = rooms[m] /\ pc[d] \in Witnesses
        BY <4>1 DEF IndInv, Minded
      <4> QED BY <1>1, <2>1, <3>2, <4>2 DEF Witnesses, LeavePC
    <3> QED BY <3>1, <3>2
  <2>8. SessionMatchesMembers'
    BY <2>1, <2>4, SessionKept, FS_EmptySet DEF IndInv
  <2> QED BY <2>5, <2>6, <2>7, <2>8 DEF IndInv
<1> QED BY <1>3, <1>4

LEMMA JoinRegisterInv ==
  ASSUME TypeInv, TypeInv', IndInv, NEW c \in Conn, JoinRegister(c) PROVE IndInv'
<1> USE RelayAssumption DEF TypeInv, TypeOK, hubVars, dbVars
<1> SUFFICES ASSUME NEW o, NEW p, NEW n, NEW old, NEW cm, NEW sess,
                    o = obj[c], p = req[c].peer, n = req[c].room, old = connMap[o][p],
                    cm = [connMap[o] EXCEPT ![p] = c], sess = SessionAfterJoin(o, p, cm)
             PROVE  IndInv'
  OBVIOUS
<1>1. /\ o \in RoomObj /\ p \in Peer /\ n \in Room /\ old \in Conn \cup {None}
      /\ connMap' = [connMap EXCEPT ![o][p] = c]
      /\ session' = [session EXCEPT ![o] = sess]
      /\ open' = IF old \in {None, c} THEN open ELSE [open EXCEPT ![old] = FALSE]
      /\ loc' = [loc EXCEPT ![c] = [room |-> n, peer |-> p]]
      /\ obj' = [obj EXCEPT ![c] = None]
      /\ pc[c] = "register" /\ pc' = [pc EXCEPT ![c] = "read"]
      /\ req' = [req EXCEPT ![c] = NoRequest]
      /\ UNCHANGED <<cont, rooms, stuck>>
  <2>1. pc[c] = "register" /\ obj[c] \in RoomObj /\ req[c].room \in Room /\ req[c].peer \in Peer
    BY DEF JoinRegister, Control, Asked, Holds, JoinPC
  <2>2. connMap' = [connMap EXCEPT ![obj[c]][req[c].peer] = c]
    BY <2>1 DEF JoinRegister
  <2> QED BY <2>1, <2>2 DEF JoinRegister, Goto
<1>2. /\ \A m \in Room, q \in Peer : Member(m, q) # c
      /\ \A m \in Room : obj[c] = rooms[m] => n = m
  <2>1. Own(c)
    BY DEF IndInv
  <2> QED BY <1>1, <2>1 DEF Own, ServedMember, HoldsOwnRoom
<1>3. \A x \in RoomObj, q \in Peer :
        connMap'[x][q] = IF x = o /\ q = p THEN c ELSE connMap[x][q]
  BY <1>1
<1>4. Distinct'
  <2>1. Rejoin = {} => \A x \in RoomObj, q \in Peer : connMap[x][q] # c
    BY <1>1 DEF IndInv, Own, JoinsOnce, JoinPC
  <2> QED BY <1>1, <1>3, <2>1 DEF IndInv, Distinct
<1>5. ASSUME NEW d \in Conn PROVE Own(d)'
  <2>0. Own(d)
    BY DEF IndInv
  <2>1. HoldsOwnRoom(d)'
    BY <1>1, <2>0 DEF Own, HoldsOwnRoom
  <2>2. ServedMember(d)'
    <3> SUFFICES ASSUME NEW m \in Room, NEW q \in Peer, Member(m, q)' = d
                 PROVE  /\ pc'[d] \in {"read", "resize", "leave", "unregister"}
                        /\ loc'[d] = [room |-> m, peer |-> q]
                        /\ pc'[d] = "unregister" => obj'[d] = rooms'[m]
                        /\ Rejoin = {} => open'[d]
      BY DEF ServedMember
    <3>1. rooms[m] \in RoomObj /\ connMap'[rooms[m]][q] = d
      BY <1>1 DEF Member
    <3>2. CASE rooms[m] = o /\ q = p
      <4>1. d = c /\ m = n
        BY <1>1, <1>2, <1>3, <3>1, <3>2
      <4>2. Rejoin = {} => open[c]
        BY <1>1, <2>0, <4>1 DEF Own, JoinsOnce, JoinPC
      <4> QED BY <1>1, <3>2, <4>1, <4>2
    <3>3. CASE ~(rooms[m] = o /\ q = p)
      <4>1. connMap[rooms[m]][q] = d /\ Member(m, q) = d /\ d # c
        BY <1>2, <1>3, <3>1, <3>3 DEF Member
      <4>2. Rejoin = {} => d # old
        BY <1>1, <3>1, <3>3, <4>1 DEF IndInv, Distinct
      <4> QED BY <1>1, <2>0, <4>1, <4>2 DEF Own, ServedMember
    <3> QED BY <3>2, <3>3
  <2>3. JoinsOnce(d)'
    <3>1. CASE d = c
      BY <1>1, <2>0, <3>1 DEF Own, JoinsOnce, JoinPC
    <3>2. CASE d # c
      BY <1>1, <1>3, <2>0, <3>2 DEF Own, JoinsOnce
    <3> QED BY <3>1, <3>2
  <2> QED BY <2>1, <2>2, <2>3 DEF Own
<1>6. Minded'
  <2> SUFFICES ASSUME NEW m \in Room, rooms[m] # None, rooms[m] \notin stuck,
                      Members(rooms[m])' = {}
               PROVE  \E d \in Conn : obj'[d] = rooms[m] /\ pc'[d] \in Witnesses
    BY <1>1 DEF Minded, Members
  <2>1. rooms[m] \in RoomObj /\ rooms[m] # o
    BY <1>1, <1>3 DEF Members, MembersOf
  <2>2. Members(rooms[m]) = {}
    BY <1>1, <2>1 DEF Members
  <2>3. PICK d \in Conn : obj[d] = rooms[m] /\ pc[d] \in Witnesses
    BY <2>2 DEF IndInv, Minded
  <2> QED BY <1>1, <2>1, <2>3
<1>7. SessionMatchesMembers'
  <2>1. MembersOf(cm) = Members(o) \cup {p}
    BY <1>1 DEF Members, MembersOf
  <2>2. Cardinality(Members(o)) \in Nat /\ Cardinality(MembersOf(cm)) \in Nat
        /\ Cardinality(Members(o)) <= Cardinality(MembersOf(cm))
    BY <2>1, FewerMembers DEF Members, MembersOf
  <2>3. o \notin stuck => IF Cardinality(Members(o)) < 2 THEN session[o] = {}
                          ELSE Members(o) \subseteq session[o]
    BY <1>1 DEF IndInv, SessionMatchesMembers
  <2>4. sess = IF Cardinality(MembersOf(cm)) < 2 THEN session[o]
               ELSE IF session[o] # {} THEN session[o] \cup {p} ELSE MembersOf(cm)
    BY DEF SessionAfterJoin
  <2>5. o \notin stuck => IF Cardinality(MembersOf(cm)) < 2 THEN sess = {}
                          ELSE MembersOf(cm) \subseteq sess
    <3>1. CASE Cardinality(MembersOf(cm)) < 2
      <4>1. Cardinality(Members(o)) < 2
        BY <2>2, <3>1
      <4>2. sess = session[o]
        BY <2>4, <3>1
      <4> QED BY <2>3, <3>1, <4>1, <4>2
    <3>2. CASE ~(Cardinality(MembersOf(cm)) < 2)
      BY <2>1, <2>3, <2>4, <3>2
    <3> QED BY <3>1, <3>2
  <2>6. connMap' = [connMap EXCEPT ![o] = cm]
    BY <1>1
  <2>7. SessionMatchesMembers /\ stuck' = stuck
    BY <1>1 DEF IndInv
  <2>8. session' = [session EXCEPT ![o] = sess] /\ o \in RoomObj
    BY <1>1
  <2> QED BY <2>5, <2>6, <2>7, <2>8, SessionKept
<1> QED BY <1>4, <1>5, <1>6, <1>7 DEF IndInv

LEMMA JoinPanicInv ==
  ASSUME TypeInv, TypeInv', IndInv, NEW c \in Conn, JoinPanic(c) PROVE IndInv'
<1> USE RelayAssumption DEF TypeInv, TypeOK, hubVars, dbVars
<1>1. PICK o \in RoomObj, p \in Peer :
        /\ o = obj[c]
        /\ connMap' = [connMap EXCEPT ![o][p] = None]
        /\ stuck' = stuck \cup {o}
        /\ obj' = [obj EXCEPT ![c] = None]
        /\ pc[c] = "register"
        /\ pc' = [pc EXCEPT ![c] = "exit"] \/ pc' = [pc EXCEPT ![c] = "leave"]
        /\ cont' = cont \/ cont' = [cont EXCEPT ![c] = "exit"]
        /\ req' = [req EXCEPT ![c] = NoRequest]
        /\ UNCHANGED <<loc, open, rooms, session>>
  BY DEF JoinPanic, Goto, Control, Asked, Holds, JoinPC
<1>2. \A x \in RoomObj, q \in Peer : connMap'[x][q] \in {None, connMap[x][q]}
  BY <1>1
<1>3. \A d \in Conn \ {c} : pc'[d] = pc[d] /\ cont'[d] = cont[d] /\ obj'[d] = obj[d]
                            /\ req'[d] = req[d]
  BY <1>1
<1>4. Distinct'
  BY <1>1, <1>2 DEF IndInv, Distinct
<1>5. ASSUME NEW d \in Conn PROVE Own(d)'
  <2>0. Own(d)
    BY DEF IndInv
  <2>1. HoldsOwnRoom(d)'
    BY <1>1, <1>3, <2>0 DEF Own, HoldsOwnRoom
  <2>2. \A m \in Room, q \in Peer : Member(m, q)' = d => Member(m, q) = d
    BY <1>1, <1>2 DEF Member
  <2>3. ServedMember(d)'
    <3>1. CASE d = c
      BY <1>1, <2>0, <2>2, <3>1 DEF Own, ServedMember
    <3>2. CASE d # c
      BY <1>1, <1>3, <2>0, <2>2, <3>2 DEF Own, ServedMember
    <3> QED BY <3>1, <3>2
  <2>4. JoinsOnce(d)'
    <3>1. CASE d = c
      <4>1. pc'[c] \notin JoinPC \cup {"new"} /\ cont'[c] \in {cont[c], "exit"}
        BY <1>1 DEF JoinPC
      <4> QED BY <2>0, <3>1, <4>1 DEF Own, JoinsOnce
    <3>2. CASE d # c
      BY <1>1, <1>2, <1>3, <2>0, <3>2 DEF Own, JoinsOnce
    <3> QED BY <3>1, <3>2
  <2> QED BY <2>1, <2>3, <2>4 DEF Own
<1>6. Minded'
  <2> SUFFICES ASSUME NEW m \in Room, rooms[m] # None, rooms[m] \notin stuck',
                      Members(rooms[m])' = {}
               PROVE  \E d \in Conn : obj'[d] = rooms[m] /\ pc'[d] \in Witnesses
    BY <1>1 DEF Minded, Members
  <2>1. rooms[m] \in RoomObj /\ rooms[m] # o /\ rooms[m] \notin stuck
    BY <1>1
  <2>2. Members(rooms[m]) = {}
    BY <1>1, <2>1 DEF Members
  <2>3. PICK d \in Conn : obj[d] = rooms[m] /\ pc[d] \in Witnesses
    BY <2>1, <2>2 DEF IndInv, Minded
  <2> QED BY <1>1, <1>3, <2>1, <2>3
<1>7. SessionMatchesMembers'
  <2>1. connMap' = [connMap EXCEPT ![o] = [connMap[o] EXCEPT ![p] = None]]
    BY <1>1
  <2>2. session' = [session EXCEPT ![o] = session[o]]
    BY <1>1
  <2>3. SessionMatchesMembers /\ o \in stuck' /\ stuck \subseteq stuck'
    BY <1>1 DEF IndInv
  <2> DEFINE cm == [connMap[o] EXCEPT ![p] = None]
             sess == session[o]
  <2> HIDE DEF cm, sess
  <2> QED BY <2>1, <2>2, <2>3, SessionKept DEF cm, sess
<1> QED BY <1>4, <1>5, <1>6, <1>7 DEF IndInv

LEMMA LeaveUnregisterInv ==
  ASSUME TypeInv, TypeInv', IndInv, NEW c \in Conn, LeaveUnregister(c) PROVE IndInv'
<1> USE RelayAssumption DEF TypeInv, TypeOK, hubVars, dbVars
<1> SUFFICES ASSUME NEW o, NEW p, NEW cm, o = obj[c], p = loc[c].peer,
                    cm = [connMap[o] EXCEPT ![p] = None]
             PROVE  IndInv'
  OBVIOUS
<1>1. /\ o \in RoomObj /\ p \in Peer
      /\ pc[c] = "unregister" /\ pc' = [pc EXCEPT ![c] = "delpeer"]
      /\ UNCHANGED <<req, loc, obj, cont, open, rooms, stuck>>
  BY DEF LeaveUnregister, Goto, Control, Placed, Holds, LeavePC
<1>2. CASE connMap[o][p] # c
  <2>1. UNCHANGED <<connMap, session>> /\ OthersKeep(c)
    BY <1>1, <1>2 DEF LeaveUnregister, OthersKeep
  <2>2. Own(c)
    BY DEF IndInv
  <2>3. HoldsOwnRoom(c)' /\ JoinsOnce(c)'
    BY <1>1, <2>1, <2>2 DEF Own, HoldsOwnRoom, JoinsOnce, LeavePC, JoinPC
  <2>4. \A m \in Room, q \in Peer : Member(m, q) # c
    BY <1>1, <1>2, <2>2 DEF Own, ServedMember, Member
  <2>5. ServedMember(c)'
    BY <1>1, <2>1, <2>4 DEF ServedMember, Member
  <2> QED BY <1>1, <2>1, <2>3, <2>5, ControlStep DEF Own, Witnesses, LeavePC
<1>3. CASE connMap[o][p] = c
  <2>1. /\ connMap' = [connMap EXCEPT ![o] = cm]
        /\ session' = IF Cardinality(MembersOf(cm)) < 2
                      THEN [session EXCEPT ![o] = {}] ELSE session
    BY <1>1, <1>3 DEF LeaveUnregister
  <2>2. \A x \in RoomObj, q \in Peer :
          connMap'[x][q] = IF x = o /\ q = p THEN None ELSE connMap[x][q]
    BY <1>1, <2>1
  <2>3. Distinct'
    BY <1>1, <2>2 DEF IndInv, Distinct
  <2>4. ASSUME NEW d \in Conn PROVE Own(d)'
    <3>0. Own(d)
      BY DEF IndInv
    <3>1. HoldsOwnRoom(d)'
      BY <1>1, <3>0 DEF Own, HoldsOwnRoom, LeavePC
    <3>2. \A m \in Room, q \in Peer :
            Member(m, q)' = d => Member(m, q) = d /\ ~(rooms[m] = o /\ q = p)
      BY <1>1, <2>2 DEF Member
    <3>3. ServedMember(d)'
      <4>1. CASE d = c
        BY <1>1, <3>0, <3>2, <4>1 DEF Own, ServedMember
      <4>2. CASE d # c
        BY <1>1, <3>0, <3>2, <4>2 DEF Own, ServedMember
      <4> QED BY <4>1, <4>2
    <3>4. JoinsOnce(d)'
      <4>1. \A x \in RoomObj, q \in Peer : connMap'[x][q] \in {None, connMap[x][q]}
        BY <2>2
      <4>2. CASE d = c
        BY <1>1, <3>0, <4>2 DEF Own, JoinsOnce, JoinPC
      <4>3. CASE d # c
        BY <1>1, <3>0, <4>1, <4>3 DEF Own, JoinsOnce
      <4> QED BY <4>2, <4>3
    <3> QED BY <3>1, <3>3, <3>4 DEF Own
  <2>5. Minded'
    <3> SUFFICES ASSUME NEW m \in Room, rooms[m] # None, rooms[m] \notin stuck,
                        Members(rooms[m])' = {}
                 PROVE  \E d \in Conn : obj[d] = rooms[m] /\ pc'[d] \in Witnesses
      BY <1>1 DEF Minded, Members
    <3>1. CASE rooms[m] = o
      BY <1>1, <3>1 DEF Witnesses, LeavePC
    <3>2. CASE rooms[m] # o
      <4>1. Members(rooms[m]) = {}
        BY <1>1, <2>1, <3>2 DEF Members
      <4>2. PICK d \in Conn : obj[d] = rooms[m] /\ pc[d] \in Witnesses
        BY <4>1 DEF IndInv, Minded
      <4> QED BY <1>1, <3>2, <4>2
    <3> QED BY <3>1, <3>2
  <2>6. SessionMatchesMembers'
    <3>1. SessionMatchesMembers /\ stuck' = stuck
      BY <1>1 DEF IndInv
    <3> QED BY <1>1, <2>1, <3>1, SessionShrinks
  <2> QED BY <2>3, <2>4, <2>5, <2>6 DEF IndInv
<1> QED BY <1>2, <1>3

LEMMA DeleteRoomInv ==
  ASSUME TypeInv, TypeInv', IndInv, NEW c \in Conn, DeleteRoom(c) PROVE IndInv'
<1> USE RelayAssumption DEF TypeInv, TypeOK, hubVars, dbVars
<1> SUFFICES ASSUME NEW n, n = loc[c].room PROVE IndInv'
  OBVIOUS
<1>1. /\ n \in Room /\ pc[c] = "drop" /\ pc' = [pc EXCEPT ![c] = "delroom"]
      /\ UNCHANGED <<req, loc, obj, cont, open, connMap, session, stuck>>
      /\ rooms' = IF rooms[n] # None /\ Members(rooms[n]) = {}
                  THEN [rooms EXCEPT ![n] = None] ELSE rooms
  BY DEF DeleteRoom, Goto, Control, Placed, LeavePC
<1>2. \A m \in Room : rooms'[m] \in {None, rooms[m]}
  BY <1>1
<1>3. Distinct'
  BY <1>1, <1>2 DEF IndInv, Distinct
<1>4. ASSUME NEW d \in Conn PROVE Own(d)'
  <2>0. Own(d)
    BY DEF IndInv
  <2>1. HoldsOwnRoom(d)'
    BY <1>1, <1>2, <2>0 DEF Own, HoldsOwnRoom, LeavePC
  <2>2. \A m \in Room, q \in Peer : Member(m, q)' = d => Member(m, q) = d /\ rooms'[m] = rooms[m]
    BY <1>1, <1>2 DEF Member
  <2>3. ServedMember(d)'
    BY <1>1, <2>0, <2>2 DEF Own, ServedMember
  <2>4. JoinsOnce(d)'
    BY <1>1, <2>0 DEF Own, JoinsOnce, JoinPC
  <2> QED BY <2>1, <2>3, <2>4 DEF Own
<1>5. Minded'
  <2> SUFFICES ASSUME NEW m \in Room, rooms'[m] # None, rooms'[m] \notin stuck,
                      Members(rooms'[m]) = {}
               PROVE  \E d \in Conn : obj[d] = rooms'[m] /\ pc'[d] \in Witnesses
    <3>1. UNCHANGED <<obj, connMap, stuck>>
      BY <1>1
    <3> QED BY <3>1 DEF Minded, Members
  <2>1. rooms'[m] = rooms[m] /\ m # n
    BY <1>1, <1>2
  <2>2. PICK d \in Conn : obj[d] = rooms[m] /\ pc[d] \in Witnesses
    BY <2>1 DEF IndInv, Minded
  <2>3. d # c
    BY <1>1, <2>1, <2>2 DEF IndInv, Own, HoldsOwnRoom, LeavePC
  <2> QED BY <1>1, <2>1, <2>2, <2>3
<1>6. SessionMatchesMembers'
  BY <1>1 DEF IndInv, SessionMatchesMembers, Members
<1> QED BY <1>3, <1>4, <1>5, <1>6 DEF IndInv

LEMMA RestartInv == TypeInv /\ IndInv /\ Restart => IndInv'
<1> SUFFICES ASSUME TypeInv, IndInv, Restart PROVE IndInv'
  OBVIOUS
<1>1. /\ pc' = [c \in Conn |-> IF pc[c] = "new" THEN "new" ELSE "closed"]
      /\ open' = [c \in Conn |-> pc[c] = "new"]
      /\ loc' = [c \in Conn |-> Nowhere]
      /\ obj' = [c \in Conn |-> None]
      /\ cont' = [c \in Conn |-> "read"]
      /\ rooms' = [n \in Room |-> None]
      /\ connMap' = [o \in RoomObj |-> NoMembers]
      /\ session' = [o \in RoomObj |-> {}]
  BY DEF Restart
<1>2. Distinct' /\ Minded'
  BY <1>1 DEF Distinct, Minded, NoMembers
<1>3. ASSUME NEW c \in Conn PROVE Own(c)'
  BY <1>1, RelayAssumption DEF Own, HoldsOwnRoom, ServedMember, JoinsOnce, Member, NoMembers, JoinPC
<1>4. SessionMatchesMembers'
  BY <1>1 DEF SessionMatchesMembers, Members, MembersOf, NoMembers
<1> QED BY <1>2, <1>3, <1>4 DEF IndInv

LEMMA IndInvNext == TypeInv /\ IndInv /\ [Next]_vars => IndInv'
<1> SUFFICES ASSUME TypeInv, IndInv, [Next]_vars PROVE IndInv'
  OBVIOUS
<1>1. TypeInv'
  BY TypeInvNext
<1>2. ASSUME NEW c \in Conn, Client(c) \/ Handler(c) PROVE IndInv'
  BY <1>1, <1>2, ControlNext, JoinGetRoomInv, JoinRegisterInv, JoinPanicInv,
     LeaveUnregisterInv, DeleteRoomInv DEF Handler
<1>3. ASSUME UNCHANGED <<connVars, rooms, connMap, session, stuck>> PROVE IndInv'
  BY <1>3 DEF connVars, IndInv, Distinct, Own, HoldsOwnRoom, ServedMember, JoinsOnce,
     Member, Minded, Members, SessionMatchesMembers
<1>4. ASSUME NEW o \in RoomObj, ScanRoom(o) PROVE IndInv'
  BY <1>3, <1>4 DEF ScanRoom
<1>5. CASE ScanNames
  BY <1>3, <1>5 DEF ScanNames
<1>6. CASE Restart
  BY <1>6, RestartInv
<1>7. CASE UNCHANGED vars
  BY <1>3, <1>7 DEF vars, hubVars
<1> QED BY <1>2, <1>4, <1>5, <1>6, <1>7 DEF Next

LEMMA IndInvImplies == TypeInv /\ IndInv => MembersServed /\ NoLeakedRoom
<1> SUFFICES ASSUME TypeInv, IndInv PROVE MembersServed /\ NoLeakedRoom
  OBVIOUS
<1>1. MembersServed
  <2> SUFFICES ASSUME NEW n \in Room, NEW p \in Peer, Member(n, p) # None
               PROVE  LET c == Member(n, p) IN
                        /\ pc[c] \in {"read", "resize", "leave", "unregister"}
                        /\ loc[c] = [room |-> n, peer |-> p]
                        /\ Rejoin = {} => open[c]
    BY DEF MembersServed
  <2>1. Member(n, p) \in Conn
    BY DEF Member, TypeInv, TypeOK
  <2> QED BY <2>1 DEF IndInv, Own, ServedMember
<1>2. NoLeakedRoom
  BY DEF IndInv, Minded, NoLeakedRoom
<1> QED BY <1>1, <1>2

LEMMA Inductive == Spec => [](TypeInv /\ IndInv)
  BY TypeInvInit, TypeInvNext, IndInvInit, IndInvNext, PTL DEF Spec

\* Whatever the interleaving of joins, evictions, late leaves and re-created
\* rooms, every member of a room that hub.rooms names is a running readPump
\* that believes in this very membership (main.go:532-671 and 920-980).
THEOREM MembersAreServed == Spec => []MembersServed
  BY Inductive, IndInvImplies, PTL

\* A room without members is on its way out of hub.rooms or about to get one.
THEOREM RoomsDoNotLeak == Spec => []NoLeakedRoom
  BY Inductive, IndInvImplies, PTL

\* The metrics session of a room follows its membership.
THEOREM SessionsFollowMembers == Spec => []SessionMatchesMembers
<1>1. TypeInv /\ IndInv => SessionMatchesMembers
  BY DEF IndInv
<1> QED BY <1>1, Inductive, PTL

-----------------------------------------------------------------------------
(***************************************************************************)
(* The relay hub keeps the promise of Membership (HubImplementsMembership):*)
(* each section of its handlers is one step of the table of members, or    *)
(* none.  The mapping rests on the inductive invariant above: a section    *)
(* acts on the object it holds, and the invariant says for which room that *)
(* object is live, if it is.                                               *)
(***************************************************************************)

\* What Relay shows of Membership's variables.
Table   == [n \in Room |-> [p \in Peer |-> Member(n, p)]]
Leaving == {c \in Conn : pc[c] \in {"leave", "unregister"}}
Closed  == {c \in Conn : ~open[c]}

\* The table with one entry changed, and without c.
Entered(n, p, d) == [Table EXCEPT ![n][p] = d]

Without(c) ==
  [n \in Room |-> [p \in Peer |-> IF Table[n][p] = c THEN None ELSE Table[n][p]]]

-----------------------------------------------------------------------------
(* The steps of Membership, in terms of what is shown. *)

LEMMA NoStep ==
  ASSUME UNCHANGED <<Table, Leaving, Closed>>
  PROVE  [Hub!Next]_Hub!vars
  BY DEF Hub!vars, Table, Leaving, Closed

LEMMA StartLeaveStep ==
  ASSUME NEW c \in Conn, Leaving' = Leaving \cup {c}, UNCHANGED <<Table, Closed>>
  PROVE  Hub!Next
<1>1. Hub!StartLeave(c)
  BY DEF Hub!StartLeave, Table, Leaving, Closed
<1> QED
  BY <1>1 DEF Hub!Next

LEMMA DepartStep ==
  ASSUME NEW c \in Conn, c \in Leaving, Leaving' = Leaving \ {c}, UNCHANGED Closed,
         Table' = Without(c)
  PROVE  Hub!Next
<1>1. Hub!Depart(c)
  BY DEF Hub!Depart, Without, Table, Leaving, Closed
<1> QED
  BY <1>1 DEF Hub!Next

LEMMA CloseStep ==
  ASSUME NEW c \in Conn, Rejoin # {} \/ \A n \in Room, p \in Peer : Table[n][p] # c,
         Closed' = Closed \cup {c}, UNCHANGED <<Table, Leaving>>
  PROVE  Hub!Next
<1>1. Hub!Close(c)
  BY DEF Hub!Close, Hub!Absent, Table, Leaving, Closed
<1> QED
  BY <1>1 DEF Hub!Next

LEMMA RegisterStep ==
  ASSUME NEW c \in Conn, NEW n \in Room, NEW p \in Peer,
         \A m \in Room, q \in Peer : Table[m][q] # c,
         c \notin Leaving, Rejoin # {} \/ c \notin Closed, Table[n][p] \notin Closed,
         Table' = Entered(n, p, c),
         Closed' = Closed \cup ({Table[n][p]} \ {None}), UNCHANGED Leaving
  PROVE  Hub!Next
<1>1. Hub!Register(c, n, p)
  BY DEF Hub!Register, Entered, Hub!Absent, Table, Leaving, Closed
<1> QED
  BY <1>1 DEF Hub!Next

LEMMA PanicStep ==
  ASSUME NEW c \in Conn, NEW n \in Room, NEW p \in Peer,
         Rejoin # {}, Table[n][p] \in Closed, Table' = Entered(n, p, None),
         Leaving' \in {Leaving, Leaving \cup {c}}, UNCHANGED Closed
  PROVE  Hub!Next
<1>1. Hub!Panic(c, n, p)
  BY DEF Hub!Panic, Entered, Table, Leaving, Closed
<1> QED
  BY <1>1 DEF Hub!Next

LEMMA CrashStep ==
  ASSUME Table' = [n \in Room |-> [p \in Peer |-> None]], Leaving' = {}, Closed' \subseteq Conn
  PROVE  Hub!Next
<1>1. Hub!Crash
  BY DEF Hub!Crash, Hub!Nobody, Table, Leaving, Closed
<1> QED
  BY <1>1 DEF Hub!Next

-----------------------------------------------------------------------------
(* What the sections leave alone. *)

LEMMA SameTable == UNCHANGED <<rooms, connMap>> => UNCHANGED Table
  BY DEF Table, Member

LEMMA SameClosed == UNCHANGED open => UNCHANGED Closed
  BY DEF Closed

LEMMA LeavingMoves ==
  ASSUME TypeInv, NEW c \in Conn, NEW x, pc' = [pc EXCEPT ![c] = x]
  PROVE  Leaving' = IF x \in {"leave", "unregister"} THEN Leaving \cup {c} ELSE Leaving \ {c}
  BY DEF TypeInv, TypeOK, Leaving

LEMMA LeavingStays ==
  ASSUME TypeInv, NEW c \in Conn, NEW x, pc' = [pc EXCEPT ![c] = x],
         pc[c] \in {"leave", "unregister"} <=> x \in {"leave", "unregister"}
  PROVE  UNCHANGED Leaving
  BY DEF TypeInv, TypeOK, Leaving

\* Whoever is in the table is served (MembersServed).
LEMMA InTable ==
  ASSUME IndInv, NEW n \in Room, NEW p \in Peer, NEW c \in Conn, Table[n][p] = c
  PROVE  /\ pc[c] \in {"read", "resize", "leave", "unregister"}
         /\ loc[c] = [room |-> n, peer |-> p]
         /\ pc[c] = "unregister" => obj[c] = rooms[n]
         /\ Rejoin = {} => open[c]
<1>1. Member(n, p) = c
  BY DEF Table
<1> QED
  BY <1>1 DEF IndInv, Own, ServedMember

LEMMA TableType ==
  ASSUME TypeInv, NEW n \in Room, NEW p \in Peer
  PROVE  /\ Table[n][p] = Member(n, p)
         /\ Table[n][p] \in Conn \cup {None}
         /\ rooms[n] = None => Table[n][p] = None
         /\ rooms[n] # None => Table[n][p] = connMap[rooms[n]][p]
  BY DEF Table, Member, TypeInv, TypeOK

-----------------------------------------------------------------------------
(* One section after another. *)

LEMMA ClientSteps ==
  ASSUME TypeInv, IndInv, NEW c \in Conn, Client(c)
  PROVE  [Hub!Next]_Hub!vars
<1>1. UNCHANGED <<rooms, connMap, open>>
  BY DEF Client, Join, Leave, Disconnect, UpdateStreams, hubVars
<1>2. /\ pc[c] \in {"new", "read"}
      /\ \E x \in {"auth", "leave", "exit", "resize"} : pc' = [pc EXCEPT ![c] = x]
  BY DEF Client, Join, Leave, Disconnect, UpdateStreams, Goto
<1>3. UNCHANGED <<Table, Closed>>
  BY <1>1, SameTable, SameClosed
<1>4. CASE pc' = [pc EXCEPT ![c] = "leave"]
  <2>1. Leaving' = Leaving \cup {c}
    BY <1>4, LeavingMoves
  <2> QED
    BY <1>3, <2>1, StartLeaveStep
<1>5. CASE \E x \in {"auth", "exit", "resize"} : pc' = [pc EXCEPT ![c] = x]
  <2>1. UNCHANGED Leaving
    BY <1>2, <1>5, LeavingStays
  <2> QED
    BY <1>3, <2>1, NoStep
<1> QED
  BY <1>2, <1>4, <1>5

\* The sections that touch neither the maps nor a channel, on either side of leave.
LEMMA QuietSteps ==
  ASSUME TypeInv, NEW c \in Conn,
         \/ JoinAuth(c) \/ JoinCapacity(c) \/ JoinAddRoom(c) \/ JoinAddPeer(c)
         \/ LeaveDeletePeer(c) \/ LeaveEmpty(c) \/ DeleteRoomLock(c)
         \/ LeaveDeleteRoomRow(c) \/ UpdateStreamsWrite(c)
  PROVE  [Hub!Next]_Hub!vars
<1>1. UNCHANGED <<rooms, connMap, open>>
  BY DEF JoinAuth, JoinCapacity, JoinAddRoom, JoinAddPeer, LeaveDeletePeer, LeaveEmpty,
     DeleteRoomLock, LeaveDeleteRoomRow, UpdateStreamsWrite, hubVars
<1>2. pc[c] \in PC \ {"leave", "unregister"}
  BY DEF JoinAuth, JoinCapacity, JoinAddRoom, JoinAddPeer, LeaveDeletePeer, LeaveEmpty,
     DeleteRoomLock, LeaveDeleteRoomRow, UpdateStreamsWrite, PC, JoinPC, LeavePC
<1>3. \E x \in PC \ {"leave", "unregister"} : pc' = [pc EXCEPT ![c] = x]
  <2>1. Return(c) => \E x \in {"auth", "read", "exit"} : pc' = [pc EXCEPT ![c] = x]
    BY DEF Return, Goto, TypeInv, TypeOK
  <2>2. JoinAuth(c) \/ JoinCapacity(c) \/ JoinAddRoom(c) \/ JoinAddPeer(c) =>
          \E x \in {"read", "capacity", "addroom", "addpeer", "getroom"} :
            pc' = [pc EXCEPT ![c] = x]
    BY DEF JoinAuth, JoinCapacity, JoinAddRoom, JoinAddPeer, Reject, Goto
  <2>3. LeaveDeletePeer(c) \/ DeleteRoomLock(c) \/ UpdateStreamsWrite(c) =>
          \E x \in {"empty", "drop", "read"} : pc' = [pc EXCEPT ![c] = x]
    BY DEF LeaveDeletePeer, DeleteRoomLock, UpdateStreamsWrite, Goto
  <2>4. LeaveEmpty(c) \/ LeaveDeleteRoomRow(c) =>
          Return(c) \/ pc' = [pc EXCEPT ![c] = "hublock"]
    BY DEF LeaveEmpty, LeaveDeleteRoomRow, Goto
  <2> QED
    BY <2>1, <2>2, <2>3, <2>4 DEF PC, JoinPC, LeavePC
<1>4. UNCHANGED Leaving
  BY <1>2, <1>3, LeavingStays
<1> QED
  BY <1>1, <1>4, SameTable, SameClosed, NoStep

LEMMA ExitStep ==
  ASSUME TypeInv, IndInv, NEW c \in Conn, Exit(c)
  PROVE  [Hub!Next]_Hub!vars
<1>1. pc[c] = "exit" /\ pc' = [pc EXCEPT ![c] = "closed"] /\ open' = [open EXCEPT ![c] = FALSE]
      /\ UNCHANGED <<rooms, connMap>>
  BY DEF Exit, Goto, hubVars
<1>2. \A n \in Room, p \in Peer : Table[n][p] # c
  <2> SUFFICES ASSUME NEW n \in Room, NEW p \in Peer, Table[n][p] = c PROVE FALSE
    OBVIOUS
  <2>1. pc[c] \in {"read", "resize", "leave", "unregister"}
    BY InTable
  <2> QED
    BY <1>1, <2>1
<1>3. Closed' = Closed \cup {c}
  BY <1>1 DEF Closed, TypeInv, TypeOK
<1>4. UNCHANGED Leaving
  BY <1>1, LeavingStays
<1> QED
  BY <1>1, <1>2, <1>3, <1>4, SameTable, CloseStep

\* A room that is looked up or made has the members it had.
LEMMA JoinGetRoomStep ==
  ASSUME TypeInv, NEW c \in Conn, JoinGetRoom(c)
  PROVE  [Hub!Next]_Hub!vars
<1>1. pc[c] = "getroom" /\ pc' = [pc EXCEPT ![c] = "register"] /\ UNCHANGED open
  BY DEF JoinGetRoom, Goto
<1>2. UNCHANGED <<Leaving, Closed>>
  BY <1>1, LeavingStays, SameClosed
<1>3. UNCHANGED Table
  <2> DEFINE n == req[c].room
  <2>1. CASE rooms[n] # None
    BY <2>1, SameTable DEF JoinGetRoom
  <2>2. CASE rooms[n] = None
    <3>1. PICK o \in RoomObj : /\ ~Live(o)
                              /\ rooms' = [rooms EXCEPT ![n] = o]
                              /\ connMap' = [connMap EXCEPT ![o] = NoMembers]
      BY <2>2 DEF JoinGetRoom, FreeCell, Garbage
    <3>2. /\ rooms \in [Room -> RoomObj \cup {None}] /\ n \in Room
          /\ connMap \in [RoomObj -> [Peer -> Conn \cup {None}]] /\ o # None
      BY <1>1, RelayAssumption DEF TypeInv, TypeOK, Control, Asked, JoinPC
    <3>3. \A m \in Room, p \in Peer : Member(m, p)' = Member(m, p)
      <4> SUFFICES ASSUME NEW m \in Room, NEW p \in Peer PROVE Member(m, p)' = Member(m, p)
        OBVIOUS
      <4>1. CASE m = n
        BY <2>2, <3>1, <3>2, <4>1 DEF Member, NoMembers
      <4>2. CASE m # n
        BY <3>1, <3>2, <4>2 DEF Member, Live
      <4> QED
        BY <4>1, <4>2
    <3> QED
      BY <3>3 DEF Table
  <2> QED
    BY <2>1, <2>2
<1> QED
  BY <1>2, <1>3, NoStep

\* In the table, an entry of an object changes where the object is live.
LEMMA DeadEntry ==
  ASSUME TypeInv, NEW o \in RoomObj, NEW p \in Peer, NEW d \in Conn \cup {None},
         connMap' = [connMap EXCEPT ![o] = [connMap[o] EXCEPT ![p] = d]], UNCHANGED rooms,
         ~Live(o)
  PROVE  UNCHANGED Table
<1>1. \A m \in Room, q \in Peer : Member(m, q)' = Member(m, q)
  BY DEF Member, Live, TypeInv, TypeOK
<1> QED
  BY <1>1 DEF Table

LEMMA LiveEntry ==
  ASSUME TypeInv, IndInv, NEW o \in RoomObj, NEW p \in Peer, NEW d \in Conn \cup {None},
         connMap' = [connMap EXCEPT ![o] = [connMap[o] EXCEPT ![p] = d]], UNCHANGED rooms,
         NEW n \in Room, rooms[n] = o
  PROVE  Table' = Entered(n, p, d)
<1>1. /\ rooms \in [Room -> RoomObj \cup {None}] /\ o # None
      /\ connMap \in [RoomObj -> [Peer -> Conn \cup {None}]]
      /\ \A m \in Room : rooms[m] = rooms[n] => m = n
  BY RelayAssumption DEF TypeInv, TypeOK, IndInv, Distinct
<1>2. \A m \in Room, q \in Peer :
        Member(m, q)' = IF m = n /\ q = p THEN d ELSE Member(m, q)
  BY <1>1 DEF Member
<1>3. Table' = [m \in Room |-> [q \in Peer |-> IF m = n /\ q = p THEN d ELSE Member(m, q)]]
  BY <1>2 DEF Table
<1> QED
  BY <1>3 DEF Table, Entered

\* Without c, whose only entry is that of p in n.
LEMMA OneEntry ==
  ASSUME TypeInv, NEW n \in Room, NEW p \in Peer, NEW c,
         \A m \in Room, q \in Peer : Table[m][q] = c <=> m = n /\ q = p
  PROVE  Entered(n, p, None) = Without(c)
<1>1. Table \in [Room -> [Peer -> Conn \cup {None}]]
  BY TableType DEF Table
<1> HIDE DEF Table
<1> QED
  BY <1>1 DEF Entered, Without

LEMMA JoinRegisterStep ==
  ASSUME TypeInv, IndInv, NEW c \in Conn, JoinRegister(c)
  PROVE  [Hub!Next]_Hub!vars
<1> DEFINE o   == obj[c]
           p   == req[c].peer
           old == connMap[o][p]
<1>1. /\ pc[c] = "register" /\ pc' = [pc EXCEPT ![c] = "read"]
      /\ old \notin {None, c} => open[old]
      /\ open' = IF old \in {None, c} THEN open ELSE [open EXCEPT ![old] = FALSE]
      /\ connMap' = [connMap EXCEPT ![o] = [connMap[o] EXCEPT ![p] = c]]
      /\ UNCHANGED rooms
  BY DEF JoinRegister, Goto
<1>2. /\ o \in RoomObj /\ p \in Peer /\ old \in Conn \cup {None}
      /\ None \notin Conn /\ open \in [Conn -> BOOLEAN]
  BY <1>1, RelayAssumption DEF TypeInv, TypeOK, Control, Asked, Holds, JoinPC, LeavePC
<1>3. UNCHANGED Leaving /\ c \notin Leaving
  BY <1>1, LeavingStays DEF Leaving
<1>4. Closed' = IF old \in {None, c} THEN Closed ELSE Closed \cup {old}
  BY <1>1, <1>2 DEF Closed
<1>5. \A m \in Room, q \in Peer : Table[m][q] # c
  <2> SUFFICES ASSUME NEW m \in Room, NEW q \in Peer, Table[m][q] = c PROVE FALSE
    OBVIOUS
  <2>1. pc[c] \in {"read", "resize", "leave", "unregister"}
    BY InTable
  <2> QED
    BY <1>1, <2>1
<1> HIDE DEF o, p
<1>6. CASE ~Live(o)
  <2>1. UNCHANGED Table
    <3>1. c \in Conn \cup {None} /\ UNCHANGED rooms
          /\ connMap' = [connMap EXCEPT ![o] = [connMap[o] EXCEPT ![p] = c]]
      BY <1>1
    <3> QED
      BY <1>2, <1>6, <3>1, DeadEntry
  <2>2. CASE old \in {None, c}
    BY <1>3, <1>4, <2>1, <2>2, NoStep
  <2>3. CASE old \notin {None, c}
    <3>1. Rejoin # {} \/ \A m \in Room, q \in Peer : Table[m][q] # old
      <4> SUFFICES ASSUME Rejoin = {}, NEW m \in Room, NEW q \in Peer, Table[m][q] = old
                   PROVE  FALSE
        OBVIOUS
      <4>1. rooms[m] \in RoomObj /\ connMap[rooms[m]][q] = old
        BY <1>2, <2>3, TableType DEF TypeInv, TypeOK
      <4>2. rooms[m] = o
        BY <1>2, <2>3, <4>1 DEF IndInv, Distinct
      <4> QED
        BY <1>6, <4>2 DEF Live
    <3> QED
      BY <1>2, <1>3, <1>4, <2>1, <2>3, <3>1, CloseStep
  <2> QED
    BY <2>2, <2>3
<1>7. CASE Live(o)
  <2>1. PICK n \in Room : rooms[n] = o
    BY <1>7 DEF Live
  <2>2. Table' = Entered(n, p, c)
    <3>1. c \in Conn \cup {None} /\ UNCHANGED rooms
          /\ connMap' = [connMap EXCEPT ![o] = [connMap[o] EXCEPT ![p] = c]]
      BY <1>1
    <3> QED
      BY <1>2, <2>1, <3>1, LiveEntry
  <2>3. Table[n][p] = old
    BY <1>2, <2>1, RelayAssumption, TableType
  <2>4. old # c
    BY <1>2, <1>5, <2>3
  <2>5. old \notin Closed
    BY <1>1, <1>2, <2>4 DEF Closed
  <2>6. Closed' = Closed \cup ({old} \ {None})
    BY <1>4, <2>4
  <2>7. Rejoin # {} \/ c \notin Closed
    BY <1>1 DEF IndInv, Own, JoinsOnce, JoinPC, Closed
  <2> HIDE DEF old
  <2> QED
    BY <1>2, <1>3, <1>5, <2>2, <2>3, <2>5, <2>6, <2>7, RegisterStep
<1> QED
  BY <1>6, <1>7

\* The panicking join unregisters a closed connection, and may start a leave.
LEMMA JoinPanicStep ==
  ASSUME TypeInv, IndInv, NEW c \in Conn, JoinPanic(c)
  PROVE  [Hub!Next]_Hub!vars
<1> DEFINE o   == obj[c]
           p   == req[c].peer
           old == connMap[o][p]
<1>1. /\ pc[c] = "register"
      /\ pc' = [pc EXCEPT ![c] = "exit"] \/ pc' = [pc EXCEPT ![c] = "leave"]
      /\ old \notin {None, c} /\ ~open[old]
      /\ connMap' = [connMap EXCEPT ![o][p] = None]
      /\ UNCHANGED <<rooms, open>>
  BY DEF JoinPanic, Goto
<1>2. /\ o \in RoomObj /\ p \in Peer /\ old \in Conn /\ old \in Closed
      /\ connMap' = [connMap EXCEPT ![o] = [connMap[o] EXCEPT ![p] = None]]
  BY <1>1, RelayAssumption DEF TypeInv, TypeOK, Control, Asked, Holds, JoinPC, LeavePC, Closed
<1>3. Leaving' = Leaving \/ Leaving' = Leaving \cup {c}
  <2>1. CASE pc' = [pc EXCEPT ![c] = "exit"]
    BY <1>1, <2>1, LeavingStays
  <2>2. CASE pc' = [pc EXCEPT ![c] = "leave"]
    BY <2>2, LeavingMoves
  <2> QED
    BY <1>1, <2>1, <2>2
<1>4. UNCHANGED Closed
  BY <1>1, SameClosed
<1> HIDE DEF o, p
<1>5. None \in Conn \cup {None} /\ UNCHANGED rooms
  BY <1>1
<1>6. CASE ~Live(o)
  <2>1. UNCHANGED Table
    BY <1>2, <1>5, <1>6, DeadEntry
  <2>2. CASE UNCHANGED Leaving
    BY <1>4, <2>1, <2>2, NoStep
  <2>3. CASE Leaving' = Leaving \cup {c}
    BY <1>4, <2>1, <2>3, StartLeaveStep
  <2> QED
    BY <1>3, <2>2, <2>3
<1>7. CASE Live(o)
  <2>1. PICK n \in Room : rooms[n] = o
    BY <1>7 DEF Live
  <2>2. Table' = Entered(n, p, None)
    BY <1>2, <1>5, <2>1, LiveEntry
  <2>3. Table[n][p] = old
    BY <1>2, <2>1, RelayAssumption, TableType
  <2>4. Rejoin # {}
    <3>1. Rejoin = {} => open[old]
      BY <1>2, <2>3, InTable
    <3> QED
      BY <1>1, <3>1
  <2> QED
    BY <1>2, <1>3, <1>4, <2>2, <2>3, <2>4, PanicStep
<1> QED
  BY <1>6, <1>7

\* A leave that finds no object is over: its connection is in no room.
LEMMA LeaveGetRoomStep ==
  ASSUME TypeInv, IndInv, NEW c \in Conn, LeaveGetRoom(c)
  PROVE  [Hub!Next]_Hub!vars
<1> DEFINE n == loc[c].room
<1>1. pc[c] = "leave" /\ UNCHANGED <<rooms, connMap, open>>
  BY DEF LeaveGetRoom, hubVars
<1>2. UNCHANGED <<Table, Closed>>
  BY <1>1, SameTable, SameClosed
<1>3. CASE rooms[n] # None
  <2>1. pc' = [pc EXCEPT ![c] = "unregister"]
    BY <1>3 DEF LeaveGetRoom, Goto
  <2> QED
    BY <1>1, <1>2, <2>1, LeavingStays, NoStep
<1>4. CASE rooms[n] = None
  <2>1. \E x \in {"auth", "read", "exit"} : pc' = [pc EXCEPT ![c] = x]
    BY <1>4 DEF LeaveGetRoom, Return, Goto, TypeInv, TypeOK
  <2>2. c \in Leaving /\ Leaving' = Leaving \ {c}
    BY <1>1, <2>1, LeavingMoves DEF Leaving
  <2>3. \A m \in Room, q \in Peer : Table[m][q] # c
    <3> SUFFICES ASSUME NEW m \in Room, NEW q \in Peer, Table[m][q] = c PROVE FALSE
      OBVIOUS
    <3>1. loc[c] = [room |-> m, peer |-> q]
      BY InTable
    <3>2. Table[m][q] = None
      BY <1>4, <3>1, TableType
    <3> QED
      BY <3>2, RelayAssumption
  <2>4. Table' = Without(c)
    BY <1>2, <2>3 DEF Table, Without
  <2> QED
    BY <1>2, <2>2, <2>4, DepartStep
<1> QED
  BY <1>3, <1>4

\* Whoever leaves is the only one to go, and goes from the only room it is in.
LEMMA LeaveUnregisterStep ==
  ASSUME TypeInv, IndInv, NEW c \in Conn, LeaveUnregister(c)
  PROVE  [Hub!Next]_Hub!vars
<1> DEFINE o == obj[c]
           p == loc[c].peer
<1>1. /\ pc[c] = "unregister" /\ pc' = [pc EXCEPT ![c] = "delpeer"]
      /\ UNCHANGED <<rooms, open>>
      /\ connMap[o][p] = c => connMap' = [connMap EXCEPT ![o] = [connMap[o] EXCEPT ![p] = None]]
      /\ connMap[o][p] # c => UNCHANGED connMap
  BY DEF LeaveUnregister, Goto
<1>2. /\ o \in RoomObj /\ p \in Peer /\ None \notin Conn
  BY <1>1, RelayAssumption DEF TypeInv, TypeOK, Control, Placed, Holds, JoinPC, LeavePC
<1>3. c \in Leaving /\ Leaving' = Leaving \ {c}
  BY <1>1, LeavingMoves DEF Leaving
<1>4. UNCHANGED Closed
  BY <1>1, SameClosed
<1>5. ASSUME NEW m \in Room, NEW q \in Peer, Table[m][q] = c
      PROVE  rooms[m] = o /\ q = p /\ connMap[o][p] = c
  <2>1. loc[c] = [room |-> m, peer |-> q] /\ obj[c] = rooms[m]
    BY <1>1, <1>5, InTable
  <2>2. Table[m][q] = connMap[rooms[m]][q]
    BY <1>2, <2>1, TableType, RelayAssumption
  <2> QED
    BY <1>5, <2>1, <2>2
<1> HIDE DEF o, p
<1>6. Table' = Without(c)
  <2>1. CASE \A m \in Room, q \in Peer : Table[m][q] # c
    <3>1. UNCHANGED Table
      <4>1. CASE connMap[o][p] # c
        BY <1>1, <4>1, SameTable
      <4>2. CASE connMap[o][p] = c
        <5>1. ~Live(o)
          <6> SUFFICES ASSUME NEW m \in Room, rooms[m] = o PROVE FALSE
            BY DEF Live
          <6>1. Table[m][p] = c
            BY <1>2, <4>2, TableType, RelayAssumption
          <6> QED
            BY <1>2, <2>1, <6>1
        <5>2. None \in Conn \cup {None} /\ UNCHANGED rooms
              /\ connMap' = [connMap EXCEPT ![o] = [connMap[o] EXCEPT ![p] = None]]
          BY <1>1, <4>2
        <5> QED
          BY <1>2, <5>1, <5>2, DeadEntry
      <4> QED
        BY <4>1, <4>2
    <3> QED
      BY <2>1, <3>1 DEF Table, Without
  <2>2. CASE \E m \in Room, q \in Peer : Table[m][q] = c
    <3>1. PICK n \in Room : Table[n][p] = c
      BY <1>5, <2>2
    <3>2. rooms[n] = o /\ connMap[o][p] = c
      BY <1>2, <1>5, <3>1
    <3>3. None \in Conn \cup {None} /\ UNCHANGED rooms
          /\ connMap' = [connMap EXCEPT ![o] = [connMap[o] EXCEPT ![p] = None]]
      BY <1>1, <3>2
    <3>4. Table' = Entered(n, p, None)
      BY <1>2, <3>2, <3>3, LiveEntry
    <3>5. \A m \in Room, q \in Peer : Table[m][q] = c <=> m = n /\ q = p
      <4> SUFFICES ASSUME NEW m \in Room, NEW q \in Peer, Table[m][q] = c PROVE m = n /\ q = p
        BY <3>1
      <4>1. q = p /\ rooms[m] = rooms[n] /\ rooms[m] # None
        BY <1>2, <1>5, <3>2, RelayAssumption
      <4> QED
        BY <4>1 DEF IndInv, Distinct
    <3> QED
      BY <1>2, <3>4, <3>5, OneEntry
  <2> QED
    BY <2>1, <2>2
<1> QED
  BY <1>3, <1>4, <1>6, DepartStep

\* Only a room without members is forgotten.
LEMMA DeleteRoomStep ==
  ASSUME TypeInv, NEW c \in Conn, DeleteRoom(c)
  PROVE  [Hub!Next]_Hub!vars
<1> DEFINE n == loc[c].room
           o == rooms[n]
<1>1. /\ pc[c] = "drop" /\ pc' = [pc EXCEPT ![c] = "delroom"] /\ UNCHANGED <<connMap, open>>
      /\ o # None /\ Members(o) = {} => rooms' = [rooms EXCEPT ![n] = None]
      /\ ~(o # None /\ Members(o) = {}) => UNCHANGED rooms
  BY DEF DeleteRoom, Goto
<1>2. UNCHANGED <<Leaving, Closed>>
  BY <1>1, LeavingStays, SameClosed
<1>3. UNCHANGED Table
  <2>1. CASE ~(o # None /\ Members(o) = {})
    BY <1>1, <2>1, SameTable
  <2>2. CASE o # None /\ Members(o) = {}
    <3>1. \A q \in Peer : connMap[o][q] = None
      BY <2>2 DEF Members, MembersOf
    <3>2. n \in Room /\ rooms \in [Room -> RoomObj \cup {None}]
      BY <1>1 DEF TypeInv, TypeOK, Control, Placed, LeavePC
    <3>3. \A m \in Room, q \in Peer : Member(m, q)' = Member(m, q)
      BY <1>1, <2>2, <3>1, <3>2 DEF Member
    <3> QED
      BY <3>3 DEF Table
  <2> QED
    BY <2>1, <2>2
<1> QED
  BY <1>2, <1>3, NoStep

LEMMA RestartStep ==
  ASSUME TypeInv, Restart
  PROVE  Hub!Next
<1>1. /\ pc' = [c \in Conn |-> IF pc[c] = "new" THEN "new" ELSE "closed"]
      /\ rooms' = [n \in Room |-> None]
  BY DEF Restart
<1>2. Leaving' = {}
  BY <1>1 DEF Leaving
<1>3. Table' = [n \in Room |-> [p \in Peer |-> None]]
  BY <1>1 DEF Table, Member
<1>4. Closed' \subseteq Conn
  BY DEF Closed
<1> QED
  BY <1>2, <1>3, <1>4, CrashStep

-----------------------------------------------------------------------------
LEMMA HubInit == Init => Hub!Init
  BY DEF Init, Hub!Init, Hub!Nobody, Member

LEMMA HubNext == TypeInv /\ IndInv /\ [Next]_vars => [Hub!Next]_Hub!vars
<1> SUFFICES ASSUME TypeInv, IndInv, [Next]_vars PROVE [Hub!Next]_Hub!vars
  OBVIOUS
<1>1. CASE \E c \in Conn : Client(c) \/ Handler(c)
  <2> PICK c \in Conn : Client(c) \/ Handler(c)
    BY <1>1
  <2>1. CASE Client(c)
    BY <2>1, ClientSteps
  <2>2. CASE JoinGetRoom(c) \/ JoinRegister(c) \/ JoinPanic(c)
    BY <2>2, JoinGetRoomStep, JoinRegisterStep, JoinPanicStep
  <2>3. CASE LeaveGetRoom(c) \/ LeaveUnregister(c) \/ DeleteRoom(c) \/ Exit(c)
    BY <2>3, LeaveGetRoomStep, LeaveUnregisterStep, DeleteRoomStep, ExitStep
  <2>4. CASE \/ JoinAuth(c) \/ JoinCapacity(c) \/ JoinAddRoom(c) \/ JoinAddPeer(c)
             \/ LeaveDeletePeer(c) \/ LeaveEmpty(c) \/ DeleteRoomLock(c)
             \/ LeaveDeleteRoomRow(c) \/ UpdateStreamsWrite(c)
    BY <2>4, QuietSteps
  <2> QED
    BY <2>1, <2>2, <2>3, <2>4 DEF Handler
<1>2. CASE Restart
  BY <1>2, RestartStep
<1>3. CASE (\E o \in RoomObj : ScanRoom(o)) \/ ScanNames \/ UNCHANGED vars
  <2>1. UNCHANGED <<pc, open, rooms, connMap>>
    BY <1>3 DEF ScanRoom, ScanNames, vars, connVars, hubVars
  <2>2. UNCHANGED <<Table, Leaving, Closed>>
    BY <2>1, SameTable, SameClosed DEF Leaving
  <2> QED
    BY <2>2, NoStep
<1> QED
  BY <1>1, <1>2, <1>3 DEF Next

\* Every section of join, leave and deleteRoom is a step of Membership or shows
\* nothing: whatever the interleaving, a member goes by its own leave, by a
\* newer connection of its peer, or with the process (main.go:553-962).
THEOREM HubImplements == Spec => HubImplementsMembership
  BY Inductive, HubInit, HubNext, PTL DEF Spec, Hub!Spec, HubImplementsMembership
=============================================================================
