----------------------------- MODULE PeersProofs -----------------------------
(***************************************************************************)
(* What holds of a session's view of the room for every set of peers,      *)
(* identities and streams, any number of slots, any losses and timeouts:   *)
(* slots match the peers that hold them, a musician is listed once, what   *)
(* the window lists is known, and no channel stays under a peer id once    *)
(* its musician is known.                                                  *)
(*                                                                         *)
(* The methods of PeerRegistry are operators on its value, so most lemmas  *)
(* are about an arbitrary registry r.                                      *)
(***************************************************************************)
EXTENDS Peers, TLAPS, FiniteSetTheorems, WellFoundedInduction

-----------------------------------------------------------------------------
(* The registry *)

Holds(r, p, s) == p \in Registered(r) /\ r.peers[p].slot[s] # 0

Match(r) ==
  /\ \A p, q \in Peer, s, t \in Stream :
       Holds(r, p, s) /\ Holds(r, q, t) /\ r.peers[p].slot[s] = r.peers[q].slot[t]
         => p = q /\ s = t
  /\ \A p \in Peer, s \in Stream :
       Holds(r, p, s) => /\ r.slots[r.peers[p].slot[s]].occupied
                         /\ r.slots[r.peers[p].slot[s]].key = KeyIn(r, p)
  /\ \A i \in Slot : r.slots[i].occupied =>
       \E p \in Peer, s \in Stream : Holds(r, p, s) /\ r.peers[p].slot[s] = i

\* Of two registered peers, not both are known by the same identity.
Unique(r) ==
  \A p, q \in Registered(r) :
    r.peers[p].known /\ r.peers[q].known /\ IdOf[p] = IdOf[q] => p = q

RegInv(r) == r \in Registry /\ Match(r) /\ Unique(r)

\* Registries that differ in nothing RegInv is about.
Same(r, q) ==
  /\ Registered(q) = Registered(r) /\ q.slots = r.slots
  /\ \A p \in Registered(r) : /\ q.peers[p].slot = r.peers[p].slot
                              /\ q.peers[p].known = r.peers[p].known

LEMMA EntryOf ==
  ASSUME NEW r \in Registry, NEW p \in Registered(r)
  PROVE  p \in Peer /\ r.peers[p] \in Entry
  BY DEF Registered, Registry

\* The client id of a peer's slots is its own: no two registered peers share it.
LEMMA KeysDiffer ==
  ASSUME NEW r \in Registry, Unique(r)
  PROVE  /\ \A p \in Peer : KeyIn(r, p) \in Key
         /\ \A p, q \in Registered(r) : KeyIn(r, p) = KeyIn(r, q) => p = q
  BY PeersAssumption DEF KeyIn, Key, Unique, Registered

LEMMA SameInv ==
  ASSUME NEW r, NEW q \in Registry, RegInv(r), Same(r, q)
  PROVE  RegInv(q)
<1>1. \A p \in Peer : KeyIn(q, p) = KeyIn(r, p)
  BY DEF Same, KeyIn
<1>2. \A p \in Peer, s \in Stream : Holds(q, p, s) <=> Holds(r, p, s)
  BY DEF Same, Holds
<1>3. Match(q)
  BY <1>1, <1>2 DEF RegInv, Match, Same, Holds
<1>4. Unique(q)
  BY DEF RegInv, Unique, Same
<1> QED
  BY <1>3, <1>4 DEF RegInv

\* What the small updates of an entry leave alone.
LEMMA EntrySteps ==
  ASSUME NEW e \in Entry
  PROVE  \A f \in {Hear(e), Tell(e), Retry(e), Aged(e)} :
           f \in Entry /\ f.slot = e.slot /\ f.known = e.known
<1>1. /\ e.known \in BOOLEAN /\ e.told \in BOOLEAN /\ e.heard \in BOOLEAN /\ e.retry \in BOOLEAN
      /\ e.age \in 0..Hard /\ e.quiet \in 0..Silent /\ e.slot \in [Stream -> 0..NSlots]
      /\ Hard \in Nat /\ Silent \in Nat
  BY PeersAssumption DEF Entry
<1>2. Hear(e) \in Entry /\ Hear(e).slot = e.slot /\ Hear(e).known = e.known
  <2>1. \A n \in 0..Silent : LET f == [e EXCEPT !.heard = TRUE, !.quiet = n]
                             IN  f \in Entry /\ f.slot = e.slot /\ f.known = e.known
    BY <1>1 DEF Entry
  <2>2. 0 \in 0..Silent
    BY <1>1
  <2> QED
    BY <2>1, <2>2 DEF Hear
<1>3. Tell(e) \in Entry /\ Tell(e).slot = e.slot /\ Tell(e).known = e.known
  BY <1>1 DEF Entry, Tell
<1>4. Retry(e) \in Entry /\ Retry(e).slot = e.slot /\ Retry(e).known = e.known
  BY <1>1 DEF Entry, Retry
<1>5. Aged(e) \in Entry /\ Aged(e).slot = e.slot /\ Aged(e).known = e.known
  <2> DEFINE a == IF e.age < Hard THEN e.age + 1 ELSE e.age
             b == IF e.quiet < Silent THEN e.quiet + 1 ELSE e.quiet
  <2>1. a \in 0..Hard /\ b \in 0..Silent
    BY <1>1
  <2>2. Aged(e) = [e EXCEPT !.age = a, !.quiet = b]
    BY DEF Aged, Entry
  <2> HIDE DEF a, b
  <2> QED
    BY <1>1, <2>1, <2>2 DEF Entry
<1> QED
  BY <1>2, <1>3, <1>4, <1>5

\* WithPeer, of an update that leaves slots and identity alone.
LEMMA ChangeEntry ==
  ASSUME NEW r, RegInv(r), NEW p \in Registered(r), NEW e \in Entry,
         e.slot = r.peers[p].slot, e.known = r.peers[p].known
  PROVE  LET q == [r EXCEPT !.peers[p] = e] IN RegInv(q) /\ Same(r, q)
<1> DEFINE q == [r EXCEPT !.peers[p] = e]
<1>1. /\ r \in Registry /\ p \in Peer
      /\ r.peers \in [Peer -> Entry \cup {Nothing}]
  BY DEF RegInv, Registry, Registered
<1>2. /\ q.peers = [r.peers EXCEPT ![p] = e] /\ q.slots = r.slots
      /\ q \in Registry
  BY <1>1 DEF Registry
<1> HIDE DEF q
<1>3. Registered(q) = Registered(r)
  BY <1>1, <1>2, EntryAssumption DEF Registered
<1>4. Same(r, q)
  BY <1>1, <1>2, <1>3 DEF Same, Registered
<1> QED
  BY <1>2, <1>4, SameInv DEF q

\* A peer that enters is unknown and holds nothing.
LEMMA NewPeers ==
  ASSUME NEW r, RegInv(r), NEW S \in SUBSET Peer
  PROVE  /\ RegInv(SeedNames(r, S))
         /\ Registered(SeedNames(r, S)) = Registered(r) \cup S
         /\ \A p \in Registered(r) : SeedNames(r, S).peers[p] = r.peers[p]
         /\ \A p \in S \ Registered(r) : ~SeedNames(r, S).peers[p].known
<1> DEFINE q == SeedNames(r, S)
<1>0. NewPeerState \in Entry /\ ~NewPeerState.known /\ \A s \in Stream : NewPeerState.slot[s] = 0
  BY PeersAssumption DEF NewPeerState, Entry
<1>1. /\ r \in Registry /\ DOMAIN r = {"peers", "slots"}
      /\ r.peers \in [Peer -> Entry \cup {Nothing}]
  BY DEF RegInv, Registry
<1>2. /\ q.peers = [p \in Peer |-> IF p \in S /\ r.peers[p] = Nothing
                                   THEN NewPeerState ELSE r.peers[p]]
      /\ q.slots = r.slots
  BY <1>1 DEF SeedNames
<1>3. q \in Registry
  BY <1>0, <1>1 DEF SeedNames, Registry
<1> HIDE DEF q
<1>4. Registered(q) = Registered(r) \cup S
  BY <1>0, <1>1, <1>2, EntryAssumption DEF Registered
<1>5. /\ \A p \in Registered(r) : q.peers[p] = r.peers[p]
      /\ \A p \in S \ Registered(r) : q.peers[p] = NewPeerState
  BY <1>2 DEF Registered
<1>6. \A p \in Peer : KeyIn(q, p) = KeyIn(r, p)
  BY <1>0, <1>4, <1>5 DEF KeyIn
<1>7. \A p \in Peer, s \in Stream : /\ Holds(q, p, s) <=> Holds(r, p, s)
                                    /\ Holds(r, p, s) => q.peers[p] = r.peers[p]
  BY <1>0, <1>4, <1>5 DEF Holds
<1>8. Match(q)
  BY <1>2, <1>6, <1>7 DEF RegInv, Match
<1>9. Unique(q)
  BY <1>0, <1>4, <1>5 DEF RegInv, Unique
<1> QED
  BY <1>0, <1>3, <1>4, <1>5, <1>8, <1>9 DEF q, RegInv

LEMMA AddInv ==
  ASSUME NEW r, RegInv(r), NEW p \in Peer
  PROVE  /\ RegInv(Add(r, p))
         /\ Registered(Add(r, p)) = Registered(r) \cup {p}
         /\ \A q \in Registered(r) : Add(r, p).peers[q].known = r.peers[q].known
         /\ p \notin Registered(r) => ~Add(r, p).peers[p].known
<1>1. CASE p \in Registered(r)
  <2> DEFINE e == [r.peers[p] EXCEPT !.quiet = 0]
  <2>1. r \in Registry /\ r.peers[p] \in Entry
    BY <1>1, EntryOf DEF RegInv
  <2>2. e \in Entry /\ e.slot = r.peers[p].slot /\ e.known = r.peers[p].known
    <3>1. 0 \in 0..Silent
      BY PeersAssumption
    <3>2. \A n \in 0..Silent : LET f == [r.peers[p] EXCEPT !.quiet = n]
                               IN  f \in Entry /\ f.slot = r.peers[p].slot /\ f.known = r.peers[p].known
      BY <2>1 DEF Entry
    <3> QED
      BY <3>1, <3>2
  <2>3. Add(r, p) = [r EXCEPT !.peers[p] = e]
    BY <1>1, <2>1 DEF Add, Registry
  <2> HIDE DEF e
  <2>4. RegInv(Add(r, p)) /\ Same(r, Add(r, p))
    BY <1>1, <2>2, <2>3, ChangeEntry
  <2> QED
    BY <1>1, <2>4 DEF Same
<1>2. CASE p \notin Registered(r)
  <2>1. r \in Registry /\ r.peers \in [Peer -> Entry \cup {Nothing}] /\ r.peers[p] = Nothing
    BY <1>2 DEF RegInv, Registry, Registered
  <2>2. Add(r, p) = SeedNames(r, {p})
    BY <1>2, <2>1 DEF Add, SeedNames, Registry
  <2> QED
    BY <1>2, <2>2, NewPeers
<1> QED
  BY <1>1, <1>2

LEMMA LeastSlot ==
  ASSUME NEW S \in SUBSET Slot, S # {}
  PROVE  \E i \in S : \A j \in S : i <= j
<1> DEFINE R == OpToRel(<, Nat)
<1>1. S \subseteq Nat
  BY PeersAssumption DEF Slot
<1>2. PICK i \in S : \A j \in S : ~(<<j, i>> \in R)
  <2>1. IsWellFoundedOn(R, Nat)
    BY NatLessThanWellFounded
  <2> HIDE DEF R
  <2> QED BY <1>1, <2>1, WFMin
<1>3. \A j \in S : ~(j < i)
  BY <1>1, <1>2 DEF OpToRel
<1> QED BY <1>1, <1>3

\* AssignSlot takes no slot that somebody has.
LEMMA FreeSlotIsFree ==
  ASSUME NEW r, NEW k
  PROVE  FreeSlot(r, k) = 0 \/ (FreeSlot(r, k) \in Slot /\ ~r.slots[FreeSlot(r, k)].occupied)
<1> DEFINE free == {i \in Slot : ~r.slots[i].occupied}
           own  == {i \in free : r.slots[i].key = k}
           S    == IF own # {} THEN own ELSE free
<1>1. S \subseteq free /\ free \subseteq Slot
  OBVIOUS
<1>2. FreeSlot(r, k) = IF S = {} THEN 0 ELSE CHOOSE i \in S : \A j \in S : i <= j
  BY DEF FreeSlot
<1>3. \A i \in free : ~r.slots[i].occupied
  OBVIOUS
<1> HIDE DEF S, free
<1>4. S # {} => (CHOOSE i \in S : \A j \in S : i <= j) \in S
  BY <1>1, LeastSlot
<1>5. CASE S = {}
  <2>1. FreeSlot(r, k) = 0
    BY <1>2, <1>5
  <2> QED
    BY <2>1
<1>6. CASE S # {}
  <2>1. FreeSlot(r, k) \in S
    BY <1>2, <1>4, <1>6
  <2> QED
    BY <1>1, <1>3, <2>1
<1> QED
  BY <1>5, <1>6

LEMMA AssignInv ==
  ASSUME NEW r, RegInv(r), NEW p \in Peer, NEW s \in Stream
  PROVE  /\ RegInv(AssignSlot(r, p, s))
         /\ Registered(AssignSlot(r, p, s)) = Registered(r)
         /\ \A q \in Registered(r) : AssignSlot(r, p, s).peers[q].known = r.peers[q].known
<1> DEFINE k == KeyIn(r, p)
           i == FreeSlot(r, k)
           g == AssignSlot(r, p, s)
<1>1. CASE p \notin Registered(r) \/ r.peers[p].slot[s] # 0 \/ i = 0
  BY <1>1 DEF AssignSlot
<1>2. CASE p \in Registered(r) /\ r.peers[p].slot[s] = 0 /\ i # 0
  <2>1. /\ r \in Registry /\ r.peers[p] \in Entry /\ k \in Key
        /\ r.peers \in [Peer -> Entry \cup {Nothing}]
        /\ r.slots \in [Slot -> [occupied : BOOLEAN, key : Key \cup {Nothing}]]
    BY <1>2, EntryOf, KeysDiffer DEF RegInv, Registry
  <2>2. i \in Slot /\ ~r.slots[i].occupied /\ i \in 1..NSlots
    BY <1>2, FreeSlotIsFree DEF Slot
  <2> DEFINE x == [occupied |-> TRUE, key |-> k]
             e == [r.peers[p] EXCEPT !.slot[s] = i]
  <2>3. g = [r EXCEPT !.slots[i] = x, !.peers[p].slot[s] = i]
    BY <1>2 DEF AssignSlot
  <2>4. e \in Entry /\ e.slot = [r.peers[p].slot EXCEPT ![s] = i] /\ e.known = r.peers[p].known
    <3>1. i \in 0..NSlots /\ r.peers[p].slot \in [Stream -> 0..NSlots]
      BY <2>1, <2>2 DEF Entry
    <3> HIDE DEF i
    <3> QED
      BY <2>1, <3>1 DEF Entry
  <2>5. x \in [occupied : BOOLEAN, key : Key \cup {Nothing}] /\ x.occupied /\ x.key = k
    BY <2>1
  <2>6. /\ g.peers = [r.peers EXCEPT ![p] = e] /\ g.slots = [r.slots EXCEPT ![i] = x]
        /\ g \in Registry
    <3> HIDE DEF i, x, k
    <3>1. g = [peers |-> [r.peers EXCEPT ![p] = e], slots |-> [r.slots EXCEPT ![i] = x]]
      BY <2>1, <2>3 DEF Registry
    <3> HIDE DEF e, g
    <3> QED
      BY <2>1, <2>2, <2>4, <2>5, <3>1 DEF Registry
  <2> HIDE DEF x, e, i, g, k
  <2>7. Registered(g) = Registered(r)
    BY <1>2, <2>1, <2>4, <2>6, EntryAssumption DEF Registered
  <2>8. \A q \in Registered(r) : g.peers[q].known = r.peers[q].known
    BY <2>1, <2>4, <2>6 DEF Registered
  <2>9. \A q \in Peer : KeyIn(g, q) = KeyIn(r, q)
    BY <2>7, <2>8 DEF KeyIn
  <2>10. \A q \in Peer, t \in Stream :
           q \in Registered(g) => g.peers[q].slot[t] = IF q = p /\ t = s THEN i ELSE r.peers[q].slot[t]
    <3>1. r.peers[p].slot \in [Stream -> 0..NSlots]
      BY <2>1 DEF Entry
    <3> QED
      BY <2>1, <2>4, <2>6, <3>1 DEF Registered
  <2>11. \A q \in Peer, t \in Stream : /\ Holds(g, q, t) <=> Holds(r, q, t) \/ (q = p /\ t = s)
                                       /\ ~Holds(r, p, s)
                                       /\ Holds(r, q, t) => /\ g.peers[q].slot[t] = r.peers[q].slot[t]
                                                            /\ r.peers[q].slot[t] # i
    <3>1. ~Holds(r, p, s) /\ i # 0
      BY <1>2, <2>2 DEF Holds
    <3>2. ASSUME NEW q \in Peer, NEW t \in Stream
          PROVE  Holds(g, q, t) <=> Holds(r, q, t) \/ (q = p /\ t = s)
      <4>1. CASE q = p /\ t = s
        BY <1>2, <2>7, <2>10, <3>1, <4>1 DEF Holds
      <4>2. CASE ~(q = p /\ t = s)
        BY <2>7, <2>10, <4>2 DEF Holds
      <4> QED
        BY <4>1, <4>2
    <3>3. ASSUME NEW q \in Peer, NEW t \in Stream, Holds(r, q, t)
          PROVE  g.peers[q].slot[t] = r.peers[q].slot[t] /\ r.peers[q].slot[t] # i
      <4>1. r.slots[r.peers[q].slot[t]].occupied
        BY <3>3 DEF RegInv, Match
      <4>2. q \in Registered(g) /\ ~(q = p /\ t = s)
        BY <2>7, <3>1, <3>3 DEF Holds
      <4> QED
        BY <2>2, <2>10, <4>1, <4>2
    <3> QED
      BY <3>1, <3>2, <3>3
  <2>12. g.peers[p].slot[s] = i
    BY <1>2, <2>7, <2>10
  <2>13. /\ \A q, v \in Peer, t, u \in Stream :
              Holds(g, q, t) /\ Holds(g, v, u) /\ g.peers[q].slot[t] = g.peers[v].slot[u]
                => q = v /\ t = u
    BY <2>11, <2>12 DEF RegInv, Match
  <2>14. \A j \in Slot : j # i => g.slots[j] = r.slots[j]
    BY <2>1, <2>6
  <2>15. g.slots[i] = x
    BY <2>1, <2>2, <2>6
  <2>16. \A q \in Peer, t \in Stream : Holds(g, q, t) =>
            /\ g.slots[g.peers[q].slot[t]].occupied /\ g.slots[g.peers[q].slot[t]].key = KeyIn(g, q)
    <3> SUFFICES ASSUME NEW q \in Peer, NEW t \in Stream, Holds(g, q, t)
                 PROVE  /\ g.slots[g.peers[q].slot[t]].occupied
                        /\ g.slots[g.peers[q].slot[t]].key = KeyIn(g, q)
      OBVIOUS
    <3>1. CASE q = p /\ t = s
      BY <2>5, <2>9, <2>12, <2>15, <3>1 DEF k
    <3>2. CASE ~(q = p /\ t = s)
      <4>1. Holds(r, q, t) /\ g.peers[q].slot[t] = r.peers[q].slot[t] /\ r.peers[q].slot[t] # i
        BY <2>11, <3>2
      <4>2. r.peers[q].slot[t] \in Slot
        BY <2>1, <4>1, EntryOf DEF Holds, Slot, Entry
      <4> QED
        BY <2>9, <2>14, <4>1, <4>2 DEF RegInv, Match
    <3> QED
      BY <3>1, <3>2
  <2>17. \A j \in Slot : g.slots[j].occupied =>
           \E q \in Peer, t \in Stream : Holds(g, q, t) /\ g.peers[q].slot[t] = j
    <3> SUFFICES ASSUME NEW j \in Slot, g.slots[j].occupied
                 PROVE  \E q \in Peer, t \in Stream : Holds(g, q, t) /\ g.peers[q].slot[t] = j
      OBVIOUS
    <3>1. CASE j = i
      BY <2>11, <2>12, <3>1
    <3>2. CASE j # i
      <4>1. r.slots[j].occupied
        BY <2>14, <3>2
      <4>2. PICK q \in Peer, t \in Stream : Holds(r, q, t) /\ r.peers[q].slot[t] = j
        BY <4>1 DEF RegInv, Match
      <4>3. Holds(g, q, t)
        BY <2>11, <4>2
      <4>4. g.peers[q].slot[t] = j
        BY <2>11, <4>2
      <4> QED
        BY <4>3, <4>4
    <3> QED
      BY <3>1, <3>2
  <2>18. Unique(g)
    BY <2>7, <2>8 DEF RegInv, Unique
  <2> QED
    BY <2>6, <2>7, <2>8, <2>13, <2>16, <2>17, <2>18 DEF RegInv, Match, g
<1> QED
  BY <1>1, <1>2

\* The slots of those who go are freed, and nobody else's.
LEMMA RemoveInv ==
  ASSUME NEW r, RegInv(r), NEW S \in SUBSET Peer
  PROVE  /\ RegInv(RemovePeers(r, S))
         /\ Registered(RemovePeers(r, S)) = Registered(r) \ S
         /\ \A p \in Registered(r) \ S : RemovePeers(r, S).peers[p] = r.peers[p]
<1> DEFINE g == RemovePeers(r, S)
           keys == {KeyIn(r, p) : p \in S \cap Registered(r)}
<1>1. /\ r \in Registry /\ Unique(r) /\ Match(r)
      /\ r.peers \in [Peer -> Entry \cup {Nothing}]
      /\ r.slots \in [Slot -> [occupied : BOOLEAN, key : Key \cup {Nothing}]]
  BY DEF RegInv, Registry
<1>2. /\ g.peers = [p \in Peer |-> IF p \in S THEN Nothing ELSE r.peers[p]]
      /\ g.slots = [i \in Slot |-> IF r.slots[i].key \in keys
                                   THEN [r.slots[i] EXCEPT !.occupied = FALSE] ELSE r.slots[i]]
      /\ g = [peers |-> g.peers, slots |-> g.slots]
  BY DEF RemovePeers
<1>3. \A p \in Registered(r) : KeyIn(r, p) \in keys <=> p \in S
  BY <1>1, KeysDiffer
<1> HIDE DEF g, keys
<1>4. g.slots \in [Slot -> [occupied : BOOLEAN, key : Key \cup {Nothing}]]
  <2>1. \A i \in Slot : [r.slots[i] EXCEPT !.occupied = FALSE] \in [occupied : BOOLEAN, key : Key \cup {Nothing}]
    BY <1>1
  <2> QED
    BY <1>1, <1>2, <2>1
<1>5. g \in Registry
  BY <1>1, <1>2, <1>4 DEF Registry
<1>6. Registered(g) = Registered(r) \ S
  BY <1>2 DEF Registered
<1>7. \A p \in Registered(r) \ S : g.peers[p] = r.peers[p]
  BY <1>2 DEF Registered
<1>8. \A p \in Registered(g) : KeyIn(g, p) = KeyIn(r, p)
  BY <1>6, <1>7 DEF KeyIn
<1>9. \A p \in Peer, s \in Stream : /\ Holds(g, p, s) <=> Holds(r, p, s) /\ p \notin S
                                    /\ Holds(g, p, s) => g.peers[p].slot = r.peers[p].slot
  BY <1>6, <1>7 DEF Holds
<1>10. \A i \in Slot : r.slots[i].key \notin keys => g.slots[i] = r.slots[i]
  BY <1>2
<1>11. \A i \in Slot : g.slots[i].occupied => r.slots[i].key \notin keys
  <2>1. \A i \in Slot : [r.slots[i] EXCEPT !.occupied = FALSE].occupied = FALSE
    BY <1>1
  <2> QED
    BY <1>2, <2>1
<1>12. \A p \in Peer, s \in Stream : Holds(g, p, s) =>
         /\ g.slots[g.peers[p].slot[s]].occupied /\ g.slots[g.peers[p].slot[s]].key = KeyIn(g, p)
  <2> SUFFICES ASSUME NEW p \in Peer, NEW s \in Stream, Holds(g, p, s)
               PROVE  /\ g.slots[g.peers[p].slot[s]].occupied
                      /\ g.slots[g.peers[p].slot[s]].key = KeyIn(g, p)
    OBVIOUS
  <2>1. Holds(r, p, s) /\ p \notin S /\ g.peers[p].slot = r.peers[p].slot /\ p \in Registered(g)
    BY <1>9 DEF Holds
  <2>2. r.peers[p].slot[s] \in Slot
    BY <1>1, <2>1, EntryOf DEF Holds, Slot, Entry
  <2>3. r.slots[r.peers[p].slot[s]].occupied /\ r.slots[r.peers[p].slot[s]].key = KeyIn(r, p)
    BY <1>1, <2>1 DEF Match
  <2>4. KeyIn(r, p) \notin keys
    BY <1>3, <2>1 DEF Holds
  <2> QED
    BY <1>8, <1>10, <2>1, <2>2, <2>3, <2>4
<1>13. \A i \in Slot : g.slots[i].occupied =>
         \E p \in Peer, s \in Stream : Holds(g, p, s) /\ g.peers[p].slot[s] = i
  <2> SUFFICES ASSUME NEW i \in Slot, g.slots[i].occupied
               PROVE  \E p \in Peer, s \in Stream : Holds(g, p, s) /\ g.peers[p].slot[s] = i
    OBVIOUS
  <2>1. r.slots[i].key \notin keys /\ r.slots[i].occupied
    BY <1>10, <1>11
  <2>2. PICK p \in Peer, s \in Stream : Holds(r, p, s) /\ r.peers[p].slot[s] = i
    BY <1>1, <2>1 DEF Match
  <2>3. r.slots[i].key = KeyIn(r, p)
    BY <1>1, <2>2 DEF Match
  <2>4. p \notin S
    BY <1>3, <2>1, <2>2, <2>3 DEF Holds
  <2>5. Holds(g, p, s) /\ g.peers[p].slot[s] = i
    BY <1>9, <2>2, <2>4
  <2> QED
    BY <2>5
<1>14. \A p, q \in Peer, s, t \in Stream :
         Holds(g, p, s) /\ Holds(g, q, t) /\ g.peers[p].slot[s] = g.peers[q].slot[t] => p = q /\ s = t
  BY <1>1, <1>9 DEF Match
<1>15. Unique(g)
  BY <1>1, <1>6, <1>7 DEF Unique
<1> QED
  BY <1>5, <1>6, <1>7, <1>12, <1>13, <1>14, <1>15 DEF RegInv, Match, g

\* Rekeying: the identity takes the slots over, when no other session of the
\* musician is left.
LEMMA IdentifyInv ==
  ASSUME NEW r, RegInv(r), NEW p \in Registered(r), OthersOf(r, p) = {}
  PROVE  /\ RegInv(Identify(r, p))
         /\ Registered(Identify(r, p)) = Registered(r)
         /\ \A q \in Registered(r) \ {p} : Identify(r, p).peers[q] = r.peers[q]
         /\ Identify(r, p).peers[p].known
<1> DEFINE g == Identify(r, p)
<1>1. /\ r \in Registry /\ Unique(r) /\ Match(r) /\ p \in Peer /\ r.peers[p] \in Entry
      /\ r.peers \in [Peer -> Entry \cup {Nothing}]
      /\ r.slots \in [Slot -> [occupied : BOOLEAN, key : Key \cup {Nothing}]]
      /\ IdOf[p] \in Identity /\ IdOf[p] \in Key /\ IdOf[p] \notin Peer
  BY EntryOf, PeersAssumption DEF RegInv, Registry, Key
<1> DEFINE e == [r.peers[p] EXCEPT !.known = TRUE]
<1>2. e \in Entry /\ e.slot = r.peers[p].slot /\ e.known
  BY <1>1 DEF Entry
<1>3. /\ g.peers = [r.peers EXCEPT ![p] = e]
      /\ g.slots = [i \in Slot |-> IF r.slots[i].key = p
                                   THEN [r.slots[i] EXCEPT !.key = IdOf[p]] ELSE r.slots[i]]
      /\ g = [peers |-> g.peers, slots |-> g.slots]
  BY <1>1 DEF Identify
<1> HIDE DEF g, e
<1>4. \A i \in Slot : /\ g.slots[i] \in [occupied : BOOLEAN, key : Key \cup {Nothing}]
                      /\ g.slots[i].occupied = r.slots[i].occupied
                      /\ g.slots[i].key = IF r.slots[i].key = p THEN IdOf[p] ELSE r.slots[i].key
  <2>1. \A x \in [occupied : BOOLEAN, key : Key \cup {Nothing}] :
          /\ [x EXCEPT !.key = IdOf[p]] \in [occupied : BOOLEAN, key : Key \cup {Nothing}]
          /\ [x EXCEPT !.key = IdOf[p]].occupied = x.occupied
          /\ [x EXCEPT !.key = IdOf[p]].key = IdOf[p]
    BY <1>1
  <2> QED
    BY <1>1, <1>3, <2>1
<1>5. g \in Registry
  <2>1. g.slots \in [Slot -> [occupied : BOOLEAN, key : Key \cup {Nothing}]]
    BY <1>3, <1>4
  <2> QED
    BY <1>1, <1>2, <1>3, <2>1 DEF Registry
<1>6. Registered(g) = Registered(r)
  BY <1>1, <1>2, <1>3, EntryAssumption DEF Registered
<1>7. /\ \A q \in Registered(r) \ {p} : g.peers[q] = r.peers[q]
      /\ g.peers[p] = e
      /\ \A q \in Registered(r) : g.peers[q].slot = r.peers[q].slot
  BY <1>1, <1>2, <1>3 DEF Registered
<1>8. KeyIn(g, p) = IdOf[p] /\ \A q \in Registered(r) \ {p} : KeyIn(g, q) = KeyIn(r, q)
  BY <1>2, <1>6, <1>7 DEF KeyIn
<1>9. \A q \in Registered(r) \ {p} : KeyIn(r, q) # p
  BY <1>1, PeersAssumption DEF KeyIn, Registered
<1>10. KeyIn(r, p) = p \/ KeyIn(r, p) = IdOf[p]
  BY DEF KeyIn
<1>11. \A q \in Peer, s \in Stream : /\ Holds(g, q, s) <=> Holds(r, q, s)
                                     /\ Holds(r, q, s) => g.peers[q].slot[s] = r.peers[q].slot[s]
  BY <1>6, <1>7 DEF Holds
<1>12. \A q \in Peer, s \in Stream : Holds(r, q, s) =>
         /\ r.peers[q].slot[s] \in Slot /\ r.slots[r.peers[q].slot[s]].occupied
         /\ r.slots[r.peers[q].slot[s]].key = KeyIn(r, q)
  BY <1>1, EntryOf DEF Holds, Slot, Entry, Match
<1>13. \A q \in Peer, s \in Stream : Holds(g, q, s) =>
         /\ g.slots[g.peers[q].slot[s]].occupied /\ g.slots[g.peers[q].slot[s]].key = KeyIn(g, q)
  <2> SUFFICES ASSUME NEW q \in Peer, NEW s \in Stream, Holds(g, q, s)
               PROVE  /\ g.slots[g.peers[q].slot[s]].occupied
                      /\ g.slots[g.peers[q].slot[s]].key = KeyIn(g, q)
    OBVIOUS
  <2>1. /\ q \in Registered(r) /\ g.peers[q].slot[s] = r.peers[q].slot[s]
        /\ r.peers[q].slot[s] \in Slot /\ r.slots[r.peers[q].slot[s]].occupied
        /\ r.slots[r.peers[q].slot[s]].key = KeyIn(r, q)
    BY <1>11, <1>12 DEF Holds
  <2>2. CASE q = p
    BY <1>1, <1>4, <1>8, <1>10, <2>1, <2>2
  <2>3. CASE q # p
    BY <1>4, <1>8, <1>9, <2>1, <2>3
  <2> QED
    BY <2>2, <2>3
<1>14. \A i \in Slot : g.slots[i].occupied =>
         \E q \in Peer, s \in Stream : Holds(g, q, s) /\ g.peers[q].slot[s] = i
  BY <1>1, <1>4, <1>11 DEF Match
<1>15. \A q, v \in Peer, s, t \in Stream :
         Holds(g, q, s) /\ Holds(g, v, t) /\ g.peers[q].slot[s] = g.peers[v].slot[t] => q = v /\ s = t
  BY <1>1, <1>11 DEF Match
<1>16. Unique(g)
  BY <1>1, <1>6, <1>7 DEF Unique, OthersOf
<1> QED
  BY <1>2, <1>5, <1>6, <1>7, <1>13, <1>14, <1>15, <1>16 DEF RegInv, Match, g

LEMMA WithPeerInv ==
  ASSUME NEW r, RegInv(r), NEW p \in Peer
  PROVE  /\ RegInv(WithPeer(r, p, Hear)) /\ Same(r, WithPeer(r, p, Hear))
         /\ RegInv(WithPeer(r, p, Tell)) /\ Same(r, WithPeer(r, p, Tell))
<1>1. CASE p \notin Registered(r)
  BY <1>1 DEF WithPeer, Same
<1>2. CASE p \in Registered(r)
  <2>1. r \in Registry /\ r.peers[p] \in Entry
    BY <1>2, EntryOf DEF RegInv
  <2> DEFINE h == Hear(r.peers[p])
             t == Tell(r.peers[p])
  <2>2. /\ h \in Entry /\ h.slot = r.peers[p].slot /\ h.known = r.peers[p].known
        /\ t \in Entry /\ t.slot = r.peers[p].slot /\ t.known = r.peers[p].known
    BY <2>1, EntrySteps
  <2>3. WithPeer(r, p, Hear) = [r EXCEPT !.peers[p] = h]
    BY <1>2, <2>1 DEF WithPeer, Registry
  <2>4. WithPeer(r, p, Tell) = [r EXCEPT !.peers[p] = t]
    BY <1>2, <2>1 DEF WithPeer, Registry
  <2> HIDE DEF h, t
  <2> QED
    BY <1>2, <2>2, <2>3, <2>4, ChangeEntry
<1> QED
  BY <1>1, <1>2

\* The registry of HandleHello before its slot and its answer.
Greeted(r, p) ==
  Identify(Evict(IF p \in Registered(r) THEN WithPeer(r, p, Hear) ELSE Add(r, p), p), p)

LEMMA GreetedInv ==
  ASSUME NEW r, RegInv(r), NEW p \in Peer
  PROVE  /\ RegInv(Greeted(r, p))
         /\ Registered(Greeted(r, p)) = (Registered(r) \cup {p}) \ OthersOf(r, p)
         /\ Greeted(r, p).peers[p].known
         /\ \A q \in Registered(Greeted(r, p)) \ {p} :
              q \in Registered(r) /\ Greeted(r, p).peers[q].known = r.peers[q].known
<1> DEFINE a == IF p \in Registered(r) THEN WithPeer(r, p, Hear) ELSE Add(r, p)
           b == RemovePeers(a, OthersOf(a, p))
<1>1. /\ RegInv(a) /\ Registered(a) = Registered(r) \cup {p}
      /\ \A q \in Registered(r) : a.peers[q].known = r.peers[q].known
  BY WithPeerInv, AddInv DEF Same
<1>2. OthersOf(a, p) = OthersOf(r, p) /\ OthersOf(r, p) \subseteq Peer /\ p \notin OthersOf(r, p)
  BY <1>1 DEF OthersOf, Registered
<1> HIDE DEF a
<1>3. /\ RegInv(b) /\ Registered(b) = Registered(a) \ OthersOf(r, p)
      /\ \A q \in Registered(b) : b.peers[q] = a.peers[q]
  BY <1>1, <1>2, RemoveInv
<1> HIDE DEF b
<1>4. p \in Registered(b) /\ OthersOf(b, p) = {}
  BY <1>1, <1>2, <1>3 DEF OthersOf
<1>5. Greeted(r, p) = Identify(b, p)
  BY DEF Greeted, Evict, a, b
<1>6. /\ RegInv(Identify(b, p)) /\ Registered(Identify(b, p)) = Registered(b)
      /\ \A q \in Registered(b) \ {p} : Identify(b, p).peers[q] = b.peers[q]
      /\ Identify(b, p).peers[p].known
  BY <1>3, <1>4, IdentifyInv
<1> QED
  BY <1>1, <1>3, <1>5, <1>6

\* The registry HandleHello leaves.
LEMMA HelloInv ==
  ASSUME NEW r, RegInv(r), NEW p \in Peer
  PROVE  LET g == WithPeer(AssignSlot(Greeted(r, p), p, 0), p, Tell) IN
         /\ RegInv(g)
         /\ Registered(g) = (Registered(r) \cup {p}) \ OthersOf(r, p)
         /\ \A q \in Registered(g) \ {p} :
              q \in Registered(r) /\ g.peers[q].known = r.peers[q].known
<1> DEFINE a == Greeted(r, p)
           b == AssignSlot(a, p, 0)
           g == WithPeer(b, p, Tell)
<1>1. /\ RegInv(a) /\ Registered(a) = (Registered(r) \cup {p}) \ OthersOf(r, p)
      /\ \A q \in Registered(a) \ {p} :
           q \in Registered(r) /\ a.peers[q].known = r.peers[q].known
  BY GreetedInv
<1> HIDE DEF a
<1>2. /\ RegInv(b) /\ Registered(b) = Registered(a)
      /\ \A q \in Registered(a) : b.peers[q].known = a.peers[q].known
  BY <1>1, AssignInv, PeersAssumption
<1> HIDE DEF b
<1>3. RegInv(g) /\ Same(b, g)
  BY <1>2, WithPeerInv
<1> HIDE DEF g
<1>4. /\ RegInv(g)
      /\ Registered(g) = (Registered(r) \cup {p}) \ OthersOf(r, p)
      /\ \A q \in Registered(g) \ {p} :
           q \in Registered(r) /\ g.peers[q].known = r.peers[q].known
  BY <1>1, <1>2, <1>3 DEF Same
<1> QED
  BY <1>4 DEF g, b, a

\* The last step of the liveness ticker: the entries of those left age.
Ticked(r, soft) ==
  [r EXCEPT !.peers = [p \in Peer |->
     IF p \notin Registered(r) THEN Nothing
     ELSE Aged(IF p \in soft THEN Retry(@[p]) ELSE @[p])]]

LEMMA TickedInv ==
  ASSUME NEW r, RegInv(r), NEW soft
  PROVE  RegInv(Ticked(r, soft)) /\ Same(r, Ticked(r, soft))
<1> DEFINE g == Ticked(r, soft)
           e(p) == Aged(IF p \in soft THEN Retry(r.peers[p]) ELSE r.peers[p])
<1>1. r \in Registry /\ r.peers \in [Peer -> Entry \cup {Nothing}]
  BY DEF RegInv, Registry
<1>2. \A p \in Registered(r) : e(p) \in Entry /\ e(p).slot = r.peers[p].slot
                                              /\ e(p).known = r.peers[p].known
  <2> SUFFICES ASSUME NEW p \in Registered(r)
               PROVE  e(p) \in Entry /\ e(p).slot = r.peers[p].slot /\ e(p).known = r.peers[p].known
    OBVIOUS
  <2> DEFINE x == IF p \in soft THEN Retry(r.peers[p]) ELSE r.peers[p]
  <2>1. r.peers[p] \in Entry
    BY <1>1, EntryOf
  <2>2. x \in Entry /\ x.slot = r.peers[p].slot /\ x.known = r.peers[p].known
    BY <2>1, EntrySteps
  <2> HIDE DEF x
  <2>3. Aged(x) \in Entry /\ Aged(x).slot = x.slot /\ Aged(x).known = x.known
    BY <2>2, EntrySteps
  <2> QED
    BY <2>2, <2>3 DEF x
<1>3. /\ g.peers = [p \in Peer |-> IF p \notin Registered(r) THEN Nothing ELSE e(p)]
      /\ g.slots = r.slots /\ g = [r EXCEPT !.peers = g.peers]
  BY <1>1 DEF Ticked, Registry
<1> HIDE DEF g, e
<1>4. g \in Registry
  <2>1. g.peers \in [Peer -> Entry \cup {Nothing}]
    BY <1>2, <1>3
  <2> QED
    BY <1>1, <1>3, <2>1 DEF Registry
<1>5. Same(r, g)
  BY <1>2, <1>3, EntryAssumption DEF Same, Registered
<1> QED
  BY <1>4, <1>5, SameInv DEF g

LEMMA PingedInv ==
  ASSUME NEW r, RegInv(r)
  PROVE  RegInv(Pinged(r)) /\ Same(r, Pinged(r))
<1> DEFINE g == Pinged(r)
           e(p) == IF p \in Registered(r) /\ link /\ Up(p) THEN Hear(r.peers[p]) ELSE r.peers[p]
<1>1. r \in Registry /\ r.peers \in [Peer -> Entry \cup {Nothing}]
  BY DEF RegInv, Registry
<1>2. \A p \in Registered(r) : e(p) \in Entry /\ e(p).slot = r.peers[p].slot
                                              /\ e(p).known = r.peers[p].known
  BY <1>1, EntryOf, EntrySteps
<1>3. /\ g.peers = [p \in Peer |-> e(p)]
      /\ g.slots = r.slots /\ g = [r EXCEPT !.peers = g.peers]
      /\ \A p \in Peer \ Registered(r) : e(p) = r.peers[p]
  BY <1>1 DEF Pinged, Registry
<1> HIDE DEF g, e
<1>4. g \in Registry
  <2>1. g.peers \in [Peer -> Entry \cup {Nothing}]
    <3>1. \A p \in Peer : e(p) \in Entry \cup {Nothing}
      BY <1>1, <1>2, <1>3
    <3> QED
      BY <1>3, <3>1
  <2> QED
    BY <1>1, <1>3, <2>1 DEF Registry
<1>5. Same(r, g)
  BY <1>1, <1>2, <1>3, EntryAssumption DEF Same, Registered
<1> QED
  BY <1>4, <1>5, SameInv DEF g

-----------------------------------------------------------------------------
(* The engine *)

Engine == [published : SUBSET (Key \X Stream), intent : [Key -> Intent \cup {Nothing}]]

\* NoDuplicateChannel, of any registry and engine.
FallbackDropped(r, e) ==
  \A p \in Registered(r), s \in Stream :
    r.peers[p].known /\ <<p, s>> \in e.published => e.intent[p] = Gone

LEMMA DropSteps ==
  ASSUME NEW e \in Engine, NEW K
  PROVE  /\ DropPeers(e, K) \in Engine
         /\ DropPeers(e, K).published = e.published
         /\ \A k \in Key : DropPeers(e, K).intent[k] = IF k \in K THEN Gone ELSE e.intent[k]
<1> DEFINE i == [k \in Key |-> IF k \in K THEN Gone ELSE e.intent[k]]
<1>1. i \in [Key -> Intent \cup {Nothing}]
  BY DEF Engine, Intent
<1>2. DropPeers(e, K) = [e EXCEPT !.intent = i]
  BY DEF DropPeers
<1>3. \A k \in Key : i[k] = IF k \in K THEN Gone ELSE e.intent[k]
  OBVIOUS
<1> HIDE DEF i
<1> QED
  BY <1>1, <1>2, <1>3 DEF Engine

\* A key of a known peer is an identity: what is published or declared under
\* the key of the sender is no fallback of a known peer.
LEMMA KeyOfKnown ==
  ASSUME NEW r, NEW p \in Registered(r), r.peers[p].known, NEW q \in Peer
  PROVE  KeyIn(r, q) # p
  BY PeersAssumption DEF KeyIn, Registered

LEMMA StreamSteps ==
  ASSUME NEW r, RegInv(r), NEW e \in Engine, FallbackDropped(r, e),
         NEW q \in Peer, NEW S \in SUBSET Stream, NEW s \in Stream
  PROVE  /\ SetPeerStreams(e, KeyIn(r, q), S) \in Engine
         /\ FallbackDropped(r, SetPeerStreams(e, KeyIn(r, q), S))
         /\ HandleRemoteAudio(e, KeyIn(r, q), s) \in Engine
         /\ FallbackDropped(r, HandleRemoteAudio(e, KeyIn(r, q), s))
<1> DEFINE k == KeyIn(r, q)
<1>1. k \in Key /\ \A p \in Registered(r) : r.peers[p].known => k # p /\ p \in Key
  BY KeysDiffer, KeyOfKnown DEF RegInv, Registered, Key
<1>2. Keeps(S) \in Intent
  BY DEF Intent
<1> HIDE DEF k
<1>3. SetPeerStreams(e, k, S) \in Engine /\ FallbackDropped(r, SetPeerStreams(e, k, S))
  <2> DEFINE i == [e.intent EXCEPT ![k] = Keeps(S)]
  <2>1. SetPeerStreams(e, k, S) = [e EXCEPT !.intent = i]
    BY DEF SetPeerStreams, Engine
  <2>2. i \in [Key -> Intent \cup {Nothing}]
    BY <1>1, <1>2 DEF Engine
  <2>3. \A p \in Registered(r) : r.peers[p].known => i[p] = e.intent[p]
    BY <1>1 DEF Engine
  <2> HIDE DEF i
  <2> QED
    BY <2>1, <2>2, <2>3 DEF Engine, FallbackDropped
<1>4. HandleRemoteAudio(e, k, s) \in Engine /\ FallbackDropped(r, HandleRemoteAudio(e, k, s))
  <2>1. HandleRemoteAudio(e, k, s) = [e EXCEPT !.published = e.published \cup {<<k, s>>}]
    BY DEF HandleRemoteAudio, Engine
  <2>2. e.published \cup {<<k, s>>} \in SUBSET (Key \X Stream)
    BY <1>1 DEF Engine
  <2>3. \A p \in Registered(r), t \in Stream :
          r.peers[p].known /\ <<p, t>> \in e.published \cup {<<k, s>>} => <<p, t>> \in e.published
    BY <1>1
  <2> QED
    BY <2>1, <2>2, <2>3 DEF Engine, FallbackDropped
<1> QED
  BY <1>3, <1>4 DEF k

LEMMA SweepSteps ==
  ASSUME NEW r, NEW e \in Engine, FallbackDropped(r, e), NEW idle
  PROVE  Sweep(e, idle) \in Engine /\ FallbackDropped(r, Sweep(e, idle))
<1> DEFINE left == e.published \ idle
           i == [k \in Key |-> IF \E s \in Stream : <<k, s>> \in left THEN e.intent[k] ELSE Nothing]
<1>1. Sweep(e, idle) = [published |-> left, intent |-> i]
  BY DEF Sweep
<1>2. i \in [Key -> Intent \cup {Nothing}] /\ left \in SUBSET (Key \X Stream)
  BY DEF Engine
<1>3. \A p \in Registered(r), s \in Stream : <<p, s>> \in left => i[p] = e.intent[p] /\ <<p, s>> \in e.published
  BY DEF Registered, Key
<1> HIDE DEF left, i
<1> QED
  BY <1>1, <1>2, <1>3 DEF Engine, FallbackDropped

-----------------------------------------------------------------------------
(* The session: what the others and the queues can hold *)

\* TypeOK of all but the registry and the engine.
Plain ==
  /\ run \in [Peer -> {"new", "up", "down", "dead"}]
  /\ room \subseteq Peer
  /\ theirs \in [Peer -> View]
  /\ link \in BOOLEAN /\ inRoom \in BOOLEAN
  /\ incoming \in Seq(Event) /\ events \in Seq(Event)
  /\ sync \in Seq(Message)
  /\ audio \subseteq Peer \X Stream
  /\ helloTo \subseteq Peer
  /\ mesh \subseteq Peer
  /\ losses \in 0..MaxLosses /\ blips \in 0..MaxBlips /\ says \in 0..MaxSays

LEMMA Types == TypeOK <=> Plain /\ registry \in Registry /\ engine \in Engine
  BY DEF TypeOK, Plain, Engine

LEMMA MessageTypes ==
  /\ \A p \in Peer : Hello(p) \in Message
  /\ \A p \in Peer, S \in SUBSET Stream : [type |-> "StreamNames", from |-> p, keep |-> S] \in Message
  /\ \A p \in Peer : [type |-> "PeerJoined", peer |-> p] \in Event
                     /\ [type |-> "PeerLeft", peer |-> p] \in Event
  /\ \A m \in Message : m.from \in Peer /\ (m.type # "Hello" => m.keep \in SUBSET Stream)
  BY DEF Hello, Message, Event

LEMMA ViewTypes ==
  /\ Stranger \in View
  /\ \A v \in View : /\ AddsUs(v) \in View
                     /\ [AddsUs(v) EXCEPT !.told = TRUE, !.knows = TRUE] \in View
                     /\ [v EXCEPT !.retry = TRUE] \in View
<1>1. Stranger \in View /\ \A v \in View : AddsUs(v) \in View
  BY DEF View, AddsUs, Stranger
<1>2. \A v \in View : [v EXCEPT !.told = TRUE, !.knows = TRUE] \in View /\ [v EXCEPT !.retry = TRUE] \in View
  BY DEF View
<1> QED
  BY <1>1, <1>2

LEMMA PrefixType ==
  ASSUME NEW S, NEW q \in Seq(S), NEW n \in 0..Len(q)
  PROVE  SubSeq(q, 1, n) \in Seq(S)
  OBVIOUS

\* A sequence of Hellos, one of each peer of S in any order.
LEMMA GreetingTypes ==
  ASSUME NEW S \in SUBSET Peer, NEW order \in SetToSeqs(S)
  PROVE  [i \in DOMAIN order |-> Hello(order[i])] \in Seq(Message)
<1>1. IsFiniteSet(S) /\ Cardinality(S) \in Nat
  BY PeersAssumption, FS_Subset, FS_CardinalityType
<1>2. order \in [1..Cardinality(S) -> S]
  BY DEF SetToSeqs
<1>3. \A i \in DOMAIN order : Hello(order[i]) \in Message
  BY <1>2, MessageTypes
<1> QED
  BY <1>1, <1>2, <1>3

LEMMA AnnounceType ==
  ASSUME incoming \in Seq(Event), NEW p \in Peer,
         Announce("PeerJoined", p) \/ Announce("PeerLeft", p)
  PROVE  incoming' \in Seq(Event)
  BY MessageTypes DEF Announce

LEMMA ReceiveType ==
  ASSUME sync \in Seq(Message), NEW m \in Message
  PROVE  Receive(<<m>>) \in Seq(Message)
  BY DEF Receive

LEMMA PlainOthers ==
  ASSUME Plain, Others
  PROVE  Plain' /\ UNCHANGED <<events, mesh, registry, engine>>
<1> USE DEF Plain
<1>1. PICK p \in Peer :
        \/ Start(p) \/ Quit(p) \/ Blip(p) \/ Notice(p) \/ Rejoin(p)
        \/ HearHello(p) \/ TheirTick(p)
        \/ \E S \in SUBSET Stream : Say(p, S)
        \/ \E s \in Stream : Play(p, s)
  BY DEF Others
<1>2. CASE Start(p)
  <2>1. theirs' \in [Peer -> View]
    BY <1>2, ViewTypes DEF Start
  <2>2. incoming' \in Seq(Event)
    BY <1>2, AnnounceType DEF Start
  <2> QED
    BY <1>2, <2>1, <2>2 DEF Start, boundVars
<1>3. CASE Quit(p)
  BY <1>3 DEF Quit, boundVars
<1>4. CASE Blip(p)
  BY <1>4, PeersAssumption DEF Blip
<1>5. CASE Notice(p)
  <2>1. incoming' \in Seq(Event)
    BY <1>5, AnnounceType DEF Notice
  <2> QED
    BY <1>5, <2>1 DEF Notice, boundVars
<1>6. CASE Rejoin(p)
  <2>1. theirs' \in [Peer -> View]
    BY <1>6, ViewTypes DEF Rejoin
  <2>2. incoming' \in Seq(Event)
    BY <1>6, AnnounceType DEF Rejoin
  <2> QED
    BY <1>6, <2>1, <2>2 DEF Rejoin, boundVars
<1>7. CASE HearHello(p)
  <2>1. theirs' \in [Peer -> View]
    BY <1>7, ViewTypes DEF HearHello
  <2>2. sync' \in Seq(Message)
    BY <1>7, MessageTypes, ReceiveType DEF HearHello
  <2> QED
    BY <1>7, <2>1, <2>2 DEF HearHello, boundVars
<1>8. CASE TheirTick(p)
  <2>1. theirs' \in [Peer -> View]
    BY <1>8, ViewTypes DEF TheirTick
  <2>2. sync' \in Seq(Message)
    BY <1>8, MessageTypes, ReceiveType DEF TheirTick
  <2> QED
    BY <1>8, <2>1, <2>2 DEF TheirTick, boundVars
<1>9. ASSUME NEW S \in SUBSET Stream, Say(p, S)
      PROVE  Plain' /\ UNCHANGED <<events, mesh, registry, engine>>
  <2>1. sync' \in Seq(Message)
    BY <1>9, MessageTypes, ReceiveType DEF Say
  <2> QED
    BY <1>9, <2>1, PeersAssumption DEF Say, remoteVars
<1>10. ASSUME NEW s \in Stream, Play(p, s)
       PROVE  Plain' /\ UNCHANGED <<events, mesh, registry, engine>>
  BY <1>10 DEF Play, remoteVars, boundVars
<1> QED
  BY <1>1, <1>2, <1>3, <1>4, <1>5, <1>6, <1>7, <1>8, <1>9, <1>10

LEMMA PlainOurs ==
  ASSUME Plain, Lose \/ NoticeUs \/ Boundary
  PROVE  Plain' /\ UNCHANGED <<events, mesh, registry>>
<1> USE DEF Plain
<1>1. CASE Lose
  <2>1. incoming' \in Seq(Event) /\ sync' \in Seq(Message)
    BY <1>1, PrefixType DEF Lose
  <2>2. UNCHANGED <<run, room, theirs, inRoom, events, audio, mesh, registry, blips, says>>
        /\ link' = FALSE /\ helloTo' = {}
    BY <1>1 DEF Lose, remoteVars
  <2>3. losses' \in 0..MaxLosses
    BY <1>1, PeersAssumption DEF Lose
  <2> QED
    BY <2>1, <2>2, <2>3
<1>2. CASE NoticeUs
  BY <1>2, ViewTypes DEF NoticeUs, queueVars, boundVars
<1>3. CASE Boundary
  BY <1>3 DEF Boundary, remoteVars, queueVars, boundVars
<1> QED
  BY <1>1, <1>2, <1>3

-----------------------------------------------------------------------------
(* The inductive invariant *)

\* A polled PeerLeft of a peer that is listed again is followed by its PeerJoined.
Rejoins ==
  \A q \in mesh, i \in DOMAIN events :
    events[i].type = "PeerLeft" /\ events[i].peer = q =>
      \E j \in DOMAIN events : i < j /\ events[j].type = "PeerJoined" /\ events[j].peer = q

\* Who is listed is registered, or will be by an event that is polled already.
Listed ==
  \A q \in mesh :
    \/ q \in Registered(registry)
    \/ \E j \in DOMAIN events : events[j].type = "PeerJoined" /\ events[j].peer = q

IInv ==
  /\ Plain /\ engine \in Engine /\ RegInv(registry)
  /\ FallbackDropped(registry, engine)
  /\ Rejoins /\ Listed

LEMMA InitInv == Init => IInv
<1> SUFFICES ASSUME Init PROVE IInv
  OBVIOUS
<1>1. Plain
  <2>1. 0 \in 0..MaxLosses /\ 0 \in 0..MaxBlips /\ 0 \in 0..MaxSays
    BY PeersAssumption
  <2>2. theirs \in [Peer -> View]
    BY ViewTypes DEF Init
  <2>3. incoming \in Seq(Event) /\ events \in Seq(Event) /\ sync \in Seq(Message)
    BY DEF Init
  <2> QED
    BY <2>1, <2>2, <2>3 DEF Init, Plain
<1>2. engine \in Engine
  BY DEF Init, Engine
<1>3. registry \in Registry /\ Registered(registry) = {} /\ \A i \in Slot : ~registry.slots[i].occupied
  BY DEF Init, Registry, Registered
<1>4. RegInv(registry) /\ FallbackDropped(registry, engine)
  BY <1>3 DEF RegInv, Match, Unique, Holds, FallbackDropped
<1>5. Rejoins /\ Listed
  BY DEF Init, Rejoins, Listed
<1> QED
  BY <1>1, <1>2, <1>4, <1>5 DEF IInv

\* What is listed when neither the mesh nor the queue nor membership changes.
LEMMA ListedSame ==
  ASSUME Rejoins, Listed, UNCHANGED <<events, mesh>>,
         Registered(registry') = Registered(registry)
  PROVE  Rejoins' /\ Listed'
  BY DEF Rejoins, Listed, Registered

LEMMA PollStep ==
  ASSUME IInv, Poll
  PROVE  IInv'
<1> DEFINE ev == Head(incoming)
<1>1. /\ ev \in Event /\ incoming \in Seq(Event) /\ events \in Seq(Event)
      /\ events' = Append(events, ev) /\ events' \in Seq(Event) /\ incoming' \in Seq(Event)
      /\ mesh' = IF ev.type = "PeerJoined" THEN mesh \cup {ev.peer} ELSE mesh \ {ev.peer}
      /\ UNCHANGED <<registry, engine>>
  BY DEF Poll, IInv, Plain
<1>2. ev.type \in {"PeerJoined", "PeerLeft"} /\ ev.peer \in Peer
  BY <1>1 DEF Event
<1> HIDE DEF ev
<1>3. Plain'
  BY <1>1, <1>2 DEF Poll, IInv, Plain, remoteVars, boundVars
<1> DEFINE n == Len(events)
<1>4. /\ n \in Nat /\ DOMAIN events = 1..n /\ DOMAIN events' = 1..(n + 1)
      /\ events'[n + 1] = ev /\ \A i \in 1..n : events'[i] = events[i]
  BY <1>1
<1> HIDE DEF n
<1>5. ASSUME NEW q \in mesh', NEW i \in DOMAIN events',
             events'[i].type = "PeerLeft", events'[i].peer = q
      PROVE  \E j \in DOMAIN events' : i < j /\ events'[j].type = "PeerJoined" /\ events'[j].peer = q
  <2>1. CASE ev.type = "PeerJoined" /\ q = ev.peer
    BY <1>4, <1>5, <2>1
  <2>2. CASE ~(ev.type = "PeerJoined" /\ q = ev.peer)
    <3>1. q \in mesh /\ (ev.type = "PeerLeft" => q # ev.peer)
      BY <1>1, <1>2, <2>2
    <3>2. i \in 1..n
      BY <1>4, <1>5, <3>1
    <3>3. events[i].type = "PeerLeft" /\ events[i].peer = q
      BY <1>4, <1>5, <3>2
    <3>4. PICK j \in DOMAIN events : i < j /\ events[j].type = "PeerJoined" /\ events[j].peer = q
      BY <1>4, <3>1, <3>2, <3>3 DEF IInv, Rejoins
    <3> QED
      BY <1>4, <3>4
  <2> QED
    BY <2>1, <2>2
<1>6. ASSUME NEW q \in mesh'
      PROVE  \/ q \in Registered(registry')
             \/ \E j \in DOMAIN events' : events'[j].type = "PeerJoined" /\ events'[j].peer = q
  <2>1. CASE ev.type = "PeerJoined" /\ q = ev.peer
    BY <1>4, <2>1
  <2>2. CASE ~(ev.type = "PeerJoined" /\ q = ev.peer)
    <3>1. q \in mesh
      BY <1>1, <2>2
    <3> QED
      BY <1>1, <1>4, <3>1 DEF IInv, Listed
  <2> QED
    BY <2>1, <2>2
<1>7. Rejoins'
  BY <1>5 DEF Rejoins
<1>8. Listed'
  BY <1>6 DEF Listed, Registered
<1> QED
  BY <1>1, <1>3, <1>7, <1>8 DEF IInv, RegInv, Match, Unique, Holds, FallbackDropped, Registered, KeyIn

LEMMA ReconnectStep ==
  ASSUME IInv, Reconnect
  PROVE  IInv'
<1>1. /\ registry' = SeedNames(registry, room) /\ mesh' = mesh \cup room /\ engine' = engine
      /\ events = <<>> /\ events' = events /\ room \subseteq Peer
  BY DEF Reconnect, IInv, Plain
<1>2. /\ RegInv(registry') /\ Registered(registry') = Registered(registry) \cup room
      /\ \A p \in Registered(registry) : registry'.peers[p] = registry.peers[p]
      /\ \A p \in room \ Registered(registry) : ~registry'.peers[p].known
  BY <1>1, NewPeers DEF IInv
<1>3. Plain'
  <2>1. theirs' \in [Peer -> View]
    BY ViewTypes DEF Reconnect, IInv, Plain
  <2>2. sync' \in Seq(Message)
    <3>1. PICK order \in SetToSeqs({p \in Peer : Up(p)}) : sync' = [i \in DOMAIN order |-> Hello(order[i])]
      BY DEF Reconnect
    <3>2. {p \in Peer : Up(p)} \in SUBSET Peer
      OBVIOUS
    <3> QED
      BY <3>1, <3>2, GreetingTypes
  <2> QED
    BY <1>1, <2>1, <2>2 DEF Reconnect, IInv, Plain, boundVars
<1>4. FallbackDropped(registry', engine')
  BY <1>1, <1>2 DEF IInv, FallbackDropped
<1>5. Rejoins' /\ Listed'
  <2>1. mesh \subseteq Registered(registry)
    BY <1>1 DEF IInv, Listed
  <2> QED
    BY <1>1, <1>2, <2>1 DEF Rejoins, Listed
<1> QED
  BY <1>1, <1>2, <1>3, <1>4, <1>5 DEF IInv

LEMMA EventStep ==
  ASSUME IInv, HandleEvent
  PROVE  IInv'
<1> DEFINE ev == Head(events)
           n == Len(events)
<1>1. /\ ev \in Event /\ events \in Seq(Event) /\ events' = Tail(events) /\ events' \in Seq(Event)
      /\ n \in Nat /\ n > 0 /\ DOMAIN events = 1..n /\ DOMAIN events' = 1..(n - 1)
      /\ ev = events[1] /\ \A i \in 1..(n - 1) : events'[i] = events[i + 1]
      /\ \/ ev.type = "PeerJoined" /\ PeerJoined(ev.peer)
         \/ ev.type = "PeerLeft" /\ PeerLeft(ev.peer)
      /\ UNCHANGED <<run, room, theirs, link, inRoom, incoming, sync, audio, mesh, losses, blips, says>>
  BY DEF HandleEvent, IInv, Plain, remoteVars, boundVars
<1>2. ev.peer \in Peer
  BY <1>1 DEF Event
<1> HIDE DEF ev, n
<1>3. Plain'
  BY <1>1, <1>2 DEF IInv, Plain, PeerJoined, PeerLeft, HelloSentTo, Up
<1>4. CASE ev.type = "PeerJoined" /\ PeerJoined(ev.peer)
  <2>1. /\ RegInv(registry') /\ Registered(registry') = Registered(registry) \cup {ev.peer}
        /\ \A q \in Registered(registry) : registry'.peers[q].known = registry.peers[q].known
        /\ ev.peer \notin Registered(registry) => ~registry'.peers[ev.peer].known
        /\ engine' = engine
    BY <1>2, <1>4, AddInv DEF IInv, PeerJoined
  <2>2. FallbackDropped(registry', engine')
    BY <2>1 DEF IInv, FallbackDropped
  <2>3. ASSUME NEW q \in mesh, NEW i \in 1..(n - 1), events'[i].type = "PeerLeft", events'[i].peer = q
        PROVE  \E j \in 1..(n - 1) : i < j /\ events'[j].type = "PeerJoined" /\ events'[j].peer = q
    <3>1. i + 1 \in 1..n /\ events[i + 1].type = "PeerLeft" /\ events[i + 1].peer = q
      BY <1>1, <2>3
    <3>2. PICK j \in 1..n : i + 1 < j /\ events[j].type = "PeerJoined" /\ events[j].peer = q
      BY <1>1, <3>1 DEF IInv, Rejoins
    <3>3. j - 1 \in 1..(n - 1) /\ i < j - 1 /\ events'[j - 1] = events[(j - 1) + 1] /\ (j - 1) + 1 = j
      BY <1>1, <3>1, <3>2
    <3> QED
      BY <3>2, <3>3
  <2>4. ASSUME NEW q \in mesh, q \notin Registered(registry')
        PROVE  \E j \in 1..(n - 1) : events'[j].type = "PeerJoined" /\ events'[j].peer = q
    <3>1. PICK j \in 1..n : events[j].type = "PeerJoined" /\ events[j].peer = q
      BY <1>1, <2>1, <2>4 DEF IInv, Listed
    <3>2. j # 1
      BY <1>1, <2>1, <2>4, <3>1
    <3>3. j - 1 \in 1..(n - 1) /\ events'[j - 1] = events[(j - 1) + 1] /\ (j - 1) + 1 = j
      BY <1>1, <3>1, <3>2
    <3> QED
      BY <3>1, <3>3
  <2>5. Rejoins'
    <3>1. mesh' = mesh /\ DOMAIN events' = 1..(n - 1)
      BY <1>1
    <3> QED
      BY <2>3, <3>1 DEF Rejoins
  <2>6. Listed'
    BY <1>1, <2>4 DEF Listed
  <2> QED
    BY <1>1, <1>3, <2>1, <2>2, <2>5, <2>6 DEF IInv
<1>5. CASE ev.type = "PeerLeft" /\ PeerLeft(ev.peer)
  <2> DEFINE K == {KeyIn(registry, ev.peer), ev.peer}
  <2>1. /\ registry' = RemovePeers(registry, {ev.peer}) /\ engine' = DropPeers(engine, K)
    BY <1>5 DEF PeerLeft
  <2>2. /\ RegInv(registry') /\ Registered(registry') = Registered(registry) \ {ev.peer}
        /\ \A q \in Registered(registry) \ {ev.peer} : registry'.peers[q] = registry.peers[q]
    BY <1>2, <2>1, RemoveInv DEF IInv
  <2>3. /\ engine' \in Engine /\ engine'.published = engine.published
        /\ \A k \in Key : engine'.intent[k] = IF k \in K THEN Gone ELSE engine.intent[k]
    BY <2>1, DropSteps DEF IInv
  <2> HIDE DEF K
  <2>4. FallbackDropped(registry', engine')
    BY <2>2, <2>3 DEF IInv, FallbackDropped, Registered, Key
  <2>5. ASSUME NEW q \in mesh, NEW i \in 1..(n - 1), events'[i].type = "PeerLeft", events'[i].peer = q
        PROVE  \E j \in 1..(n - 1) : i < j /\ events'[j].type = "PeerJoined" /\ events'[j].peer = q
    <3>1. i + 1 \in 1..n /\ events[i + 1].type = "PeerLeft" /\ events[i + 1].peer = q
      BY <1>1, <2>5
    <3>2. PICK j \in 1..n : i + 1 < j /\ events[j].type = "PeerJoined" /\ events[j].peer = q
      BY <1>1, <3>1 DEF IInv, Rejoins
    <3>3. j - 1 \in 1..(n - 1) /\ i < j - 1 /\ events'[j - 1] = events[(j - 1) + 1] /\ (j - 1) + 1 = j
      BY <1>1, <3>1, <3>2
    <3> QED
      BY <3>2, <3>3
  <2>6. ASSUME NEW q \in mesh, q \notin Registered(registry')
        PROVE  \E j \in 1..(n - 1) : events'[j].type = "PeerJoined" /\ events'[j].peer = q
    <3>1. PICK j \in 1..n : j > 1 /\ events[j].type = "PeerJoined" /\ events[j].peer = q
      <4>1. CASE q = ev.peer
        BY <1>1, <1>5, <4>1 DEF IInv, Rejoins
      <4>2. CASE q # ev.peer
        <5>1. PICK j \in 1..n : events[j].type = "PeerJoined" /\ events[j].peer = q
          BY <1>1, <2>2, <2>6, <4>2 DEF IInv, Listed
        <5> QED
          BY <1>1, <4>2, <5>1
      <4> QED
        BY <4>1, <4>2
    <3>2. j - 1 \in 1..(n - 1) /\ (j - 1) + 1 = j
      BY <1>1, <3>1
    <3> QED
      BY <1>1, <3>1, <3>2
  <2>7. Rejoins'
    <3>1. mesh' = mesh /\ DOMAIN events' = 1..(n - 1)
      BY <1>1
    <3> QED
      BY <2>5, <3>1 DEF Rejoins
  <2>8. Listed'
    BY <1>1, <2>6 DEF Listed
  <2> QED
    BY <1>1, <1>3, <2>2, <2>3, <2>4, <2>7, <2>8 DEF IInv
<1> QED
  BY <1>1, <1>4, <1>5

LEMMA SyncStep ==
  ASSUME IInv, HandleSync
  PROVE  IInv'
<1> DEFINE m == Head(sync)
<1>1. /\ m \in Message /\ sync' \in Seq(Message)
      /\ \/ m.type = "Hello" /\ HandleHello(m.from)
         \/ m.type = "StreamNames" /\ HandleStreamNames(m.from, m.keep)
      /\ UNCHANGED <<run, room, theirs, link, inRoom, incoming, events, audio, losses, blips, says>>
  BY DEF HandleSync, IInv, Plain, remoteVars, boundVars
<1>2. m.from \in Peer /\ (m.type # "Hello" => m.keep \in SUBSET Stream)
  BY <1>1, MessageTypes
<1> HIDE DEF m
<1>3. CASE m.type = "Hello" /\ HandleHello(m.from)
  <2> DEFINE p == m.from
             r == Greeted(registry, p)
  <2>1. /\ registry' = WithPeer(AssignSlot(r, p, 0), p, Tell)
        /\ helloTo' = IF r.peers[p].told THEN helloTo ELSE HelloSentTo({p})
        /\ mesh' = mesh \ OthersOf(registry, p)
        /\ engine' = DropPeers(engine, {p})
    BY <1>3 DEF HandleHello, Greeted, DropFallback
  <2>2. /\ RegInv(registry')
        /\ Registered(registry') = (Registered(registry) \cup {p}) \ OthersOf(registry, p)
        /\ \A q \in Registered(registry') \ {p} :
             q \in Registered(registry) /\ registry'.peers[q].known = registry.peers[q].known
    BY <1>2, <2>1, HelloInv DEF IInv
  <2>3. /\ engine' \in Engine /\ engine'.published = engine.published
        /\ \A k \in Key : engine'.intent[k] = IF k \in {p} THEN Gone ELSE engine.intent[k]
    BY <2>1, DropSteps DEF IInv
  <2> HIDE DEF r
  <2>4. Plain'
    BY <1>1, <1>2, <2>1 DEF IInv, Plain, HelloSentTo
  <2>5. FallbackDropped(registry', engine')
    BY <2>2, <2>3 DEF IInv, FallbackDropped, Registered, Key
  <2>6. Rejoins'
    BY <1>1, <2>1 DEF IInv, Rejoins
  <2>7. Listed'
    BY <1>1, <2>1, <2>2 DEF IInv, Listed
  <2> QED
    BY <2>2, <2>3, <2>4, <2>5, <2>6, <2>7 DEF IInv
<1>4. CASE m.type = "StreamNames" /\ HandleStreamNames(m.from, m.keep)
  <2>1. /\ engine' = SetPeerStreams(engine, KeyIn(registry, m.from), m.keep)
        /\ registry' = WithPeer(registry, m.from, Hear)
        /\ UNCHANGED <<mesh, helloTo>> /\ m.keep \in SUBSET Stream
    BY <1>2, <1>4 DEF HandleStreamNames
  <2>2. RegInv(registry') /\ Same(registry, registry')
    BY <1>2, <2>1, WithPeerInv DEF IInv
  <2>3. engine' \in Engine /\ FallbackDropped(registry, engine')
    BY <1>2, <2>1, StreamSteps, PeersAssumption DEF IInv
  <2>4. FallbackDropped(registry', engine')
    BY <2>2, <2>3 DEF FallbackDropped, Same
  <2>5. Plain'
    BY <1>1, <2>1 DEF IInv, Plain
  <2>6. Rejoins' /\ Listed'
    BY <1>1, <2>1, <2>2, ListedSame DEF IInv, Same
  <2> QED
    BY <2>2, <2>3, <2>4, <2>5, <2>6 DEF IInv
<1> QED
  BY <1>1, <1>3, <1>4

LEMMA AudioStep ==
  ASSUME IInv, HandleAudio
  PROVE  IInv'
<1>1. PICK c \in audio :
        /\ audio' = audio \ {c}
        /\ registry' = AssignSlot(WithPeer(registry, c[1], Hear), c[1], c[2])
        /\ engine' = HandleRemoteAudio(engine, KeyIn(registry, c[1]), c[2])
  BY DEF HandleAudio
<1>2. /\ c[1] \in Peer /\ c[2] \in Stream
      /\ UNCHANGED <<run, room, theirs, link, inRoom, incoming, events, sync, helloTo, mesh,
                     losses, blips, says>>
  BY DEF HandleAudio, IInv, Plain, remoteVars, boundVars
<1> DEFINE r == WithPeer(registry, c[1], Hear)
<1>3. RegInv(r) /\ Same(registry, r)
  BY <1>2, WithPeerInv DEF IInv
<1> HIDE DEF r
<1>4. /\ RegInv(registry') /\ Registered(registry') = Registered(registry)
      /\ \A q \in Registered(registry) : registry'.peers[q].known = registry.peers[q].known
  BY <1>1, <1>2, <1>3, AssignInv DEF r, Same
<1>5. engine' \in Engine /\ FallbackDropped(registry, engine')
  BY <1>1, <1>2, StreamSteps DEF IInv
<1>6. FallbackDropped(registry', engine')
  BY <1>4, <1>5 DEF FallbackDropped
<1>7. Plain'
  BY <1>1, <1>2 DEF IInv, Plain
<1>8. Rejoins' /\ Listed'
  BY <1>2, <1>4, ListedSame DEF IInv
<1> QED
  BY <1>4, <1>5, <1>6, <1>7, <1>8 DEF IInv

LEMMA TickStep ==
  ASSUME IInv, LivenessTick
  PROVE  IInv'
<1> DEFINE r == Pinged(registry)
           gone == TimedOutPeers(r) \cup HardPeers(r)
           soft == SoftPeers(r) \ gone
           K == gone \cup {KeyIn(r, p) : p \in gone}
           left == RemovePeers(r, gone)
<1>1. /\ engine' = DropPeers(engine, K) /\ mesh' = mesh \ gone
      /\ helloTo' = HelloSentTo(soft) /\ registry' = Ticked(left, soft)
      /\ events = <<>>
      /\ UNCHANGED <<run, room, theirs, link, inRoom, incoming, events, sync, audio,
                     losses, blips, says>>
  BY DEF LivenessTick, Ticked, Quiet, Unlist, remoteVars, boundVars
<1>2. RegInv(r) /\ Same(registry, r)
  BY PingedInv DEF IInv
<1> HIDE DEF r
<1>3. gone \in SUBSET Peer /\ soft \in SUBSET Peer
  BY DEF TimedOutPeers, HardPeers, SoftPeers, NoIdentity, Registered
<1> HIDE DEF gone, soft
<1>4. /\ RegInv(left) /\ Registered(left) = Registered(r) \ gone
      /\ \A q \in Registered(r) \ gone : left.peers[q] = r.peers[q]
  BY <1>2, <1>3, RemoveInv
<1> HIDE DEF left
<1>5. RegInv(registry') /\ Same(left, registry')
  BY <1>1, <1>4, TickedInv
<1>6. /\ Registered(registry') = Registered(registry) \ gone
      /\ \A q \in Registered(registry') : registry'.peers[q].known = registry.peers[q].known
  BY <1>2, <1>4, <1>5 DEF Same
<1>7. /\ engine' \in Engine /\ engine'.published = engine.published
      /\ \A k \in Key : engine'.intent[k] = IF k \in K THEN Gone ELSE engine.intent[k]
  BY <1>1, DropSteps DEF IInv
<1> HIDE DEF K
<1>8. FallbackDropped(registry', engine')
  BY <1>6, <1>7 DEF IInv, FallbackDropped, Registered, Key
<1>9. Plain'
  BY <1>1, <1>3 DEF IInv, Plain, HelloSentTo
<1>10. Rejoins' /\ Listed'
  BY <1>1, <1>6 DEF IInv, Rejoins, Listed
<1> QED
  BY <1>5, <1>7, <1>8, <1>9, <1>10 DEF IInv

LEMMA NextInv == IInv /\ [Next]_vars => IInv'
<1> SUFFICES ASSUME IInv, [Next]_vars PROVE IInv'
  OBVIOUS
<1>1. CASE Others
  <2>1. Plain' /\ UNCHANGED <<events, mesh, registry, engine>>
    BY <1>1, PlainOthers DEF IInv
  <2>2. Rejoins' /\ Listed'
    BY <2>1, ListedSame DEF IInv
  <2> QED
    BY <2>1, <2>2 DEF IInv
<1>2. CASE Lose \/ NoticeUs \/ Boundary
  <2>1. Plain' /\ UNCHANGED <<events, mesh, registry>>
    BY <1>2, PlainOurs DEF IInv
  <2>2. Rejoins' /\ Listed'
    BY <2>1, ListedSame DEF IInv
  <2>3. engine' \in Engine /\ FallbackDropped(registry, engine')
    <3>1. CASE Lose \/ NoticeUs
      BY <3>1 DEF Lose, NoticeUs, IInv
    <3>2. CASE Boundary
      BY <3>2, SweepSteps DEF Boundary, IInv
    <3> QED
      BY <1>2, <3>1, <3>2
  <2> QED
    BY <2>1, <2>2, <2>3 DEF IInv
<1>3. CASE UNCHANGED vars
  <2>1. UNCHANGED <<run, room, theirs, link, inRoom, incoming, events, sync, audio, helloTo,
                    mesh, registry, engine, losses, blips, says>>
    BY <1>3 DEF vars, remoteVars, queueVars, boundVars
  <2>2. Rejoins' /\ Listed'
    BY <2>1, ListedSame DEF IInv
  <2> QED
    BY <2>1, <2>2 DEF IInv, Plain
<1> QED
  BY <1>1, <1>2, <1>3, ReconnectStep, PollStep, EventStep, SyncStep, AudioStep, TickStep DEF Next

LEMMA Inductive == Spec => []IInv
<1>1. Init => IInv
  BY InitInv
<1>2. IInv /\ [Next]_vars => IInv'
  BY NextInv
<1> QED
  BY <1>1, <1>2, PTL DEF Spec

-----------------------------------------------------------------------------
(* The theorems *)

\* Every variable of the session's view keeps its type (session.go, peers.go,
\* signaling.go, the channels of audio_engine_real.go).
THEOREM PeersTypes == Spec => []TypeOK
<1>1. IInv => TypeOK
  BY Types DEF IInv, RegInv
<1> QED
  BY <1>1, Inductive, PTL

\* Whatever order events, Hellos and audio are handled in, and whoever leaves,
\* restarts or falls silent: an occupied slot is held by one registered peer,
\* under the key its channels are published under, and a peer's slot is its own
\* (AssignSlot, RekeyPeerSlots and Remove of peers.go).
THEOREM SlotsMatchHolders == Spec => []SlotsMatch
<1>1. ASSUME IInv PROVE SlotsMatch
  <2> DEFINE claims == {c \in Peer \X Stream : c[1] \in Registered(registry)
                                               /\ registry.peers[c[1]].slot[c[2]] # 0}
             at(c) == registry.peers[c[1]].slot[c[2]]
  <2>1. \A c \in claims : /\ c = <<c[1], c[2]>> /\ c[1] \in Peer /\ c[2] \in Stream
                          /\ Holds(registry, c[1], c[2])
    BY DEF Holds
  <2>2. \A p \in Peer, s \in Stream : Holds(registry, p, s) => <<p, s>> \in claims
    BY DEF Holds
  <2>3. \A c, d \in claims : at(c) = at(d) => c = d
    BY <1>1, <2>1 DEF IInv, RegInv, Match
  <2>4. \A c \in claims : registry.slots[at(c)] = [occupied |-> TRUE, key |-> KeyIn(registry, c[1])]
    <3> SUFFICES ASSUME NEW c \in claims
                 PROVE  registry.slots[at(c)] = [occupied |-> TRUE, key |-> KeyIn(registry, c[1])]
      OBVIOUS
    <3>1. Holds(registry, c[1], c[2]) /\ c[1] \in Peer /\ c[2] \in Stream
      BY <2>1
    <3>2. /\ registry.slots[at(c)].occupied
          /\ registry.slots[at(c)].key = KeyIn(registry, c[1])
      BY <1>1, <3>1 DEF IInv, RegInv, Match
    <3>3. at(c) \in Slot
      BY <1>1, <3>1, EntryOf DEF IInv, RegInv, Holds, Slot, Entry
    <3>4. registry.slots[at(c)] \in [occupied : BOOLEAN, key : Key \cup {Nothing}]
      BY <1>1, <3>3 DEF IInv, RegInv, Registry
    <3> QED
      BY <3>2, <3>4
  <2>5. \A i \in Slot : registry.slots[i].occupied => \E c \in claims : at(c) = i
    <3> SUFFICES ASSUME NEW i \in Slot, registry.slots[i].occupied
                 PROVE  \E c \in claims : at(c) = i
      OBVIOUS
    <3>1. PICK p \in Peer, s \in Stream : Holds(registry, p, s) /\ registry.peers[p].slot[s] = i
      BY <1>1 DEF IInv, RegInv, Match
    <3>2. <<p, s>> \in claims /\ at(<<p, s>>) = i
      BY <2>2, <3>1
    <3> QED
      BY <3>2
  <2> QED
    BY <2>3, <2>4, <2>5 DEF SlotsMatch
<1> QED
  BY <1>1, Inductive, PTL

\* A musician whose application restarts under a new peer id is never listed
\* twice: the Hello that names the identity evicts the older session
\* (FindByIdentity in the Hello case of session.go).
THEOREM OneSessionPerMusician == Spec => []OnePeerPerIdentity
<1>1. IInv => OnePeerPerIdentity
  BY DEF IInv, RegInv, Unique, OnePeerPerIdentity
<1> QED
  BY <1>1, Inductive, PTL

\* The mesh, updated when an event is polled, and the registry, updated when the
\* session handles it or a watchdog removes a peer, agree again once the polled
\* events are handled (PollSignaling of peers.go, session.go).
THEOREM MeshFollowsRegistry == Spec => []ShownPeersAreKnown
<1>1. ASSUME IInv PROVE ShownPeersAreKnown
  BY <1>1 DEF IInv, Listed, ShownPeersAreKnown
<1> QED
  BY <1>1, Inductive, PTL

\* A channel that early frames published under the peer id is declared gone from
\* the moment its musician is known by identity (the DropPeer of the Hello case).
THEOREM FallbackIsRetired == Spec => []NoDuplicateChannel
<1>1. IInv => NoDuplicateChannel
  BY DEF IInv, FallbackDropped, NoDuplicateChannel
<1> QED
  BY <1>1, Inductive, PTL
=============================================================================
