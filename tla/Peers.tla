-------------------------------- MODULE Peers --------------------------------
(***************************************************************************)
(* Who is in the room, as one WAIL session sees it (wail-app/session.go,   *)
(* peers.go, signaling.go): the events and messages its WebSocket brings,  *)
(* the peer registry with its Hello handshake and its slots, the mesh's    *)
(* list of connected peers, the watchdogs, the loss of the connection and  *)
(* the reconnection, and the Link Audio channels the engine publishes for  *)
(* every remote stream.                                                    *)
(*                                                                         *)
(* One session, "we", is modelled in full.  The other musicians run the    *)
(* same program; of their state only what decides what they send us is     *)
(* kept: whether they have us in their registry, told us who they are, and *)
(* know who we are.                                                        *)
(*                                                                         *)
(* Signalling events, sync messages and audio travel on channels of their  *)
(* own, and the session's select takes from any that is ready: an event, a *)
(* Hello and a frame of one peer are handled in any order.                 *)
(***************************************************************************)
EXTENDS Integers, Sequences, SequencesExt, FiniteSets

CONSTANTS
  Peer,      \* peer ids of the other musicians' sessions
  Identity,  \* persistent identities
  IdOf,      \* the identity behind a peer id; a restart makes a new peer id
  Stream,    \* stream indices, 0 among them
  NSlots,    \* maxSlots
  Soft,      \* ticks of the liveness ticker before a Hello is sent again
  Hard,      \* ticks before a peer without identity is removed
  Silent,    \* ticks before a silent peer is removed
  Nothing,   \* nil: no entry, no key, no intent
  MaxLosses, \* bound on the connections lost, ours and theirs
  MaxBlips,  \* bound on theirs
  MaxSays,   \* bound on their changes of streams
  Players    \* the peers that send audio, and name their streams

ASSUME PeersAssumption ==
  /\ IsFiniteSet(Peer) /\ Peer \cap Identity = {}
  /\ Nothing \notin Peer \cup Identity
  /\ IdOf \in [Peer -> Identity]
  /\ Stream \subseteq Nat /\ 0 \in Stream
  /\ NSlots \in Nat
  /\ {Soft, Hard, Silent, MaxLosses, MaxBlips, MaxSays} \subseteq Nat
  /\ Soft < Hard
  /\ Players \subseteq Peer

VARIABLES
  run,      \* run[p]: "new", "up", "down" (connection lost) or "dead"
  room,     \* the peers the relay has registered
  theirs,   \* theirs[p]: what p's registry says of us
  link,     \* is our WebSocket up?
  inRoom,   \* are we registered at the relay?
  incoming, \* our control plane: relay, wire and SignalingChannels.IncomingCh
  events,   \* sigEventCh: polled, the mesh is updated, the session not yet
  sync,     \* sync messages to us: relay, wire and SyncCh
  audio,    \* <<p, s>> for which a frame is in AudioCh
  helloTo,  \* peers to whom a Hello of ours is under way
  mesh,     \* PeerMesh.peers
  registry, \* PeerRegistry: [peers, slots]
  engine,   \* linkAudioEngine: [published, intent]
  losses, blips, says

remoteVars == <<run, room, theirs>>
queueVars  == <<incoming, events, sync, audio, helloTo>>
boundVars  == <<losses, blips, says>>
vars == <<remoteVars, link, inRoom, queueVars, mesh, registry, engine, boundVars>>

Key == Peer \cup Identity
Slot == 1..NSlots

Entry == [known : BOOLEAN,      \* Identity != nil
          told  : BOOLEAN,      \* HelloSent
          heard : BOOLEAN,      \* EverReceivedMessage
          retry : BOOLEAN,      \* HelloRetrySent
          age   : 0..Hard,      \* ticks since AddedAt
          quiet : 0..Silent,    \* ticks since LastSeen
          slot  : [Stream -> 0..NSlots]]
Registry == [peers : [Peer -> Entry \cup {Nothing}],
             slots : [Slot -> [occupied : BOOLEAN, key : Key \cup {Nothing}]]]
View  == [has : BOOLEAN, told : BOOLEAN, knows : BOOLEAN, retry : BOOLEAN]
Event == [type : {"PeerJoined", "PeerLeft"}, peer : Peer]
Message == [type : {"Hello"}, from : Peer]
             \cup [type : {"StreamNames"}, from : Peer, keep : SUBSET Stream]

Gone == [gone |-> TRUE, keep |-> {}]
Keeps(S) == [gone |-> FALSE, keep |-> S]
Intent == {Gone} \cup {Keeps(S) : S \in SUBSET Stream}

\* nil is no entry.
ASSUME EntryAssumption == Nothing \notin Entry

TypeOK ==
  /\ run \in [Peer -> {"new", "up", "down", "dead"}]
  /\ room \subseteq Peer
  /\ theirs \in [Peer -> View]
  /\ link \in BOOLEAN /\ inRoom \in BOOLEAN
  /\ incoming \in Seq(Event) /\ events \in Seq(Event)
  /\ sync \in Seq(Message)
  /\ audio \subseteq Peer \X Stream
  /\ helloTo \subseteq Peer
  /\ mesh \subseteq Peer
  /\ registry \in Registry
  /\ engine \in [published : SUBSET (Key \X Stream), intent : [Key -> Intent \cup {Nothing}]]
  /\ losses \in 0..MaxLosses /\ blips \in 0..MaxBlips /\ says \in 0..MaxSays

-----------------------------------------------------------------------------
(* PeerRegistry.  Every method holds r.mu; the operators below are the     *)
(* methods, on the value of the registry.                                  *)

NewPeerState == [known |-> FALSE, told |-> FALSE, heard |-> FALSE, retry |-> FALSE,
                 age |-> 0, quiet |-> 0, slot |-> [s \in Stream |-> 0]]

Registered(r) == {p \in Peer : r.peers[p] # Nothing}

\* WithPeer for an unknown peer does nothing.
WithPeer(r, p, f(_)) ==
  IF p \in Registered(r) THEN [r EXCEPT !.peers[p] = f(@)] ELSE r

\* The client id of p's slots, and the key of the channels published for it.
KeyIn(r, p) == IF p \in Registered(r) /\ r.peers[p].known THEN IdOf[p] ELSE p

Add(r, p) ==
  IF p \in Registered(r) THEN [r EXCEPT !.peers[p].quiet = 0]
                         ELSE [r EXCEPT !.peers[p] = NewPeerState]

\* Remove, for every peer of S: a slot of a peer that goes is free, and keeps its
\* key as the affinity.
RemovePeers(r, S) ==
  LET keys == {KeyIn(r, p) : p \in S \cap Registered(r)}
  IN  [peers |-> [p \in Peer |-> IF p \in S THEN Nothing ELSE r.peers[p]],
       slots |-> [i \in Slot |-> IF r.slots[i].key \in keys
                                 THEN [r.slots[i] EXCEPT !.occupied = FALSE]
                                 ELSE r.slots[i]]]

\* The slot AssignSlot takes: one released under this key, else the first free.
FreeSlot(r, k) ==
  LET free == {i \in Slot : ~r.slots[i].occupied}
      own  == {i \in free : r.slots[i].key = k}
      S    == IF own # {} THEN own ELSE free
  IN  IF S = {} THEN 0 ELSE CHOOSE i \in S : \A j \in S : i <= j

AssignSlot(r, p, s) ==
  LET k == KeyIn(r, p)
      i == FreeSlot(r, k)
  IN  IF p \notin Registered(r) \/ r.peers[p].slot[s] # 0 \/ i = 0 THEN r
      ELSE [r EXCEPT !.slots[i] = [occupied |-> TRUE, key |-> k],
                     !.peers[p].slot[s] = i]

\* Mutant: the slots stay under the peer id.
IdentifyWithoutRekey(r, p) == [r EXCEPT !.peers[p].known = TRUE]

\* p's identity is set, and RekeyPeerSlots gives its slots to the identity.
Identify(r, p) ==
  [peers |-> [r.peers EXCEPT ![p].known = TRUE],
   slots |-> [i \in Slot |-> IF r.slots[i].key = p
                             THEN [r.slots[i] EXCEPT !.key = IdOf[p]]
                             ELSE r.slots[i]]]

\* FindByIdentity, without p itself.
OthersOf(r, p) ==
  {q \in Registered(r) \ {p} : r.peers[q].known /\ IdOf[q] = IdOf[p]}

Hear(e)  == [e EXCEPT !.heard = TRUE, !.quiet = 0]
Tell(e)  == [e EXCEPT !.told = TRUE]
Retry(e) == [e EXCEPT !.retry = TRUE]

\* Mutant: only peers without identity time out.
TimedOutStrangers(r) ==
  {p \in Registered(r) : r.peers[p].heard /\ ~r.peers[p].known /\ r.peers[p].quiet >= Silent}

TimedOutPeers(r) ==
  {p \in Registered(r) : r.peers[p].heard /\ r.peers[p].quiet >= Silent}

NoIdentity(r) == {p \in Registered(r) : r.peers[p].heard /\ ~r.peers[p].known}
HardPeers(r)  == {p \in NoIdentity(r) : r.peers[p].age >= Hard}
SoftPeers(r)  == {p \in NoIdentity(r) \ HardPeers(r) :
                    r.peers[p].age >= Soft /\ ~r.peers[p].retry}

-----------------------------------------------------------------------------
(* The engine's side: which channels are published, and what their owners  *)
(* said of them.                                                           *)

\* DropPeer, for every key of K.
DropPeers(e, K) ==
  [e EXCEPT !.intent = [k \in Key |-> IF k \in K THEN Gone ELSE e.intent[k]]]

SetPeerStreams(e, k, S) == [e EXCEPT !.intent[k] = Keeps(S)]

HandleRemoteAudio(e, k, s) == [e EXCEPT !.published = @ \cup {<<k, s>>}]

Retirable(e) ==
  {c \in e.published : LET in == e.intent[c[1]]
                       IN  in # Nothing /\ (in.gone \/ c[2] \notin in.keep)}

\* sweepRetiredLocked: the streams idle past their grace are closed; what was
\* said of an identity with nothing published left is forgotten.
Sweep(e, idle) ==
  LET left == e.published \ idle
  IN  [published |-> left,
       intent |-> [k \in Key |-> IF \E s \in Stream : <<k, s>> \in left
                                 THEN e.intent[k] ELSE Nothing]]

-----------------------------------------------------------------------------
(* Messages *)

Up(p) == run[p] = "up" /\ p \in room

\* What we send reaches the peers that the relay has; with our connection down
\* the write goroutine is gone and the message is lost.
HelloSentTo(S) == IF link THEN helloTo \cup {p \in S : Up(p)} ELSE helloTo

Hello(p) == [type |-> "Hello", from |-> p]

\* The relay forwards to us what a registered peer sends.
Receive(ms) == IF link THEN sync \o ms ELSE sync

Announce(type, p) ==
  incoming' = IF link THEN Append(incoming, [type |-> type, peer |-> p]) ELSE incoming

\* p's registry when the relay tells it that we joined: it adds us and
\* broadcasts its Hello, without marking it as sent.
AddsUs(v) == IF v.has THEN v
             ELSE [has |-> TRUE, told |-> FALSE, knows |-> FALSE, retry |-> FALSE]
Stranger  == [has |-> FALSE, told |-> FALSE, knows |-> FALSE, retry |-> FALSE]

-----------------------------------------------------------------------------
(* The other musicians *)

\* A session starts under a new peer id, when the application's former session
\* is over.  join_ok seeds its registry with us.
Start(p) ==
  /\ run[p] = "new"
  /\ \A q \in Peer : IdOf[q] = IdOf[p] => run[q] \in {"new", "dead"}
  /\ run' = [run EXCEPT ![p] = "up"]
  /\ room' = room \cup {p}
  /\ theirs' = [theirs EXCEPT ![p] = IF inRoom THEN AddsUs(@) ELSE @]
  /\ Announce("PeerJoined", p)
  /\ UNCHANGED <<link, inRoom, events, sync, audio, helloTo, mesh, registry,
                 engine, boundVars>>

\* The process ends, or its machine does.
Quit(p) ==
  /\ run[p] \in {"up", "down"}
  /\ run' = [run EXCEPT ![p] = "dead"]
  /\ helloTo' = helloTo \ {p}
  /\ UNCHANGED <<room, theirs, link, inRoom, incoming, events, sync, audio, mesh,
                 registry, engine, boundVars>>

Blip(p) ==
  /\ run[p] = "up" /\ blips < MaxBlips /\ losses + blips < MaxLosses
  /\ run' = [run EXCEPT ![p] = "down"]
  /\ helloTo' = helloTo \ {p}
  /\ blips' = blips + 1
  /\ UNCHANGED <<room, theirs, link, inRoom, incoming, events, sync, audio, mesh,
                 registry, engine, losses, says>>

\* hub.leave of a connection that ended.
Notice(p) ==
  /\ p \in room /\ run[p] \in {"down", "dead"}
  /\ room' = room \ {p}
  /\ Announce("PeerLeft", p)
  /\ UNCHANGED <<run, theirs, link, inRoom, events, sync, audio, helloTo, mesh,
                 registry, engine, boundVars>>

\* ReconnectSignaling of p.  The relay evicts the old connection if it had not
\* noticed its end: peer_joined without a peer_left.  SeedNames leaves what p's
\* registry says of us alone.
Rejoin(p) ==
  /\ run[p] = "down"
  /\ run' = [run EXCEPT ![p] = "up"]
  /\ room' = room \cup {p}
  /\ theirs' = [theirs EXCEPT ![p] = IF inRoom THEN AddsUs(@) ELSE @]
  /\ Announce("PeerJoined", p)
  /\ UNCHANGED <<link, inRoom, events, sync, audio, helloTo, mesh, registry,
                 engine, boundVars>>

\* Mutant: a Hello is not answered.
HearHelloSilently(p) ==
  /\ p \in helloTo
  /\ helloTo' = helloTo \ {p}
  /\ theirs' = [theirs EXCEPT ![p] = [AddsUs(@) EXCEPT !.told = TRUE, !.knows = TRUE]]
  /\ UNCHANGED <<run, room, link, inRoom, incoming, events, sync, audio, mesh, registry,
                 engine, boundVars>>

\* p handles our Hello, and answers with its own the first time.
HearHello(p) ==
  /\ p \in helloTo
  /\ helloTo' = helloTo \ {p}
  /\ theirs' = [theirs EXCEPT ![p] = [AddsUs(@) EXCEPT !.told = TRUE, !.knows = TRUE]]
  /\ sync' = IF theirs[p].told THEN sync ELSE Receive(<<Hello(p)>>)
  /\ UNCHANGED <<run, room, link, inRoom, incoming, events, audio, mesh, registry,
                 engine, boundVars>>

\* The streams p sends change: it broadcasts their names.
Say(p, S) ==
  /\ Up(p) /\ p \in Players /\ says < MaxSays
  /\ sync' = Receive(<<[type |-> "StreamNames", from |-> p, keep |-> S]>>)
  /\ says' = says + 1
  /\ UNCHANGED <<run, room, theirs, link, inRoom, incoming, events, audio, helloTo, mesh,
                 registry, engine, losses, blips>>

Play(p, s) ==
  /\ Up(p) /\ link /\ p \in Players
  /\ audio' = audio \cup {<<p, s>>}
  /\ UNCHANGED <<remoteVars, link, inRoom, incoming, events, sync, helloTo, mesh, registry,
                 engine, boundVars>>

-----------------------------------------------------------------------------
(* Our connection *)

\* The read goroutine ends and closes IncomingCh; what was still on the wire is
\* lost, what it had queued is not.
Lose ==
  /\ link /\ losses + blips < MaxLosses
  /\ link' = FALSE
  /\ losses' = losses + 1
  /\ helloTo' = {}
  /\ \E n \in 0..Len(incoming) : incoming' = SubSeq(incoming, 1, n)
  /\ \E n \in 0..Len(sync) : sync' = SubSeq(sync, 1, n)
  /\ UNCHANGED <<remoteVars, inRoom, events, audio, mesh, registry, engine, blips, says>>

\* The relay sees the end of our connection: the others remove us.
NoticeUs ==
  /\ inRoom /\ ~link
  /\ inRoom' = FALSE
  /\ theirs' = [p \in Peer |-> IF Up(p) THEN Stranger ELSE theirs[p]]
  /\ UNCHANGED <<run, room, link, queueVars, mesh, registry, engine, boundVars>>

\* SeedNames
SeedNames(r, S) ==
  [r EXCEPT !.peers = [p \in Peer |-> IF p \in S /\ r.peers[p] = Nothing
                                      THEN NewPeerState ELSE r.peers[p]]]

\* ReconnectSignaling and the rest of the reconnectTimer case.  The timer is
\* armed when sigClosedCh is read, and runs for a second at least: the events
\* polled before were handled.  The sync and audio channels are replaced.  The
\* others see peer_joined, add us and broadcast their Hello.
Reconnect ==
  /\ ~link
  /\ incoming = <<>> /\ events = <<>>
  /\ link' = TRUE /\ inRoom' = TRUE
  /\ mesh' = mesh \cup room
  /\ registry' = SeedNames(registry, room)
  /\ theirs' = [p \in Peer |-> IF Up(p) THEN AddsUs(theirs[p]) ELSE theirs[p]]
  /\ \E order \in SetToSeqs({p \in Peer : Up(p)}) :
       sync' = [i \in DOMAIN order |-> Hello(order[i])]
  /\ audio' = {}
  /\ UNCHANGED <<run, room, incoming, events, helloTo, engine, boundVars>>

-----------------------------------------------------------------------------
(* Our session *)

\* PollSignaling: the mesh changes here, the registry when the session's select
\* takes the event.
Poll ==
  /\ incoming # <<>>
  /\ LET ev == Head(incoming)
     IN  mesh' = IF ev.type = "PeerJoined" THEN mesh \cup {ev.peer} ELSE mesh \ {ev.peer}
  /\ incoming' = Tail(incoming)
  /\ events' = Append(events, Head(incoming))
  /\ UNCHANGED <<remoteVars, link, inRoom, sync, audio, helloTo, registry, engine, boundVars>>

\* case "PeerJoined": our Hello goes to everybody.
PeerJoined(p) ==
  /\ registry' = Add(registry, p)
  /\ helloTo' = HelloSentTo(Peer)
  /\ UNCHANGED engine

\* case "PeerLeft": their channels stay until the grace is over; frames still
\* queued would be published under the peer id.
PeerLeft(p) ==
  /\ engine' = DropPeers(engine, {KeyIn(registry, p), p})
  /\ registry' = RemovePeers(registry, {p})
  /\ UNCHANGED helloTo

HandleEvent ==
  /\ events # <<>>
  /\ events' = Tail(events)
  /\ LET ev == Head(events)
     IN  \/ ev.type = "PeerJoined" /\ PeerJoined(ev.peer)
         \/ ev.type = "PeerLeft" /\ PeerLeft(ev.peer)
  /\ UNCHANGED <<remoteVars, link, inRoom, incoming, sync, audio, mesh, boundVars>>

\* Mutant: an older session of the same musician stays.
EvictNobody(r, p) == r

\* An older session of the same musician is evicted.
Evict(r, p) == RemovePeers(r, OthersOf(r, p))

\* Mutant: what came before the Hello stays wanted.
KeepFallback(e, p) == e

\* Audio that beat the Hello was published under the peer id.
DropFallback(e, p) == DropPeers(e, {p})

\* case "Hello"
HandleHello(p) ==
  \E r \in {Identify(Evict(IF p \in Registered(registry)
                           THEN WithPeer(registry, p, Hear) ELSE Add(registry, p), p), p)} :
    /\ registry' = WithPeer(AssignSlot(r, p, 0), p, Tell)
    /\ helloTo' = IF r.peers[p].told THEN helloTo ELSE HelloSentTo({p})
    /\ mesh' = mesh \ OthersOf(registry, p)
    /\ engine' = DropFallback(engine, p)

\* case "StreamNames": the declared set is what is wanted of the sender.
HandleStreamNames(p, S) ==
  /\ engine' = SetPeerStreams(engine, KeyIn(registry, p), S)
  /\ registry' = WithPeer(registry, p, Hear)
  /\ UNCHANGED <<mesh, helloTo>>

HandleSync ==
  /\ sync # <<>>
  /\ sync' = Tail(sync)
  /\ LET m == Head(sync)
     IN  \/ m.type = "Hello" /\ HandleHello(m.from)
         \/ m.type = "StreamNames" /\ HandleStreamNames(m.from, m.keep)
  /\ UNCHANGED <<remoteVars, link, inRoom, incoming, events, audio, boundVars>>

\* case <-currentAudioRx
HandleAudio ==
  /\ \E c \in audio :
       /\ audio' = audio \ {c}
       /\ registry' = AssignSlot(WithPeer(registry, c[1], Hear), c[1], c[2])
       /\ engine' = HandleRemoteAudio(engine, KeyIn(registry, c[1]), c[2])
  /\ UNCHANGED <<remoteVars, link, inRoom, incoming, events, sync, helloTo, mesh, boundVars>>

\* Five seconds are long: what was under way has arrived.
Quiet == incoming = <<>> /\ events = <<>> /\ sync = <<>> /\ helloTo = {}

\* In those five seconds every connected peer sent two pings.
Pinged(r) ==
  [r EXCEPT !.peers = [p \in Peer |->
     IF p \in Registered(r) /\ link /\ Up(p) THEN Hear(r.peers[p]) ELSE r.peers[p]]]

Aged(e) == [e EXCEPT !.age = IF @ < Hard THEN @ + 1 ELSE @,
                     !.quiet = IF @ < Silent THEN @ + 1 ELSE @]

\* Mutant: the mesh is not told.
UnlistNobody(S) == mesh

\* mesh.RemovePeer, for every peer of S.
Unlist(S) == mesh \ S

\* case <-livenessTicker.C: the silent peers go, then those without identity; a
\* peer without identity that is new gets our Hello once more.
LivenessTick ==
  /\ Quiet
  /\ \E r \in {Pinged(registry)} :
     \E gone \in {TimedOutPeers(r) \cup HardPeers(r)} :
     \E soft \in {SoftPeers(r) \ gone} :
       /\ engine' = DropPeers(engine, gone \cup {KeyIn(r, p) : p \in gone})
       /\ mesh' = Unlist(gone)
       /\ helloTo' = HelloSentTo(soft)
       /\ \E left \in {RemovePeers(r, gone)} :
            registry' = [left EXCEPT !.peers = [p \in Peer |->
                           IF p \notin Registered(left) THEN Nothing
                           ELSE Aged(IF p \in soft THEN Retry(@[p]) ELSE @[p])]]
  /\ UNCHANGED <<remoteVars, link, inRoom, incoming, events, sync, audio, boundVars>>

\* The same ticker in p's session: silent to p when our connection or p's is
\* down, and watched for a Hello otherwise.
TheirTick(p) ==
  /\ Quiet /\ run[p] \in {"up", "down"} /\ theirs[p].has
  /\ LET v == theirs[p]
         talking == Up(p) /\ link
     IN  \/ /\ ~talking
            /\ theirs' = [theirs EXCEPT ![p] = Stranger]
            /\ UNCHANGED sync
         \/ /\ talking /\ ~v.knows /\ ~v.retry
            /\ theirs' = [theirs EXCEPT ![p].retry = TRUE]
            /\ sync' = Receive(<<Hello(p)>>)
         \/ /\ talking /\ ~v.knows /\ v.retry
            /\ theirs' = [theirs EXCEPT ![p] = Stranger]
            /\ UNCHANGED sync
  /\ UNCHANGED <<run, room, link, inRoom, incoming, events, audio, helloTo, mesh,
                 registry, engine, boundVars>>

\* The engine's onBoundary: streams idle past their grace are retired.
Boundary ==
  /\ \E idle \in SUBSET Retirable(engine) : engine' = Sweep(engine, idle)
  /\ UNCHANGED <<remoteVars, link, inRoom, queueVars, mesh, registry, boundVars>>

-----------------------------------------------------------------------------

Init ==
  /\ run = [p \in Peer |-> "new"]
  /\ room = {}
  /\ theirs = [p \in Peer |-> Stranger]
  /\ link = TRUE /\ inRoom = TRUE
  /\ incoming = <<>> /\ events = <<>> /\ sync = <<>>
  /\ audio = {} /\ helloTo = {} /\ mesh = {}
  /\ registry = [peers |-> [p \in Peer |-> Nothing],
                 slots |-> [i \in Slot |-> [occupied |-> FALSE, key |-> Nothing]]]
  /\ engine = [published |-> {}, intent |-> [k \in Key |-> Nothing]]
  /\ losses = 0 /\ blips = 0 /\ says = 0

Others ==
  \E p \in Peer :
    \/ Start(p) \/ Quit(p) \/ Blip(p) \/ Notice(p) \/ Rejoin(p)
    \/ HearHello(p) \/ TheirTick(p)
    \/ \E S \in SUBSET Stream : Say(p, S)
    \/ \E s \in Stream : Play(p, s)

Next ==
  \/ Others
  \/ Lose \/ NoticeUs \/ Reconnect
  \/ Poll \/ HandleEvent \/ HandleSync \/ HandleAudio \/ LivenessTick \/ Boundary

\* Goroutines and tickers run on; the network delivers; sessions and the relay
\* notice what ended.  Nobody has to join, quit, play or lose a connection.
Fairness ==
  /\ WF_vars(Poll \/ HandleEvent) /\ WF_vars(HandleSync)
  /\ WF_vars(LivenessTick) /\ WF_vars(Reconnect)
  /\ WF_vars(\E p \in Peer : HearHello(p)) /\ WF_vars(\E p \in Peer : TheirTick(p))

Spec == Init /\ [][Next]_vars /\ Fairness

-----------------------------------------------------------------------------
(* Properties *)

\* A slot is occupied exactly as long as a registered peer holds it, under the
\* key its channels are published under, and no two claims share a slot.
SlotsMatch ==
  LET claims == {c \in Peer \X Stream : c[1] \in Registered(registry)
                                        /\ registry.peers[c[1]].slot[c[2]] # 0}
      at(c) == registry.peers[c[1]].slot[c[2]]
  IN  /\ \A c, d \in claims : at(c) = at(d) => c = d
      /\ \A c \in claims : registry.slots[at(c)] =
                             [occupied |-> TRUE, key |-> KeyIn(registry, c[1])]
      /\ \A i \in Slot : registry.slots[i].occupied => \E c \in claims : at(c) = i

\* A musician who restarts is listed once: of one identity at most one session
\* is registered.
OnePeerPerIdentity ==
  \A p, q \in Registered(registry) :
    registry.peers[p].known /\ registry.peers[q].known /\ IdOf[p] = IdOf[q] => p = q

\* The peers the window lists (the mesh) are those the registry knows, as soon
\* as every polled event is handled.
ShownPeersAreKnown == events = <<>> => mesh \subseteq Registered(registry)

\* Once a musician is known by identity, a channel still published under the
\* peer id, from frames that came before the Hello, will be retired.
NoDuplicateChannel ==
  \A p \in Registered(registry), s \in Stream :
    registry.peers[p].known /\ <<p, s>> \in engine.published => engine.intent[p] = Gone

\* The handshake completes: a peer that stays connected while we do gets its
\* identity, and with it the channels it had before.
HelloCompletes ==
  \A p \in Peer :
    Up(p) /\ link ~> \/ p \in Registered(registry) /\ registry.peers[p].known
                     \/ ~Up(p) \/ ~link

\* The same, of peers that never lost their connection.
FirstHelloCompletes ==
  \A p \in Peer :
    Up(p) /\ link ~> \/ p \in Registered(registry) /\ registry.peers[p].known
                     \/ ~Up(p) \/ ~link \/ blips > 0

\* A peer that was heard and is gone for good does not stay in the registry,
\* whatever happens to the relay's notice of it.
GonePeerRemoved ==
  \A p \in Peer :
    run[p] = "dead" /\ p \in Registered(registry) /\ registry.peers[p].heard
      ~> p \notin Registered(registry)
=============================================================================
