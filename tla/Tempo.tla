-------------------------------- MODULE Tempo --------------------------------
(***************************************************************************)
(* The tempo of a WAIL room (ADR-0009): the declarations of the sessions   *)
(* (wail-app/session.go, protocol.go), the relay that forwards them and    *)
(* remembers the room's tempo (signaling-server/interval_clock.go), and    *)
(* the anchors from which a joiner takes it.                               *)
(*                                                                         *)
(* A session is one goroutine: it handles a command, an event or a sync    *)
(* message at a time.  The relay runs one readPump per connection; pump    *)
(* says what it is doing.  Channels keep their order, up towards the relay *)
(* and down towards the session, and nothing orders two readPumps.         *)
(***************************************************************************)
EXTENDS Integers, Sequences, FiniteSets, Functions

CONSTANTS
  Peer,       \* sessions; one that lost its connection reconnects as itself
  Identity,   \* Identity[p]: p's identity, which owns its declarations
  PeerId,     \* PeerId[p]: p's peer id, the owner a legacy change is put to
  JoinBpm,    \* JoinBpm[p]: the tempo p's session starts with
  Bpm,        \* the tempos a musician chooses from
  DefaultBpm, \* what the relay assumes while no tempo is known
  Clock,      \* what time.Now() may read: the clocks of two peers are unrelated
  MaxDrops,   \* bound on lost connections
  MaxActs,    \* bound on what the musicians do
  MaxRejects, \* bound on the stream counts the relay rejects
  Shapes,     \* does the interval's shape vary between messages?
  Overlap     \* may somebody act or join while something is under way, and may
              \* a connection be lost between two messages a session sent?

ASSUME TempoAssumption ==
  /\ IsFiniteSet(Peer)
  /\ Identity \in [Peer -> Nat \ {0}]
  /\ PeerId \in [Peer -> Nat \ {0}]
  /\ \A p, q \in Peer : Identity[p] = Identity[q] => p = q
  /\ Bpm \subseteq Nat \ {0}
  /\ DefaultBpm \in Bpm
  /\ JoinBpm \in [Peer -> Bpm]
  /\ Clock \subseteq Nat \ {0}
  /\ MaxDrops \in Nat
  /\ MaxActs \in Nat
  /\ MaxRejects \in Nat
  /\ Shapes \in BOOLEAN
  /\ Overlap \in BOOLEAN

VARIABLES
  conn,     \* conn[p]: "out", before the session; "on", registered with the
            \* relay; "lost", the session is waiting to reconnect
  bpm,      \* currentBPM
  stamp,    \* tempoOrigin and tempoOwner
  adopted,  \* adoptedRoomTempo
  notice,   \* notice[p]: peer_joined events p's session has yet to handle
  up,       \* up[p]: sync messages from p that the relay has yet to read
  pump,     \* pump[p]: what the relay's readPump of p is doing
  down,     \* down[p]: sync messages and anchors p has yet to handle
  room,     \* the relay's room.tempoBPM; 0 while haveConfig is false
  drops, acts, rejects

sessionVars == <<bpm, stamp, adopted>>
bounds == <<drops, acts, rejects>>
vars == <<conn, sessionVars, notice, up, pump, down, room, bounds>>

Stamp == [origin : Nat, owner : Nat]
NoStamp == [origin |-> 0, owner |-> 0]

\* bpm 0, origin 0 and owner 0 stand for a field the message lacks.
Msg == [type : {"Declare", "Change", "Anchor"}, bpm : Bpm, origin : Nat, owner : Nat]
       \cup [type : {"Config"}, bpm : {0}, origin : {0}, owner : {0}]

Declare(b, s)   == [type |-> "Declare", bpm |-> b, origin |-> s.origin, owner |-> s.owner]
Change(p, b)    == [type |-> "Change", bpm |-> b, origin |-> 0, owner |-> PeerId[p]]
IntervalConfig  == [type |-> "Config", bpm |-> 0, origin |-> 0, owner |-> 0]
Anchor(b)       == [type |-> "Anchor", bpm |-> b, origin |-> 0, owner |-> 0]

Phase == {"idle", "joinok", "seed", "forward", "observed", "anchor"}
At(phase) == [phase |-> phase, msg |-> IntervalConfig, to |-> {}]

\* What a readPump goes on with once it has sent to q, or q is no member any more.
Sent(r, q) ==
  IF r.phase = "anchor" /\ r.to = {q} THEN At("idle") ELSE [r EXCEPT !.to = @ \ {q}]

TypeOK ==
  /\ conn \in [Peer -> {"out", "on", "lost"}]
  /\ bpm \in [Peer -> Bpm]
  /\ stamp \in [Peer -> Stamp]
  /\ adopted \in [Peer -> BOOLEAN]
  /\ notice \in [Peer -> Nat]
  /\ up \in [Peer -> Seq(Msg)]
  /\ pump \in [Peer -> [phase : Phase, msg : Msg, to : SUBSET Peer]]
  /\ down \in [Peer -> Seq(Msg)]
  /\ room \in Bpm \cup {0}
  /\ drops \in 0..MaxDrops
  /\ acts \in 0..MaxActs
  /\ rejects \in 0..MaxRejects

-----------------------------------------------------------------------------

On == {p \in Peer : conn[p] = "on"}

\* The session's loop is running: it blocks while it reconnects.
Running(p) == conn[p] # "out" /\ pump[p].phase # "joinok"

\* Nothing is under way between the members and the relay.
Quiet == \A p \in On : /\ up[p] = <<>>
                       /\ down[p] = <<>>
                       /\ notice[p] = 0
                       /\ pump[p].phase = "idle"

\* tempoDeclareAdopts: does the stamp s beat the stamp t?
Beats(s, t) ==
  \/ s.origin > t.origin
  \/ s.origin = t.origin /\ s.owner # 0 /\ (t.owner = 0 \/ s.owner < t.owner)

\* mesh.Broadcast: a session without a connection broadcasts to nobody.
Broadcast(p, ms) == up' = IF p \in On THEN [up EXCEPT ![p] = @ \o ms] ELSE up

\* Mutant: a clock behind the known origin does not advance it.
NextStampWithoutBump(p, now) ==
  [origin |-> IF now > stamp[p].origin THEN now ELSE stamp[p].origin,
   owner  |-> Identity[p]]

\* The stamp of a new declaration at time now.
NextStamp(p, now) ==
  [origin |-> IF now > stamp[p].origin THEN now ELSE stamp[p].origin + 1,
   owner  |-> Identity[p]]

\* declareTempo, with what the caller broadcasts after it.
DeclareTempo(p, b, now, more) ==
  LET s == NextStamp(p, now)
  IN  /\ stamp' = [stamp EXCEPT ![p] = s]
      /\ Broadcast(p, <<Declare(b, s), Change(p, b)>> \o more)

-----------------------------------------------------------------------------
(* Joining and leaving. *)

Init ==
  /\ conn = [p \in Peer |-> "out"]
  /\ bpm = JoinBpm
  /\ stamp = [p \in Peer |-> NoStamp]
  /\ adopted = [p \in Peer |-> FALSE]
  /\ notice = [p \in Peer |-> 0]
  /\ up = [p \in Peer |-> <<>>]
  /\ pump = [p \in Peer |-> At("idle")]
  /\ down = [p \in Peer |-> <<>>]
  /\ room = 0
  /\ drops = 0 /\ acts = 0 /\ rejects = 0

\* Mutant: a reconnect does not reset adoptedRoomTempo.
JoinKeepsAdopted(p) ==
  /\ p \notin On
  /\ Overlap \/ Quiet
  /\ conn' = [conn EXCEPT ![p] = "on"]
  /\ notice' = [q \in Peer |-> IF q \in On THEN notice[q] + 1 ELSE notice[q]]
  /\ down' = [down EXCEPT ![p] = <<>>]
  /\ pump' = [pump EXCEPT ![p] = At("joinok")]
  /\ UNCHANGED <<bpm, stamp, adopted, up, room, bounds>>

\* The relay registers p's connection and tells the members.  A session that
\* reconnects leaves what its old connection still held unread.
Join(p) ==
  /\ p \notin On
  /\ Overlap \/ Quiet
  /\ conn' = [conn EXCEPT ![p] = "on"]
  /\ adopted' = [adopted EXCEPT ![p] = FALSE]
  /\ notice' = [q \in Peer |-> IF q \in On THEN notice[q] + 1 ELSE notice[q]]
  /\ down' = [down EXCEPT ![p] = <<>>]
  /\ pump' = [pump EXCEPT ![p] = At("joinok")]
  /\ UNCHANGED <<bpm, stamp, up, room, bounds>>

\* The relay queues join_ok; ConnectSignaling throws away what came before it.
JoinOk(p) ==
  /\ pump[p].phase = "joinok"
  /\ pump' = [pump EXCEPT ![p] = At("seed")]
  /\ down' = [down EXCEPT ![p] = <<>>]
  /\ notice' = [notice EXCEPT ![p] = 0]
  /\ UNCHANGED <<conn, sessionVars, up, room, bounds>>

\* The end of hub.join: the joiner gets the room's tempo, once there is one.
Seed(p) ==
  /\ pump[p].phase = "seed"
  /\ pump' = [pump EXCEPT ![p] = At("idle")]
  /\ down' = IF room = 0 THEN down ELSE [down EXCEPT ![p] = Append(@, Anchor(room))]
  /\ UNCHANGED <<conn, sessionVars, notice, up, room, bounds>>

\* p's connection ends, once its readPump is done with the message at hand.
\* What p sent and the relay had not read is lost; so is what the connection
\* had not carried to p yet.  The relay forgets a room that empties.
Drop(p) ==
  /\ p \in On
  /\ pump[p].phase = "idle"
  /\ drops < MaxDrops
  /\ drops' = drops + 1
  /\ Overlap \/ up[p] = <<>>
  /\ conn' = [conn EXCEPT ![p] = "lost"]
  /\ up' = [up EXCEPT ![p] = <<>>]
  /\ \E n \in 0..Len(down[p]) : down' = [down EXCEPT ![p] = SubSeq(@, 1, n)]
  /\ notice' = [notice EXCEPT ![p] = 0]
  /\ pump' = [q \in Peer |-> Sent(pump[q], p)]
  /\ room' = IF On = {p} THEN 0 ELSE room
  /\ UNCHANGED <<sessionVars, acts, rejects>>

-----------------------------------------------------------------------------
(* What a session does on its own account. *)

Act ==
  /\ Overlap \/ Quiet
  /\ acts < MaxActs
  /\ acts' = acts + 1

\* The musician sets WAIL's tempo.
ChangeBpm(p, b, now) ==
  /\ Running(p) /\ Act
  /\ bpm' = [bpm EXCEPT ![p] = b]
  /\ DeclareTempo(p, b, now, <<>>)
  /\ UNCHANGED <<conn, adopted, notice, pump, down, room, drops, rejects>>

\* The session hears from Link that the DAW changed its tempo.
TempoChanged(p, b, now) ==
  /\ Running(p) /\ Act
  /\ b # bpm[p]
  /\ bpm' = [bpm EXCEPT ![p] = b]
  /\ DeclareTempo(p, b, now, <<>>)
  /\ UNCHANGED <<conn, adopted, notice, pump, down, room, drops, rejects>>

\* The musician changes the room's interval.
SetInterval(p) ==
  /\ Shapes /\ Running(p) /\ Act
  /\ Broadcast(p, <<IntervalConfig>>)
  /\ UNCHANGED <<conn, sessionVars, notice, pump, down, room, drops, rejects>>

\* update_streams_error: the case that handles it holds what founding a room
\* was meant to do, and PeerCount is 0 in every such event.
UpdateStreamsError(p, now) ==
  /\ Running(p) /\ p \in On
  /\ rejects < MaxRejects
  /\ rejects' = rejects + 1
  /\ DeclareTempo(p, JoinBpm[p], now, <<IntervalConfig>>)
  /\ UNCHANGED <<conn, bpm, adopted, notice, pump, down, room, drops, acts>>

\* A session greets a newcomer with the interval it plays in.
PeerJoined(p) ==
  /\ notice[p] > 0 /\ Running(p)
  /\ notice' = [notice EXCEPT ![p] = @ - 1]
  /\ Broadcast(p, <<IntervalConfig>>)
  /\ UNCHANGED <<conn, sessionVars, pump, down, room, bounds>>

-----------------------------------------------------------------------------
(* The relay: hub.broadcastSync on p's readPump. *)

Read(p) ==
  /\ p \in On
  /\ pump[p].phase = "idle"
  /\ up[p] # <<>>
  /\ pump' = [pump EXCEPT ![p] = [phase |-> "forward", msg |-> Head(up[p]), to |-> On \ {p}]]
  /\ up' = [up EXCEPT ![p] = Tail(@)]
  /\ UNCHANGED <<conn, sessionVars, notice, down, room, bounds>>

Send(p, q) ==
  /\ q \in pump[p].to
  /\ down' = [down EXCEPT ![q] = Append(@, pump[p].msg)]
  /\ pump' = [pump EXCEPT ![p] = Sent(@, q)]
  /\ UNCHANGED <<conn, sessionVars, notice, up, room, bounds>>

\* room.observeSync: the tempo the room has after message m.
Observed(m) == IF m.bpm > 0 THEN m.bpm ELSE IF room = 0 THEN DefaultBpm ELSE room

\* A change and an interval config also carry the interval's shape, which may
\* differ from the room's (reshaped); then there is something to announce even
\* if the tempo stays.
Observe(p) ==
  /\ pump[p].phase = "forward" /\ pump[p].to = {}
  /\ \E reshaped \in BOOLEAN :
       LET m == pump[p].msg
           b == Observed(m)
       IN  /\ reshaped => Shapes /\ m.type # "Declare"
           /\ room' = b
           /\ pump' = [pump EXCEPT ![p] =
                         IF b = room /\ ~reshaped
                         THEN At("idle")
                         ELSE [At("observed") EXCEPT !.msg = Anchor(b)]]
  /\ UNCHANGED <<conn, sessionVars, notice, up, down, bounds>>

\* broadcastAnchor: to every member, the sender included.
Announce(p) ==
  /\ pump[p].phase = "observed"
  /\ pump' = [pump EXCEPT ![p] = [@ EXCEPT !.phase = "anchor", !.to = On]]
  /\ UNCHANGED <<conn, sessionVars, notice, up, down, room, bounds>>

-----------------------------------------------------------------------------
(* What a session does with what it receives. *)

Take(p, type) ==
  /\ Running(p)
  /\ down[p] # <<>> /\ Head(down[p]).type = type
  /\ down' = [down EXCEPT ![p] = Tail(@)]
  /\ UNCHANGED <<conn, notice, up, pump, room, bounds>>

\* Once per (re)connect, the session takes the room's tempo from an anchor.
OnAnchor(p) ==
  /\ Take(p, "Anchor")
  /\ bpm' = IF adopted[p] THEN bpm ELSE [bpm EXCEPT ![p] = Head(down[p]).bpm]
  /\ adopted' = [adopted EXCEPT ![p] = TRUE]
  /\ UNCHANGED stamp

\* Mutant: every declaration is adopted.
OnDeclareAny(p) ==
  /\ Take(p, "Declare")
  /\ LET m == Head(down[p]) IN
       /\ stamp' = [stamp EXCEPT ![p] = [origin |-> m.origin, owner |-> m.owner]]
       /\ bpm' = [bpm EXCEPT ![p] = m.bpm]
  /\ UNCHANGED adopted

\* A declaration that beats what the session knows is adopted.
OnDeclare(p) ==
  /\ Take(p, "Declare")
  /\ LET m == Head(down[p])
         s == [origin |-> m.origin, owner |-> m.owner]
     IN  IF Beats(s, stamp[p])
         THEN stamp' = [stamp EXCEPT ![p] = s] /\ bpm' = [bpm EXCEPT ![p] = m.bpm]
         ELSE UNCHANGED <<stamp, bpm>>
  /\ UNCHANGED adopted

\* A legacy change is adopted whenever its tempo differs, and stamped with
\* the time of its receipt if that is later.
OnChange(p, now) ==
  /\ Take(p, "Change")
  /\ LET m == Head(down[p]) IN
       IF m.bpm = bpm[p]
       THEN UNCHANGED <<bpm, stamp>>
       ELSE /\ bpm' = [bpm EXCEPT ![p] = m.bpm]
            /\ stamp' = IF now > stamp[p].origin
                        THEN [stamp EXCEPT ![p] = [origin |-> now, owner |-> m.owner]]
                        ELSE stamp
  /\ UNCHANGED adopted

OnIntervalConfig(p) == Take(p, "Config") /\ UNCHANGED sessionVars

-----------------------------------------------------------------------------

Next ==
  \E p \in Peer :
    \/ Join(p) \/ JoinOk(p) \/ Seed(p) \/ Drop(p)
    \/ \E b \in Bpm, now \in Clock : ChangeBpm(p, b, now) \/ TempoChanged(p, b, now)
    \/ SetInterval(p)
    \/ \E now \in Clock : UpdateStreamsError(p, now)
    \/ PeerJoined(p)
    \/ Read(p) \/ Observe(p) \/ Announce(p)
    \/ \E q \in Peer : Send(p, q)
    \/ OnAnchor(p) \/ OnDeclare(p) \/ OnIntervalConfig(p)
    \/ \E now \in Clock : OnChange(p, now)

Spec == Init /\ [][Next]_vars

-----------------------------------------------------------------------------
(* Properties. *)

\* The members of a room in which nothing is under way play the tempo the
\* relay knows: what session.go's declarations and anchors are there to bring
\* about.  Where Overlap is FALSE it survives lost messages, lost connections
\* and clocks that disagree; concurrent declarations break it, and so does the
\* declaration a rejected stream count makes of a tempo the session left.
QuietRoomAgrees == Quiet /\ room # 0 /\ rejects = 0 => \A p \in On : bpm[p] = room

\* The declarations that are under way anywhere.
InFlight(p) == {pump[p].msg} \cup Range(up[p]) \cup Range(down[p])
Underway == {m \in UNION {InFlight(p) : p \in Peer} : m.type = "Declare"}

\* A stamp names one declaration: two declarations on their way with one
\* origin and one owner carry one tempo, however fast they were made and
\* whatever the clock did in between (declareTempo, session.go).
StampNamesOneTempo ==
  \A m, n \in Underway : m.origin = n.origin /\ m.owner = n.owner => m.bpm = n.bpm

\* What a session lets decide about later declarations never becomes weaker:
\* its stamp is replaced by one that beats it, through its own declarations,
\* those of others and legacy changes alike (session.go, tempoDeclareAdopts).
StampsOnlyGrow == [][\A p \in Peer : stamp'[p] = stamp[p] \/ Beats(stamp'[p], stamp[p])]_vars

\* The legacy copy of a declaration never takes a session away from the tempo
\* it declared itself: whoever declared it sent the declaration first, and that
\* one either won, and moved the stamp, or lost (session.go's comment on
\* TempoChange, tempoDeclareAdopts).
DualSendIsInert ==
  [][\A p \in Peer :
       /\ down[p] # <<>> /\ down'[p] = Tail(down[p]) /\ Head(down[p]).type = "Change"
       /\ stamp[p].owner = Identity[p]
       => bpm'[p] = bpm[p]]_vars
=============================================================================
