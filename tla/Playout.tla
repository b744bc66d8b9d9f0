------------------------------- MODULE Playout -------------------------------
(* How a receiver turns the frames of one sender into rounds at its speakers: *)
(* internal/playout/adaptive.go (which round a local interval boundary        *)
(* releases), internal/emit (what is buffered, the reader of the round that   *)
(* plays and the pre-rolled reader of the next) and the parts of              *)
(* audio_engine_real.go that drive them: the session goroutine decodes        *)
(* outside e.mu, the emit loop publishes a tick's boundary index before it    *)
(* takes e.mu to serve it.                                                    *)
(*                                                                            *)
(* A frame is its place ("slot") in the sender's run: Frames slots to a       *)
(* round, rounds and sequence numbers counted from the sender's start.  PCM,  *)
(* codec delay and padding are left out; a reader is the round it reads and   *)
(* the local interval its beat stamps belong to.                              *)
EXTENDS Integers, FiniteSets, FiniteSetsExt, Functions

CONSTANTS
  Stream,        \* the sender's streams
  Frames,        \* frames of a round
  RestartGap,    \* adaptive.go: restartGap
  PlcMax,        \* plcMaxFramesPerGap
  DroppedGrace,  \* retireGraceDropped, in intervals
  GoneGrace,     \* peerGoneGrace, in intervals
  None, Gone,
  MaxSlot,       \* bound: slots of a run
  MaxLost,       \* bound: frames lost in a row
  MaxWall,       \* bound: half intervals of wall-clock time
  MaxStall,      \* bound: half intervals between two ticks of the emit loop
  MaxRestarts,   \* bound: restarts of the sender's application
  MaxChanges,    \* bound: changes of the interval length
  Lengths        \* the changes there are: "longer", "shorter"

ASSUME PlayoutAssumption ==
  /\ Stream # {} /\ IsFiniteSet(Stream)
  /\ Frames \in Nat \ {0} /\ RestartGap \in Nat \ {0} /\ PlcMax \in Nat
  /\ DroppedGrace \in Nat /\ GoneGrace \in Nat
  /\ MaxSlot \in Nat /\ MaxLost \in Nat /\ MaxWall \in Nat /\ MaxStall \in Nat
  /\ MaxRestarts \in Nat /\ MaxChanges \in Nat
  /\ Lengths \subseteq {"longer", "shorter"}

\* A reader of a feeder.
Reader == [round : Nat, base : Nat, made : Nat]

ASSUME NoneAssumption == None \notin Reader

VARIABLES
  sent,          \* sent[s]: the next slot the sender sends on s
  born,          \* half interval in which the sender's run began
  restarts,
  hand,          \* the frame HandleRemoteAudio is decoding, or None
  published,     \* the streams in e.emit
  real, plc,     \* slots of s that hold received, concealed audio
  expect,        \* expectSeq as the slot it stands for, 0 while haveSeq is false
  quiet,         \* intervals since lastFrameAt, as far as the graces tell apart
  intent,        \* None, Gone or the streams the sender says it sends
  playing,       \* Adaptive.playing, NotYet while hasPlaying is false
  firstSeen,     \* senderRounds.firstSeen, a map
  wall,          \* half intervals of wall-clock time
  index,         \* the local interval index the next tick will compute
  localBoundary, \* the index of the last tick
  lastLocalIdx,  \* the index onBoundary was last called with
  pc,            \* where the emit loop is
  cur, next,     \* the readers of the feeder of s
  changes,
  old,           \* history: rounds buffered or playing when the sender restarted
  justBegan,     \* history: rounds that began to arrive since the last tick that had
                 \* a boundary to be served
  missed         \* history: interval starts since onBoundary was last called

buffers == <<real, plc>>
session == <<sent, born, restarts, hand, expect>>
clock == <<wall, index, localBoundary, lastLocalIdx, pc, missed>>
rounds == <<playing, firstSeen>>
readers == <<cur, next>>
vars == <<session, buffers, clock, rounds, readers, published, quiet, intent,
          changes, old, justBegan>>

NotYet == -1
Slot == 0 .. MaxSlot
Round == 0 .. MaxSlot \div Frames
MaxGrace == Max({DroppedGrace, GoneGrace, 2})

RoundOf(q) == q \div Frames

\* The rounds of a stream the reassembler has a partial for.
Held(s) == {RoundOf(q) : q \in real[s] \cup plc[s]}

\* The rounds some stream of the set has a partial for.
Buffered(streams) == UNION {Held(s) : s \in streams}

\* Reassembler.Complete: every frame of the round was received.
Whole(s, r) == r * Frames .. r * Frames + Frames - 1 \subseteq real[s]

\* Adaptive.OnFrame.
OnFrame(r) ==
  CASE r > playing -> "buffer"
    [] r = playing -> "liveAppend"
    [] r <= playing - RestartGap -> "buffer"
    [] OTHER -> "tooLate"

--------------------------------------------------------------------------------
(* The session goroutine.                                                      *)

\* The slots a gap in the sequence numbers stands for, at most PlcMax of them.
\* A stream's sequence numbers and places run in step, so the walk of
\* MissingSlots lands on the frame at hand.
MissingSlots(s, q) ==
  IF expect[s] = 0 THEN {}
  ELSE {p \in Slot : p >= expect[s] /\ p < q /\ p < expect[s] + PlcMax}

\* HandleRemoteAudio up to the decode: the stream is published if it is new, its
\* idle clock starts again and the slots to conceal are worked out.  The frame
\* comes after any number of lost ones, not before the sender recorded it.
Lookup(s, q) ==
  /\ hand = None
  /\ q >= sent[s] /\ q <= sent[s] + MaxLost
  /\ RoundOf(q) <= (wall - born) \div 2
  /\ sent' = [sent EXCEPT ![s] = q + 1]
  /\ published' = published \cup {s}
  /\ quiet' = [quiet EXCEPT ![s] = 0]
  /\ hand' = [stream |-> s, slot |-> q, conceal |-> MissingSlots(s, q)]
  /\ UNCHANGED <<born, restarts, expect, buffers, clock, rounds, readers, intent,
                 changes, old, justBegan>>

\* The Opus decode fails: the frame and its concealment are dropped.
DecodeFails ==
  /\ hand # None
  /\ hand' = None
  /\ UNCHANGED <<sent, born, restarts, expect, buffers, clock, rounds, readers,
                 published, quiet, intent, changes, old, justBegan>>

\* Mutant: a round is dated by the boundary served last.
NoteFirstSeenAtServed(new) ==
  firstSeen' = [r \in DOMAIN firstSeen \cup new |->
                 IF r \in DOMAIN firstSeen THEN firstSeen[r] ELSE lastLocalIdx]

\* noteFirstSeen for every round of the set.
NoteFirstSeen(new) ==
  firstSeen' = [r \in DOMAIN firstSeen \cup new |->
                 IF r \in DOMAIN firstSeen THEN firstSeen[r] ELSE localBoundary]

\* HandleRemoteAudio after the decode, of which "got" of the concealed slots came
\* out.  The stream may have been retired meanwhile: then the frame is dropped.
Place(got) ==
  LET s == hand.stream
      q == hand.slot
      fills == {p \in got : OnFrame(RoundOf(p)) # "tooLate"}
      adds == IF OnFrame(RoundOf(q)) # "tooLate" THEN {q} ELSE {}
      buffered == {RoundOf(x) : x \in {y \in fills \cup adds : OnFrame(RoundOf(y)) = "buffer"}}
  IN /\ hand # None
     /\ got \subseteq hand.conceal
     /\ hand' = None
     /\ IF s \in published
        THEN /\ expect' = [expect EXCEPT ![s] = IF q >= @ THEN q + 1 ELSE @]
             /\ NoteFirstSeen(buffered)
             /\ real' = [real EXCEPT ![s] = @ \cup adds]
             /\ plc' = [plc EXCEPT ![s] = (@ \cup (fills \ real[s])) \ adds]
             /\ old' = old \ (buffered \ Buffered(published))
             /\ justBegan' = justBegan \cup (buffered \ Buffered(published))
        ELSE UNCHANGED <<expect, firstSeen, buffers, old, justBegan>>
     /\ UNCHANGED <<sent, born, restarts, clock, playing, readers, published, quiet,
                    intent, changes>>

\* SetPeerStreams, ClearPeerIntent and DropPeer, called by the same goroutine.
SetIntent(news) ==
  /\ hand = None
  /\ intent' = news
  /\ UNCHANGED <<session, buffers, clock, rounds, readers, published, quiet,
                 changes, old, justBegan>>

SetPeerStreams(keep) == SetIntent(keep)
ClearPeerIntent == intent # None /\ SetIntent(None)
DropPeer == SetIntent(Gone)

\* SetRoomConfig with another number of bars: index counts intervals of the new
\* length from the same beat.
SetRoomConfig(length) ==
  /\ hand = None
  /\ changes < MaxChanges
  /\ changes' = changes + 1
  /\ index' = IF length = "longer" THEN index \div 2 ELSE 2 * index
  /\ UNCHANGED <<session, buffers, wall, localBoundary, lastLocalIdx, pc, missed,
                 rounds, readers, published, quiet, intent, old, justBegan>>

\* The sender's application restarts: what arrives from here on belongs to a run
\* whose rounds and sequence numbers start again.
SenderRestart ==
  /\ hand = None
  /\ restarts < MaxRestarts
  /\ restarts' = restarts + 1
  /\ sent' = [s \in Stream |-> 0]
  /\ born' = wall
  /\ old' = Buffered(published) \cup ({playing} \ {NotYet})
  /\ UNCHANGED <<hand, expect, buffers, clock, rounds, readers, published, quiet,
                 intent, changes, justBegan>>

--------------------------------------------------------------------------------
(* The emit loop: a tick computes and stores the index, takes e.mu to serve the *)
(* boundary and takes it again to top the sinks up.  Nobody else writes the     *)
(* readers, so the last two sections are one step.                             *)

\* Wall-clock time passes up to the next tick; localBoundary.Store.
Tick(d) ==
  LET entered == (wall + d) \div 2 - wall \div 2
  IN /\ pc = "tick"
     /\ wall + d <= MaxWall
     /\ wall' = wall + d
     /\ index' = index + entered
     /\ localBoundary' = index + entered
     /\ quiet' = [s \in Stream |-> Min({quiet[s] + entered, MaxGrace})]
     /\ missed' = missed + entered
     /\ justBegan' = IF index + entered > lastLocalIdx THEN {} ELSE justBegan
     /\ pc' = "boundary"
     /\ UNCHANGED <<session, buffers, lastLocalIdx, rounds, readers, published,
                    intent, changes, old>>

Grace(s) == IF intent = Gone THEN GoneGrace ELSE DroppedGrace

\* retirableLocked: whether the sender has stopped claiming the stream.
Unclaimed(s) == intent # None /\ (intent = Gone \/ s \notin intent)

\* Mutant: any buffered audio keeps a stream, also what has been played.
RetiresWhenEmpty(s) ==
  /\ s \in published
  /\ Unclaimed(s)
  /\ quiet[s] >= Grace(s)
  /\ Held(s) = {}

\* sweepRetiredLocked: no stream with a round above the playing one.
Retires(s) ==
  /\ s \in published
  /\ Unclaimed(s)
  /\ quiet[s] >= Grace(s)
  /\ \A r \in Held(s) : r <= playing

\* What retireStreamLocked deletes with the streams of a set.
Forget(gone, buf) == [s \in Stream |-> IF s \in gone THEN {} ELSE buf[s]]

FirstSeenOr(r, fallback) == IF r \in DOMAIN firstSeen THEN firstSeen[r] ELSE fallback

\* The candidates of a boundary are the union over the sender's streams; a round
\* is complete when every stream that has some of it has all of it.
Complete(streams, r) == \A s \in streams : r \in Held(s) => Whole(s, r)

\* Mutant: a round waits for its last frame.
ReadyWhenComplete(streams, r) == Complete(streams, r)

Ready(streams, r) ==
  Complete(streams, r) \/ FirstSeenOr(r, localBoundary) < localBoundary

Above(streams) == {r \in Buffered(streams) : r > playing}
Below(streams) == {r \in Buffered(streams) : r <= playing - RestartGap}
Repin(streams) == Above(streams) = {}

Candidates(streams) == IF Repin(streams) THEN Below(streams) ELSE Above(streams)
ReadyRounds(streams) == {r \in Candidates(streams) : Ready(streams, r)}

\* Mutant: a re-pin leaves the old run buffered.
SkippedBefore(streams, release) == {r \in Candidates(streams) : r < release}

\* Adaptive.OnBoundary: the newest ready candidate is released, the candidates
\* before it are skipped and, after a restart, everything above it.
Skipped(streams, release) ==
  {r \in Candidates(streams) : r < release}
    \cup IF Repin(streams) THEN {r \in Buffered(streams) : r > release} ELSE {}

\* Reassembler.Drop(release - 1) and Take of the skipped rounds above it.
Trim(buf, streams, release) ==
  [s \in Stream |->
    IF s \notin streams THEN {}
    ELSE {q \in buf[s] : RoundOf(q) >= release
                         /\ RoundOf(q) \notin Skipped(streams, release)}]

\* Feeder.Advance: the cushion, shorter than half an interval, reaches the end of
\* the reader.
AtEnd(r) == 2 * localBoundary + (wall % 2) >= 2 * r.base + 1

\* Mutant: the pre-rolled reader is stamped for the interval that plays.
TopUpAtStart(c, n) ==
  [s \in Stream |-> IF c[s] # None /\ n[s] = None /\ AtEnd(c[s])
                    THEN [round |-> c[s].round + 1, base |-> c[s].made]
                    ELSE n[s]]

\* topUpSinks: makeNext runs once for a reader that nears its end.
TopUp(c, n) ==
  [s \in Stream |-> IF c[s] # None /\ n[s] = None /\ AtEnd(c[s])
                    THEN [round |-> c[s].round + 1, base |-> c[s].made + 1]
                    ELSE n[s]]

\* The readers as a boundary leaves them, and the top-up after it.
Readers(c, n) ==
  /\ cur' = c
  /\ next' = TopUp(c, n)

NoReader == [s \in Stream |-> None]

\* Mutant: a stream without audio for the round keeps its reader.
InstallHolding(streams, release) ==
  [s \in Stream |->
    IF s \notin streams THEN None
    ELSE IF release \notin Held(s) THEN cur[s]
    ELSE [round |-> release,
          base  |-> IF next[s] # None /\ next[s].round = release
                    THEN next[s].base ELSE localBoundary,
          made  |-> localBoundary]]

\* Feeder.Promote or SetCurrent; "made" is the interval at whose end makeNext
\* will anchor the reader after this one.
Install(streams, release) ==
  [s \in Stream |->
    IF s \notin streams THEN None
    ELSE [round |-> release,
          base  |-> IF next[s] # None /\ next[s].round = release
                    THEN next[s].base ELSE localBoundary,
          made  |-> localBoundary]]

\* The part of onBoundary after the sweep, for the streams that stay.
Release(streams, gone) ==
  LET ready == ReadyRounds(streams)
      release == Max(ready)
  IN IF ready = {}
     THEN /\ real' = Forget(gone, real)
          /\ plc' = Forget(gone, plc)
          /\ Readers([s \in Stream |-> IF s \in gone THEN None ELSE cur[s]],
                     [s \in Stream |-> IF s \in gone THEN None ELSE next[s]])
          /\ UNCHANGED rounds
     ELSE /\ playing' = release
          /\ firstSeen' = Restrict(firstSeen, {r \in DOMAIN firstSeen :
                            r > release /\ r \notin Skipped(streams, release)})
          /\ real' = Trim(real, streams, release)
          /\ plc' = Trim(plc, streams, release)
          /\ Readers(Install(streams, release), NoReader)

\* sweepRetiredLocked also forgets the intent and the cursor of an identity that
\* has nothing published left.
ForgetSender ==
  /\ intent' = None
  /\ playing' = NotYet
  /\ firstSeen' = [r \in {} |-> 0]
  /\ real' = [s \in Stream |-> {}]
  /\ plc' = [s \in Stream |-> {}]
  /\ Readers(NoReader, NoReader)

\* A tick that enters no later interval than the last one served leaves everything
\* alone.  Adaptive.boundary follows lastLocalIdx, so OnBoundary's own test of it
\* never refuses what passed this one.
Boundary ==
  /\ pc = "boundary"
  /\ pc' = "tick"
  /\ IF localBoundary > lastLocalIdx
     THEN LET gone == {s \in published : Retires(s)}
              streams == published \ gone
          IN /\ lastLocalIdx' = localBoundary
             /\ missed' = 0
             /\ published' = streams
             /\ expect' = [s \in Stream |-> IF s \in gone THEN 0 ELSE expect[s]]
             /\ IF streams = {} THEN ForgetSender
                ELSE Release(streams, gone) /\ UNCHANGED intent
     ELSE /\ Readers(cur, next)
          /\ UNCHANGED <<lastLocalIdx, missed, published, expect, buffers, rounds,
                         intent>>
  /\ UNCHANGED <<sent, born, restarts, hand, wall, index, localBoundary, quiet,
                 changes, old, justBegan>>

--------------------------------------------------------------------------------
Init ==
  /\ sent = [s \in Stream |-> 0]
  /\ born = 0
  /\ restarts = 0
  /\ hand = None
  /\ published = {}
  /\ real = [s \in Stream |-> {}]
  /\ plc = [s \in Stream |-> {}]
  /\ expect = [s \in Stream |-> 0]
  /\ quiet = [s \in Stream |-> 0]
  /\ intent = None
  /\ playing = NotYet
  /\ firstSeen = [r \in {} |-> 0]
  /\ wall = 0
  /\ index = 0
  /\ localBoundary = -1
  /\ lastLocalIdx = -1
  /\ pc = "tick"
  /\ cur = [s \in Stream |-> None]
  /\ next = [s \in Stream |-> None]
  /\ changes = 0
  /\ old = {}
  /\ justBegan = {}
  /\ missed = 0

Session ==
  \/ \E s \in Stream, q \in Slot : Lookup(s, q)
  \/ DecodeFails
  \/ hand # None /\ \E got \in SUBSET hand.conceal : Place(got)
  \/ \E keep \in SUBSET Stream : SetPeerStreams(keep)
  \/ ClearPeerIntent
  \/ DropPeer
  \/ \E l \in Lengths : SetRoomConfig(l)

EmitLoop == (\E d \in 1 .. MaxStall : Tick(d)) \/ Boundary

Next ==
  \/ Session
  \/ EmitLoop
  \/ SenderRestart

Spec == Init /\ [][Next]_vars

--------------------------------------------------------------------------------
(* Properties.                                                                 *)

\* Every variable has its type; a stream that is not published has nothing.
TypeOK ==
  /\ sent \in [Stream -> 0 .. MaxSlot + 1]
  /\ born \in 0 .. MaxWall /\ restarts \in 0 .. MaxRestarts
  /\ hand = None \/ hand \in [stream : Stream, slot : Slot, conceal : SUBSET Slot]
  /\ published \subseteq Stream
  /\ real \in [Stream -> SUBSET Slot] /\ plc \in [Stream -> SUBSET Slot]
  /\ expect \in [Stream -> 0 .. MaxSlot + 1]
  /\ quiet \in [Stream -> 0 .. MaxGrace]
  /\ intent = None \/ intent = Gone \/ intent \subseteq Stream
  /\ playing \in Round \cup {NotYet}
  /\ DOMAIN firstSeen \subseteq Round /\ \A r \in DOMAIN firstSeen : firstSeen[r] \in Int
  /\ wall \in 0 .. MaxWall /\ index \in Nat
  /\ localBoundary \in Nat \cup {-1} /\ lastLocalIdx \in Nat \cup {-1}
  /\ pc \in {"tick", "boundary"}
  /\ \A s \in Stream : cur[s] = None \/ cur[s] \in Reader
  /\ \A s \in Stream : next[s] = None \/ next[s] \in [round : Nat, base : Nat]
  /\ changes \in 0 .. MaxChanges /\ missed \in Nat
  /\ old \subseteq Round /\ justBegan \subseteq Round
  /\ \A s \in Stream \ published : real[s] = {} /\ plc[s] = {} /\ cur[s] = None

\* A sender's streams never split across rounds: every reader reads the round of
\* the sender's one cursor, whichever streams came, went or lost frames meanwhile,
\* and what is pre-rolled is the round after it.
StreamsShareTheRound ==
  \A s \in published :
    /\ cur[s] # None => cur[s].round = playing
    /\ next[s] # None => next[s].round = playing + 1

\* Staleness is bounded: what a served boundary leaves buffered besides the playing
\* round began to arrive after the boundary's tick, so nothing waits for a second
\* one, be it a backlog, a lost tail, the end of a restarted sender's old run or a
\* round whose date was lost.  A re-pin alone may wait longer, for as long as a round
\* above the old cursor is new too (a restart behind a stall of some intervals).
NothingWaitsTwice ==
  pc = "tick" =>
    \A r \in Buffered(published) \ justBegan :
      \/ r = playing
      \/ r < playing /\ \E n \in Buffered(published) \cap justBegan : n > playing

\* A round that began to arrive after the tick of an interval, be it between the
\* tick and its onBoundary, is not released in that interval before it is complete:
\* its frames date it by the tick, not by the boundary the emit loop served last.
StreamingRoundsWait ==
  [][pc = "boundary" /\ playing' # playing /\ playing' \in justBegan
       => Complete(published, playing')]_vars

\* A re-pin to the rounds of a restarted sender is final: nothing of the run that
\* played before is left above it to win a later boundary and yank playback back.
DeadRunStaysDead ==
  [][pc = "boundary" /\ playing' # NotYet /\ playing' < playing
       => \A r \in Buffered(published)' : r > playing' => r \notin old]_vars

\* A stream that outlives its grace has a reason that ends by the next boundary:
\* audio released at this one, or audio that arrived since.  So a stream nobody
\* claims does not hold its Link Audio channel forever.
RetirementIsPrompt ==
  [][pc = "boundary" /\ lastLocalIdx' = localBoundary =>
       \A s \in published' :
         Unclaimed(s) /\ quiet[s] >= MaxGrace /\ lastLocalIdx # localBoundary
           => \/ cur'[s] # None /\ cur'[s].made = localBoundary
              \/ \E r \in Held(s)' : r \in DOMAIN firstSeen /\ firstSeen[r] >= localBoundary]_vars

\* While every boundary releases a round, each round is stamped for the interval it
\* was released in.
SteadyRoundsAreOnTime ==
  [][\A s \in published :
       pc = "boundary" /\ cur[s] # None /\ cur[s].made = localBoundary - 1
         /\ cur'[s] # None /\ cur'[s].made = localBoundary
         /\ cur[s].made < cur'[s].made
           => cur'[s].base = localBoundary]_vars

\* adaptive.go: "each round plays at the receiver's next local boundary once it is
\* ready", so a reader is stamped for the interval in which it was installed.
ReleasedRoundPlaysHere ==
  \A s \in published : cur[s] # None => cur[s].base = cur[s].made

\* README: a change of the interval "applies at the next interval boundary", so the
\* interval starts after it are served: at most one passes without onBoundary.
IntervalStartsAreServed == pc = "tick" => missed <= 1
=============================================================================
