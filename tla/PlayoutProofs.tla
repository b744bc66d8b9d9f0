---------------------------- MODULE PlayoutProofs ----------------------------
(* Facts about the rounds of one sender, for any number of streams, frames and *)
(* restarts and every bound: its streams never split across rounds, a re-pin    *)
(* leaves nothing of the dead run behind, rounds are stamped for the interval   *)
(* they play in, nothing waits for two boundaries, retirement is prompt, of one *)
(* stream no round is cut short, and every variable keeps its type.             *)
EXTENDS Playout, TLAPS, WellFoundedInduction

--------------------------------------------------------------------------------
(* The readers.                                                                *)

\* Only a published stream has readers; they read the sender's one round and the
\* round after it.
ReadersInv ==
  \A s \in Stream :
    /\ s \notin published => cur[s] = None /\ next[s] = None
    /\ cur[s] # None => cur[s].round = playing
    /\ next[s] # None => cur[s] # None /\ next[s].round = playing + 1

\* A reader the feeder holds, before the top-up, follows "round".
Follows(c, n, streams, round) ==
  \A s \in Stream :
    /\ s \notin streams => c[s] = None /\ n[s] = None
    /\ c[s] # None => c[s].round = round
    /\ n[s] # None => c[s] # None /\ n[s].round = round + 1

\* topUpSinks pre-rolls the round after the one that plays.
LEMMA TopUpFollows ==
  ASSUME NEW c, NEW n, NEW streams, NEW round, Follows(c, n, streams, round)
  PROVE  Follows(c, TopUp(c, n), streams, round)
<1> SUFFICES ASSUME NEW s \in Stream
             PROVE  /\ s \notin streams => c[s] = None /\ TopUp(c, n)[s] = None
                    /\ c[s] # None => c[s].round = round
                    /\ TopUp(c, n)[s] # None
                         => c[s] # None /\ TopUp(c, n)[s].round = round + 1
  BY DEF Follows
<1>1. /\ s \notin streams => c[s] = None /\ n[s] = None
      /\ c[s] # None => c[s].round = round
      /\ n[s] # None => c[s] # None /\ n[s].round = round + 1
  BY DEF Follows
<1>2. CASE c[s] # None /\ n[s] = None /\ AtEnd(c[s])
  <2>1. TopUp(c, n)[s] = [round |-> c[s].round + 1, base |-> c[s].made + 1]
    BY <1>2 DEF TopUp
  <2> QED BY <1>1, <1>2, <2>1
<1>3. CASE ~(c[s] # None /\ n[s] = None /\ AtEnd(c[s]))
  <2>1. TopUp(c, n)[s] = n[s]
    BY <1>3 DEF TopUp
  <2> QED BY <1>1, <2>1
<1> QED BY <1>2, <1>3

\* The readers of the streams that stay follow the round that is released; without
\* one they go on with the round that plays.
LEMMA BoundaryReaders ==
  ASSUME ReadersInv, Boundary
  PROVE  ReadersInv'
<1>1. CASE localBoundary > lastLocalIdx
  <2> DEFINE gone == {s \in published : Retires(s)}
             streams == published \ gone
  <2>1. /\ published' = streams
        /\ IF streams = {} THEN ForgetSender
           ELSE Release(streams, gone) /\ UNCHANGED intent
    BY <1>1 DEF Boundary
  <2>2. CASE streams = {}
    <3>1. Follows(NoReader, NoReader, streams, playing')
      BY DEF Follows, NoReader
    <3>2. Follows(NoReader, TopUp(NoReader, NoReader), streams, playing')
      BY <3>1, TopUpFollows
    <3>3. cur' = NoReader /\ next' = TopUp(NoReader, NoReader)
      BY <2>1, <2>2 DEF ForgetSender, Readers
    <3> QED BY <2>1, <3>2, <3>3 DEF Follows, ReadersInv
  <2>3. CASE streams # {} /\ ReadyRounds(streams) = {}
    <3> DEFINE c == [s \in Stream |-> IF s \in gone THEN None ELSE cur[s]]
               n == [s \in Stream |-> IF s \in gone THEN None ELSE next[s]]
    <3>1. Follows(c, n, streams, playing)
      BY DEF Follows, ReadersInv
    <3>2. Follows(c, TopUp(c, n), streams, playing)
      <4> HIDE DEF c, n
      <4> QED BY <3>1, TopUpFollows
    <3>3. cur' = c /\ next' = TopUp(c, n) /\ playing' = playing
      BY <2>1, <2>3 DEF Release, Readers, rounds
    <3> HIDE DEF c, n
    <3> QED BY <2>1, <3>2, <3>3 DEF Follows, ReadersInv
  <2>4. CASE streams # {} /\ ReadyRounds(streams) # {}
    <3> DEFINE release == Max(ReadyRounds(streams))
               c == Install(streams, release)
    <3>1. Follows(c, NoReader, streams, release)
      <4> HIDE DEF release
      <4> QED BY DEF Follows, NoReader, Install
    <3>2. Follows(c, TopUp(c, NoReader), streams, release)
      <4> HIDE DEF c
      <4> QED BY <3>1, TopUpFollows
    <3>3. cur' = c /\ next' = TopUp(c, NoReader) /\ playing' = release
      BY <2>1, <2>4 DEF Release, Readers
    <3> HIDE DEF c, release
    <3> QED BY <2>1, <3>2, <3>3 DEF Follows, ReadersInv
  <2> QED BY <2>2, <2>3, <2>4
<1>2. CASE ~(localBoundary > lastLocalIdx)
  <2>1. /\ UNCHANGED <<published, rounds>>
        /\ cur' = cur /\ next' = TopUp(cur, next)
    BY <1>2 DEF Boundary, Readers
  <2>2. Follows(cur, next, published, playing)
    BY DEF Follows, ReadersInv
  <2>3. Follows(cur, TopUp(cur, next), published, playing)
    BY <2>2, TopUpFollows
  <2> QED BY <2>1, <2>3 DEF Follows, ReadersInv, rounds
<1> QED BY <1>1, <1>2

LEMMA ReadersStep == ReadersInv /\ [Next]_vars => ReadersInv'
<1> SUFFICES ASSUME ReadersInv, [Next]_vars PROVE ReadersInv'
  OBVIOUS
<1> USE DEF ReadersInv, readers, rounds
<1>1. ASSUME NEW s \in Stream, NEW q \in Slot, Lookup(s, q) PROVE ReadersInv'
  BY <1>1 DEF Lookup
<1>2. CASE DecodeFails
  BY <1>2 DEF DecodeFails
<1>3. ASSUME NEW got, Place(got) PROVE ReadersInv'
  BY <1>3 DEF Place
<1>4. ASSUME NEW news, SetIntent(news) PROVE ReadersInv'
  BY <1>4 DEF SetIntent
<1>5. ASSUME NEW l \in Lengths, SetRoomConfig(l) PROVE ReadersInv'
  BY <1>5 DEF SetRoomConfig
<1>6. ASSUME NEW d \in 1 .. MaxStall, Tick(d) PROVE ReadersInv'
  BY <1>6 DEF Tick
<1>7. CASE Boundary
  BY <1>7, BoundaryReaders
<1>8. CASE SenderRestart
  BY <1>8 DEF SenderRestart
<1>9. CASE UNCHANGED vars
  BY <1>9 DEF vars
<1> QED
  BY <1>1, <1>2, <1>3, <1>4, <1>5, <1>6, <1>7, <1>8, <1>9
  DEF Next, Session, EmitLoop, SetPeerStreams, ClearPeerIntent, DropPeer

\* A musician's streams never split across rounds: whatever streams appear, lose
\* frames or retire, each published stream reads the round of the sender's one
\* cursor and pre-rolls the one after it.
THEOREM StreamsStayTogether == Spec => []StreamsShareTheRound
<1>1. Init => ReadersInv
  BY DEF Init, ReadersInv
<1>2. ReadersInv /\ [Next]_vars => ReadersInv'
  BY ReadersStep
<1>3. ReadersInv /\ published \subseteq Stream => StreamsShareTheRound
  BY DEF ReadersInv, StreamsShareTheRound
<1>4. Init => published \subseteq Stream
  BY DEF Init
<1>5. published \subseteq Stream /\ [Next]_vars => (published \subseteq Stream)'
  BY DEF Next, vars, Session, EmitLoop, Lookup, DecodeFails, Place, SetIntent,
         SetPeerStreams, ClearPeerIntent, DropPeer, SetRoomConfig, Tick, Boundary,
         SenderRestart
<1> QED BY <1>1, <1>2, <1>3, <1>4, <1>5, PTL DEF Spec

--------------------------------------------------------------------------------
(* Restarts of the sender.                                                     *)

\* A bounded set of naturals has the maximum FiniteSetsExt chooses.
LEMMA MaxOfBounded ==
  ASSUME NEW n \in Nat, NEW T \in SUBSET (0 .. n), T # {}
  PROVE  Max(T) \in T /\ \A y \in T : Max(T) >= y
<1> DEFINE R == OpToRel(<, Nat)
           D == {n - y : y \in T}
<1>1. IsWellFoundedOn(R, Nat)
  BY NatLessThanWellFounded
<1>0. \A y \in T : y \in Nat /\ y <= n
  OBVIOUS
<1>2. D \subseteq Nat /\ D # {}
  <2>1. \A y \in T : n - y \in Nat
    BY <1>0
  <2> QED BY <2>1
<1>3. PICK d \in D : \A e \in D : ~(<<e, d>> \in R)
  <2> HIDE DEF R, D
  <2> QED BY <1>1, <1>2, WFMin
<1>4. \A e \in D : ~(e < d)
  BY <1>2, <1>3 DEF OpToRel
<1>5. \E x \in T : \A y \in T : x >= y
  <2>1. PICK x \in T : d = n - x
    OBVIOUS
  <2>2. ASSUME NEW y \in T PROVE x >= y
    <3>1. ~(n - y < n - x)
      BY <1>4, <2>1
    <3>2. x \in Nat /\ y \in Nat
      BY <1>0
    <3> HIDE DEF R, D
    <3> QED BY <3>1, <3>2
  <2> QED BY <2>2
<1> QED BY <1>5 DEF Max

LEMMA RoundType ==
  ASSUME NEW q \in Slot
  PROVE  RoundOf(q) \in 0 .. MaxSlot
<1>1. Frames \in Nat /\ Frames >= 1 /\ MaxSlot \in Nat /\ q \in Nat /\ q <= MaxSlot
  BY PlayoutAssumption DEF Slot
<1>2. q \div Frames \in Nat /\ q \div Frames <= q
  BY <1>1
<1> QED BY <1>1, <1>2 DEF RoundOf

\* What the buffers, the frame at hand and the cursor may hold.
BuffersInv ==
  /\ published \subseteq Stream
  /\ real \in [Stream -> SUBSET Slot] /\ plc \in [Stream -> SUBSET Slot]
  /\ hand # None => /\ hand.stream \in Stream /\ hand.slot \in Slot
                    /\ hand.conceal \subseteq Slot
  /\ playing \in Int

\* The rounds a stream may hold.
LEMMA HeldIsNat ==
  ASSUME BuffersInv
  PROVE  /\ \A s \in Stream : Held(s) \subseteq 0 .. MaxSlot
         /\ \A streams \in SUBSET Stream : Buffered(streams) \subseteq 0 .. MaxSlot
<1>1. \A s \in Stream : \A r \in Held(s) : r \in 0 .. MaxSlot
  BY RoundType DEF Held, BuffersInv
<1> QED BY <1>1 DEF Buffered

\* The round a boundary releases is the last one that is ready.
LEMMA LatestReady ==
  ASSUME BuffersInv, NEW streams \in SUBSET Stream, ReadyRounds(streams) # {}
  PROVE  /\ Max(ReadyRounds(streams)) \in ReadyRounds(streams)
         /\ Max(ReadyRounds(streams)) \in Int
         /\ \A r \in ReadyRounds(streams) : r <= Max(ReadyRounds(streams))
<1> DEFINE T == ReadyRounds(streams)
<1>1. T \in SUBSET (0 .. MaxSlot)
  BY HeldIsNat DEF ReadyRounds, Candidates, Above, Below
<1>2. MaxSlot \in Nat
  BY PlayoutAssumption
<1> HIDE DEF T
<1>3. T # {}
  BY DEF T
<1>4. Max(T) \in T /\ \A y \in T : Max(T) >= y
  BY <1>1, <1>2, <1>3, MaxOfBounded
<1>5. Max(T) \in Int /\ \A y \in T : y \in Int
  <2>1. \A y \in 0 .. MaxSlot : y \in Int
    OBVIOUS
  <2> QED BY <1>1, <1>4, <2>1
<1>6. \A y \in T : y <= Max(T)
  BY <1>4, <1>5
<1> QED BY <1>4, <1>5, <1>6 DEF T

LEMMA ReleasedIsCandidate ==
  ASSUME BuffersInv, NEW streams \in SUBSET Stream, ReadyRounds(streams) # {}
  PROVE  /\ Max(ReadyRounds(streams)) \in Candidates(streams)
         /\ Max(ReadyRounds(streams)) \in Int
BY LatestReady DEF ReadyRounds

\* What trimming leaves of a stream is at or above the released round and was not
\* skipped.
LEMMA TrimmedRounds ==
  ASSUME BuffersInv, NEW streams \in SUBSET Stream, NEW release,
         real' = Trim(real, streams, release), plc' = Trim(plc, streams, release),
         published' = streams, NEW r \in Buffered(published)'
  PROVE  r \in Buffered(streams) /\ r \notin Skipped(streams, release)
<1>1. PICK s \in streams : r \in Held(s)'
  BY DEF Buffered
<1>2. PICK q \in real'[s] \cup plc'[s] : r = RoundOf(q)
  BY <1>1 DEF Held
<1>3. /\ q \in real[s] \cup plc[s]
      /\ RoundOf(q) \notin Skipped(streams, release)
  BY <1>1, <1>2 DEF Trim, BuffersInv
<1> QED BY <1>1, <1>2, <1>3 DEF Buffered, Held

\* A boundary that moves the cursor down re-pins: no candidate was above the old
\* round, so everything above the new one is skipped and trimmed.
LEMMA RepinLeavesNothingAbove ==
  ASSUME BuffersInv, Boundary, playing' # NotYet, playing' < playing
  PROVE  \A r \in Buffered(published)' : ~(r > playing')
<1> DEFINE gone == {s \in published : Retires(s)}
           streams == published \ gone
           release == Max(ReadyRounds(streams))
<1>0. playing \in Int
  BY DEF BuffersInv
<1>1. localBoundary > lastLocalIdx
  <2>1. CASE ~(localBoundary > lastLocalIdx)
    BY <1>0, <2>1 DEF Boundary, rounds
  <2> QED BY <2>1
<1>2. /\ published' = streams
      /\ IF streams = {} THEN ForgetSender ELSE Release(streams, gone)
  BY <1>1 DEF Boundary
<1>3. streams # {}
  BY <1>2 DEF ForgetSender
<1>4. ReadyRounds(streams) # {}
  BY <1>0, <1>2, <1>3 DEF Release, rounds
<1>5. /\ playing' = release
      /\ real' = Trim(real, streams, release)
      /\ plc' = Trim(plc, streams, release)
  BY <1>2, <1>3, <1>4 DEF Release
<1>6. streams \in SUBSET Stream
  BY DEF BuffersInv
<1> HIDE DEF streams, gone
<1>7. release \in Candidates(streams) /\ release \in Int
  BY <1>4, <1>6, ReleasedIsCandidate
<1> HIDE DEF release
<1>8. Repin(streams)
  <2>1. CASE ~Repin(streams)
    <3>1. release > playing
      BY <1>7, <2>1 DEF Candidates, Above
    <3> QED BY <1>0, <1>5, <1>7, <3>1
  <2> QED BY <2>1
<1> SUFFICES ASSUME NEW r \in Buffered(published)', r > playing'
             PROVE  FALSE
  OBVIOUS
<1>9. r \in Buffered(streams) /\ r \notin Skipped(streams, release)
  BY <1>2, <1>5, <1>6, TrimmedRounds
<1>10. r \in Skipped(streams, release)
  BY <1>5, <1>8, <1>9 DEF Skipped
<1> QED BY <1>9, <1>10

LEMMA BuffersStep == BuffersInv /\ [Next]_vars => BuffersInv'
<1> SUFFICES ASSUME BuffersInv, [Next]_vars PROVE BuffersInv'
  OBVIOUS
<1> USE DEF BuffersInv, buffers, rounds, session
<1>1. ASSUME NEW s \in Stream, NEW q \in Slot, Lookup(s, q) PROVE BuffersInv'
  <2>1. hand' = [stream |-> s, slot |-> q, conceal |-> MissingSlots(s, q)]
    BY <1>1 DEF Lookup
  <2>2. MissingSlots(s, q) \subseteq Slot
    BY DEF MissingSlots
  <2> QED BY <1>1, <2>1, <2>2 DEF Lookup
<1>2. CASE DecodeFails
  BY <1>2 DEF DecodeFails
<1>3. ASSUME NEW got, Place(got) PROVE BuffersInv'
  <2>1. /\ hand' = None /\ playing' = playing /\ published' = published
        /\ hand.stream \in Stream /\ hand.slot \in Slot /\ got \subseteq Slot
    BY <1>3 DEF Place
  <2>2. CASE hand.stream \notin published
    BY <1>3, <2>1, <2>2 DEF Place
  <2>3. CASE hand.stream \in published
    <3> DEFINE fills == {p \in got : OnFrame(RoundOf(p)) # "tooLate"}
               adds == IF OnFrame(RoundOf(hand.slot)) # "tooLate" THEN {hand.slot} ELSE {}
               s == hand.stream
    <3>1. /\ real' = [real EXCEPT ![s] = @ \cup adds]
          /\ plc' = [plc EXCEPT ![s] = (@ \cup (fills \ real[s])) \ adds]
      BY <1>3, <2>3 DEF Place
    <3>2. adds \subseteq Slot /\ fills \subseteq Slot
      BY <2>1
    <3> HIDE DEF adds, fills
    <3> QED BY <2>1, <3>1, <3>2
  <2> QED BY <2>2, <2>3
<1>4. ASSUME NEW news, SetIntent(news) PROVE BuffersInv'
  BY <1>4 DEF SetIntent
<1>5. ASSUME NEW l \in Lengths, SetRoomConfig(l) PROVE BuffersInv'
  BY <1>5 DEF SetRoomConfig
<1>6. ASSUME NEW d \in 1 .. MaxStall, Tick(d) PROVE BuffersInv'
  BY <1>6 DEF Tick
<1>7. CASE Boundary
  <2>1. hand' = hand
    BY <1>7 DEF Boundary
  <2>2. CASE ~(localBoundary > lastLocalIdx)
    BY <1>7, <2>1, <2>2 DEF Boundary
  <2>3. CASE localBoundary > lastLocalIdx
    <3> DEFINE gone == {s \in published : Retires(s)}
               streams == published \ gone
    <3>1. /\ published' = streams
          /\ IF streams = {} THEN ForgetSender ELSE Release(streams, gone)
      BY <1>7, <2>3 DEF Boundary
    <3>2. streams \in SUBSET Stream
      OBVIOUS
    <3> HIDE DEF streams, gone
    <3>3. CASE streams = {}
      BY <2>1, <3>1, <3>2, <3>3 DEF ForgetSender, NotYet
    <3>4. CASE streams # {} /\ ReadyRounds(streams) = {}
      BY <2>1, <3>1, <3>2, <3>4 DEF Release, Forget
    <3>5. CASE streams # {} /\ ReadyRounds(streams) # {}
      <4>1. /\ playing' = Max(ReadyRounds(streams))
            /\ real' = Trim(real, streams, Max(ReadyRounds(streams)))
            /\ plc' = Trim(plc, streams, Max(ReadyRounds(streams)))
        BY <3>1, <3>5 DEF Release
      <4>2. playing' \in Int
        BY <3>2, <3>5, <4>1, ReleasedIsCandidate
      <4>3. \A release : /\ Trim(real, streams, release) \in [Stream -> SUBSET Slot]
                         /\ Trim(plc, streams, release) \in [Stream -> SUBSET Slot]
        BY DEF Trim
      <4> QED BY <2>1, <3>1, <3>2, <4>1, <4>2, <4>3
    <3> QED BY <3>3, <3>4, <3>5
  <2> QED BY <2>2, <2>3
<1>8. CASE SenderRestart
  BY <1>8 DEF SenderRestart
<1>9. CASE UNCHANGED vars
  BY <1>9 DEF vars
<1> QED
  BY <1>1, <1>2, <1>3, <1>4, <1>5, <1>6, <1>7, <1>8, <1>9
  DEF Next, Session, EmitLoop, SetPeerStreams, ClearPeerIntent, DropPeer

\* Only a boundary moves the cursor.
LEMMA OnlyBoundaryMoves == [Next]_vars /\ playing' # playing => Boundary
BY DEF Next, vars, Session, EmitLoop, Lookup, DecodeFails, Place, SetIntent, rounds,
       SetPeerStreams, ClearPeerIntent, DropPeer, SetRoomConfig, Tick, SenderRestart

\* A re-pin to the rounds of a restarted sender is final: whatever the dead run had
\* buffered above them, on whichever streams, is gone with the boundary that re-pins.
THEOREM DeadRunIsGone == Spec => DeadRunStaysDead
<1>1. Init => BuffersInv
  BY DEF Init, BuffersInv, NotYet
<1>2. BuffersInv /\ [Next]_vars => BuffersInv'
  BY BuffersStep
<1>3. BuffersInv /\ [Next]_vars
        => [pc = "boundary" /\ playing' # NotYet /\ playing' < playing
              => \A r \in Buffered(published)' : r > playing' => r \notin old]_vars
  <2> SUFFICES ASSUME BuffersInv, [Next]_vars, playing' # NotYet, playing' < playing
               PROVE  \A r \in Buffered(published)' : ~(r > playing')
    OBVIOUS
  <2>1. playing' # playing
    BY DEF BuffersInv
  <2>2. Boundary
    BY <2>1, OnlyBoundaryMoves
  <2> QED BY <2>2, RepinLeavesNothingAbove
<1> QED BY <1>1, <1>2, <1>3, PTL DEF Spec, DeadRunStaysDead

--------------------------------------------------------------------------------
(* The emit loop's clock.                                                      *)

\* The indices are integers, and a tick that opens a boundary has it served before
\* the next.
ClockInv ==
  /\ published \subseteq Stream
  /\ wall \in Nat /\ index \in Int /\ localBoundary \in Int
  /\ lastLocalIdx \in Int /\ lastLocalIdx >= -1
  /\ quiet \in [Stream -> Int]
  /\ pc \in {"tick", "boundary"}
  /\ pc = "tick" => localBoundary <= lastLocalIdx

LEMMA MaxGraceBounds ==
  /\ MaxGrace \in Int
  /\ DroppedGrace \in Int /\ DroppedGrace <= MaxGrace
  /\ GoneGrace \in Int /\ GoneGrace <= MaxGrace
<1> DEFINE n == DroppedGrace + GoneGrace + 2
           T == {DroppedGrace, GoneGrace, 2}
<1>1. DroppedGrace \in Nat /\ GoneGrace \in Nat
  BY PlayoutAssumption
<1>2. n \in Nat /\ T \in SUBSET (0 .. n) /\ T # {}
  BY <1>1
<1>3. Max(T) \in T /\ \A y \in T : Max(T) >= y
  <2> HIDE DEF n, T
  <2> QED BY <1>2, MaxOfBounded
<1>4. MaxGrace = Max(T)
  BY DEF MaxGrace
<1>5. MaxGrace \in Int /\ MaxGrace >= DroppedGrace /\ MaxGrace >= GoneGrace
  <2>1. \A y \in T : y \in Int
    BY <1>1
  <2>2. DroppedGrace \in T /\ GoneGrace \in T
    OBVIOUS
  <2> HIDE DEF T
  <2> QED BY <1>3, <1>4, <2>1, <2>2
<1> QED BY <1>1, <1>5

LEMMA MinOfTwo ==
  ASSUME NEW x \in Int, NEW y \in Int
  PROVE  /\ Min({x, y}) \in Int
         /\ Min({x, y}) \in {x, y} /\ Min({x, y}) <= y
<1>1. \E z \in {x, y} : \A w \in {x, y} : z <= w
  BY x <= y \/ y <= x
<1>2. Min({x, y}) \in {x, y} /\ \A w \in {x, y} : Min({x, y}) <= w
  BY <1>1 DEF Min
<1> QED BY <1>2

LEMMA ClockStep == ClockInv /\ [Next]_vars => ClockInv'
<1> SUFFICES ASSUME ClockInv, [Next]_vars PROVE ClockInv'
  OBVIOUS
<1> USE DEF ClockInv, clock, session
<1>1. ASSUME NEW s \in Stream, NEW q \in Slot, Lookup(s, q) PROVE ClockInv'
  BY <1>1 DEF Lookup
<1>2. CASE DecodeFails
  BY <1>2 DEF DecodeFails
<1>3. ASSUME NEW got, Place(got) PROVE ClockInv'
  BY <1>3 DEF Place
<1>4. ASSUME NEW news, SetIntent(news) PROVE ClockInv'
  BY <1>4 DEF SetIntent
<1>5. ASSUME NEW l \in Lengths, SetRoomConfig(l) PROVE ClockInv'
  <2>1. index \div 2 \in Int /\ 2 * index \in Int
    OBVIOUS
  <2> QED BY <1>5, <2>1 DEF SetRoomConfig
<1>6. ASSUME NEW d \in 1 .. MaxStall, Tick(d) PROVE ClockInv'
  <2> DEFINE entered == (wall + d) \div 2 - wall \div 2
  <2>1. d \in Nat
    BY PlayoutAssumption
  <2>2. wall + d \in Nat /\ entered \in Int
    BY <2>1
  <2>3. /\ wall' = wall + d /\ index' = index + entered
        /\ localBoundary' = index + entered /\ pc' = "boundary"
        /\ quiet' = [s \in Stream |-> Min({quiet[s] + entered, MaxGrace})]
        /\ UNCHANGED <<published, lastLocalIdx>>
    BY <1>6 DEF Tick
  <2> HIDE DEF entered
  <2>4. ASSUME NEW s \in Stream PROVE Min({quiet[s] + entered, MaxGrace}) \in Int
    <3>1. quiet[s] + entered \in Int /\ MaxGrace \in Int
      BY <2>2, MaxGraceBounds
    <3> QED BY <3>1, MinOfTwo
  <2> QED BY <2>2, <2>3, <2>4
<1>7. CASE Boundary
  BY <1>7 DEF Boundary
<1>8. CASE SenderRestart
  BY <1>8 DEF SenderRestart
<1>9. CASE UNCHANGED vars
  BY <1>9 DEF vars
<1> QED
  BY <1>1, <1>2, <1>3, <1>4, <1>5, <1>6, <1>7, <1>8, <1>9
  DEF Next, Session, EmitLoop, SetPeerStreams, ClearPeerIntent, DropPeer

--------------------------------------------------------------------------------
(* The pre-rolled reader.                                                      *)

\* What makeNext prepared is stamped for the interval after the one its
\* predecessor was made for.
Anchored(c, n) ==
  \A s \in Stream :
    /\ c[s] # None => c[s].made \in Nat
    /\ n[s] # None => c[s] # None /\ n[s].base = c[s].made + 1

LEMMA TopUpAnchors ==
  ASSUME NEW c, NEW n, Anchored(c, n)
  PROVE  Anchored(c, TopUp(c, n))
<1> SUFFICES ASSUME NEW s \in Stream, TopUp(c, n)[s] # None
             PROVE  c[s] # None /\ TopUp(c, n)[s].base = c[s].made + 1
  BY DEF Anchored
<1>1. CASE c[s] # None /\ n[s] = None /\ AtEnd(c[s])
  <2>1. TopUp(c, n)[s] = [round |-> c[s].round + 1, base |-> c[s].made + 1]
    BY <1>1 DEF TopUp
  <2> QED BY <1>1, <2>1
<1>2. CASE ~(c[s] # None /\ n[s] = None /\ AtEnd(c[s]))
  <2>1. TopUp(c, n)[s] = n[s]
    BY <1>2 DEF TopUp
  <2> QED BY <2>1 DEF Anchored
<1> QED BY <1>1, <1>2

\* However a boundary leaves the readers, it tops them up last.
LEMMA BoundaryAnchors ==
  ASSUME Anchored(cur, next), ClockInv, Boundary
  PROVE  Anchored(cur, next)'
<1>1. \E c, n : Anchored(c, n) /\ cur' = c /\ next' = TopUp(c, n)
  <2>1. ASSUME NEW c, NEW n, Anchored(c, n), Readers(c, n)
        PROVE  \E d, m : Anchored(d, m) /\ cur' = d /\ next' = TopUp(d, m)
    BY <2>1 DEF Readers
  <2>2. /\ Anchored(NoReader, NoReader)
        /\ localBoundary > lastLocalIdx =>
             \A streams, release : Anchored(Install(streams, release), NoReader)
    BY DEF Anchored, NoReader, Install, ClockInv
  <2>3. \A gone : Anchored([s \in Stream |-> IF s \in gone THEN None ELSE cur[s]],
                           [s \in Stream |-> IF s \in gone THEN None ELSE next[s]])
    BY DEF Anchored
  <2>4. CASE localBoundary > lastLocalIdx
    <3> DEFINE gone == {s \in published : Retires(s)}
               streams == published \ gone
    <3>1. IF streams = {} THEN ForgetSender ELSE Release(streams, gone)
      BY <2>4 DEF Boundary
    <3> HIDE DEF gone, streams
    <3>2. CASE streams = {}
      BY <2>1, <2>2, <3>1, <3>2 DEF ForgetSender
    <3>3. CASE streams # {} /\ ReadyRounds(streams) = {}
      <4>1. Readers([s \in Stream |-> IF s \in gone THEN None ELSE cur[s]],
                    [s \in Stream |-> IF s \in gone THEN None ELSE next[s]])
        BY <3>1, <3>3 DEF Release
      <4> QED BY <2>1, <2>3, <4>1
    <3>4. CASE streams # {} /\ ReadyRounds(streams) # {}
      <4>1. \E release : Readers(Install(streams, release), NoReader)
        BY <3>1, <3>4 DEF Release
      <4> QED BY <2>1, <2>2, <2>4, <4>1
    <3> QED BY <3>2, <3>3, <3>4
  <2>5. CASE ~(localBoundary > lastLocalIdx)
    BY <2>1, <2>5 DEF Boundary
  <2> QED BY <2>4, <2>5
<1>2. PICK c, n : Anchored(c, n) /\ cur' = c /\ next' = TopUp(c, n)
  BY <1>1
<1>3. Anchored(c, TopUp(c, n))
  BY <1>2, TopUpAnchors
<1> QED BY <1>2, <1>3 DEF Anchored

\* Only a boundary writes the readers.
LEMMA OnlyBoundaryWritesReaders == [Next]_vars /\ ~Boundary => UNCHANGED readers
BY DEF Next, vars, Session, EmitLoop, Lookup, DecodeFails, Place, SetIntent, readers,
       SetPeerStreams, ClearPeerIntent, DropPeer, SetRoomConfig, Tick, SenderRestart

LEMMA AnchoredStep ==
  Anchored(cur, next) /\ ClockInv /\ [Next]_vars => Anchored(cur, next)'
<1> SUFFICES ASSUME Anchored(cur, next), ClockInv, [Next]_vars PROVE Anchored(cur, next)'
  OBVIOUS
<1>1. CASE Boundary
  BY <1>1, BoundaryAnchors
<1>2. CASE ~Boundary
  BY <1>2, OnlyBoundaryWritesReaders DEF readers, Anchored
<1> QED BY <1>1, <1>2

\* While every boundary releases a round, what plays is stamped for the interval
\* that begins: a promoted reader was prepared one interval before, at whose end
\* its predecessor ends, and any other is stamped for this boundary.
THEOREM RoundsAreOnTime == Spec => SteadyRoundsAreOnTime
<1>1. Init => Anchored(cur, next) /\ ClockInv
  BY DEF Init, Anchored, ClockInv
<1>2. Anchored(cur, next) /\ ClockInv /\ [Next]_vars => Anchored(cur, next)'
  BY AnchoredStep
<1>3. ClockInv /\ [Next]_vars => ClockInv'
  BY ClockStep
<1>4. Anchored(cur, next) /\ ClockInv /\ [Next]_vars
        => [\A s \in published :
              pc = "boundary" /\ cur[s] # None /\ cur[s].made = localBoundary - 1
                /\ cur'[s] # None /\ cur'[s].made = localBoundary
                /\ cur[s].made < cur'[s].made
                  => cur'[s].base = localBoundary]_vars
  <2> SUFFICES ASSUME Anchored(cur, next), ClockInv, published \subseteq Stream,
                      [Next]_vars, NEW s \in published,
                      cur[s].made = localBoundary - 1,
                      cur'[s] # None, cur'[s].made = localBoundary
               PROVE  cur'[s].base = localBoundary
    BY DEF ClockInv
  <2>1. localBoundary \in Int
    BY DEF ClockInv
  <2>2. cur' # cur
    BY <2>1
  <2>3. Boundary
    BY <2>2, OnlyBoundaryWritesReaders DEF readers
  <2>4. localBoundary > lastLocalIdx
    BY <2>2, <2>3 DEF Boundary, Readers
  <2> DEFINE gone == {t \in published : Retires(t)}
             streams == published \ gone
  <2>5. IF streams = {} THEN ForgetSender ELSE Release(streams, gone)
    BY <2>3, <2>4 DEF Boundary
  <2> HIDE DEF gone, streams
  <2>6. streams # {}
    BY <2>5 DEF ForgetSender, Readers, NoReader
  <2>7. ReadyRounds(streams) # {}
    <3> SUFFICES ASSUME ReadyRounds(streams) = {} PROVE FALSE
      OBVIOUS
    <3>1. cur' = [t \in Stream |-> IF t \in gone THEN None ELSE cur[t]]
      BY <2>5, <2>6 DEF Release, Readers
    <3>2. cur'[s] = cur[s]
      BY <3>1
    <3> QED BY <2>1, <3>2
  <2>8. PICK release : cur' = Install(streams, release)
    BY <2>5, <2>6, <2>7 DEF Release, Readers
  <2>9. cur'[s].base = IF next[s] # None /\ next[s].round = release
                       THEN next[s].base ELSE localBoundary
    BY <2>8 DEF Install
  <2>10. next[s] # None => next[s].base = (localBoundary - 1) + 1
    BY DEF Anchored
  <2> QED BY <2>1, <2>9, <2>10
<1> QED BY <1>1, <1>2, <1>3, <1>4, PTL DEF Spec, SteadyRoundsAreOnTime

--------------------------------------------------------------------------------
(* What is buffered, and since when.                                           *)

\* The tick under way opens a boundary that is not served yet.
Pending == pc = "boundary" /\ localBoundary > lastLocalIdx

\* What is buffered belongs to published streams; a round that is not playing has
\* a date and is above the cursor, or of a run that started again.
KeptInv ==
  /\ \A s \in Stream \ published : Held(s) = {}
  /\ \A r \in Buffered(published) :
       r = playing \/ (r \in DOMAIN firstSeen /\ (r > playing \/ r <= playing - RestartGap))

\* Only what began since the tick is dated by a boundary that was not served.
DatesInv ==
  /\ justBegan \subseteq Int
  /\ \A r \in DOMAIN firstSeen :
       /\ firstSeen[r] \in Int
       /\ \/ firstSeen[r] <= lastLocalIdx
          \/ Pending /\ r \in justBegan /\ firstSeen[r] = localBoundary

\* NothingWaitsTwice without its guard.
Settled ==
  \A r \in Buffered(published) \ justBegan :
    \/ r = playing
    \/ r < playing /\ \E n \in Buffered(published) \cap justBegan : n > playing

\* Until the next boundary is due, nothing has waited for two.
WaitsInv == ~Pending => Settled

\* The dispositions of OnFrame.
LEMMA Dispositions ==
  ASSUME NEW r \in Int, playing \in Int
  PROVE  /\ OnFrame(r) = "buffer" => r > playing \/ r <= playing - RestartGap
         /\ OnFrame(r) # "tooLate" => OnFrame(r) = "buffer" \/ r = playing
<1>1. RestartGap \in Nat /\ RestartGap >= 1
  BY PlayoutAssumption
<1>2. CASE r > playing
  BY <1>2, Zenon DEF OnFrame
<1>3. CASE r = playing
  <2>1. ~(r > playing) /\ ~(r <= playing - RestartGap)
    BY <1>1, <1>3
  <2>2. OnFrame(r) = "liveAppend"
    BY <1>3, <2>1, Zenon DEF OnFrame
  <2> QED BY <1>3, <2>2
<1>4. CASE r <= playing - RestartGap
  <2>1. ~(r > playing) /\ ~(r = playing)
    BY <1>1, <1>4
  <2>2. OnFrame(r) = "buffer"
    BY <1>4, <2>1, Zenon DEF OnFrame
  <2> QED BY <1>4, <2>2
<1>5. CASE ~(r > playing) /\ ~(r = playing) /\ ~(r <= playing - RestartGap)
  <2>1. OnFrame(r) = "tooLate"
    BY <1>5, Zenon DEF OnFrame
  <2> QED BY <2>1
<1> QED BY <1>2, <1>3, <1>4, <1>5

\* A frame placed on a published stream adds its round and those of the concealed
\* slots, each buffered and dated, or belonging to the round that plays.
LEMMA PlaceFacts ==
  ASSUME BuffersInv, NEW got, Place(got), hand.stream \in published
  PROVE  \E new \in SUBSET Nat :
           /\ firstSeen' = [r \in DOMAIN firstSeen \cup new |->
                             IF r \in DOMAIN firstSeen THEN firstSeen[r] ELSE localBoundary]
           /\ justBegan' = justBegan \cup (new \ Buffered(published))
           /\ Buffered(published) \subseteq Buffered(published)'
           /\ new \subseteq Buffered(published)'
           /\ Buffered(published)' \subseteq Buffered(published) \cup new \cup {playing}
           /\ \A r \in new : r > playing \/ r <= playing - RestartGap
           /\ \A s \in Stream \ {hand.stream} : Held(s)' = Held(s)
<1> DEFINE s == hand.stream
           q == hand.slot
           fills == {p \in got : OnFrame(RoundOf(p)) # "tooLate"}
           adds == IF OnFrame(RoundOf(q)) # "tooLate" THEN {q} ELSE {}
           new == {RoundOf(x) : x \in {y \in fills \cup adds : OnFrame(RoundOf(y)) = "buffer"}}
<1>1. /\ firstSeen' = [r \in DOMAIN firstSeen \cup new |->
                        IF r \in DOMAIN firstSeen THEN firstSeen[r] ELSE localBoundary]
      /\ real' = [real EXCEPT ![s] = @ \cup adds]
      /\ plc' = [plc EXCEPT ![s] = (@ \cup (fills \ real[s])) \ adds]
      /\ justBegan' = justBegan \cup (new \ Buffered(published))
      /\ UNCHANGED <<published, playing>>
  BY DEF Place, NoteFirstSeen
<1>2. /\ s \in Stream /\ s \in published /\ q \in Slot /\ got \subseteq Slot
      /\ playing \in Int
  BY DEF Place, BuffersInv
<1>3. adds \subseteq Slot /\ fills \subseteq Slot
  BY <1>2
<1>4. \A y \in fills \cup adds :
        /\ RoundOf(y) \in Nat
        /\ OnFrame(RoundOf(y)) = "buffer" \/ RoundOf(y) = playing
  <2>1. \A y \in Slot : RoundOf(y) \in Nat
    BY RoundType
  <2>2. \A r \in Nat : OnFrame(r) # "tooLate" => OnFrame(r) = "buffer" \/ r = playing
    BY <1>2, Dispositions
  <2>3. \A y \in fills \cup adds : OnFrame(RoundOf(y)) # "tooLate"
    OBVIOUS
  <2> HIDE DEF fills, adds
  <2> QED BY <1>3, <2>1, <2>2, <2>3
<1>5. new \in SUBSET Nat
  <2> HIDE DEF fills, adds
  <2> QED BY <1>4
<1>6. \A r \in new : r > playing \/ r <= playing - RestartGap
  <2>1. \A r \in new : OnFrame(r) = "buffer"
    OBVIOUS
  <2>2. \A r \in Nat : OnFrame(r) = "buffer" => r > playing \/ r <= playing - RestartGap
    BY <1>2, Dispositions
  <2> HIDE DEF new
  <2> QED BY <1>5, <2>1, <2>2
<1>7. \A y \in fills \cup adds : RoundOf(y) \in new \/ RoundOf(y) = playing
  <2> HIDE DEF fills, adds
  <2> QED BY <1>4
<1>8. new \subseteq {RoundOf(y) : y \in fills \cup adds}
  <2> HIDE DEF fills, adds
  <2> QED OBVIOUS
<1> HIDE DEF new, fills, adds
<1>9. /\ real'[s] \cup plc'[s] = real[s] \cup plc[s] \cup fills \cup adds
      /\ \A t \in Stream \ {s} : real'[t] = real[t] /\ plc'[t] = plc[t]
  BY <1>1, <1>2 DEF BuffersInv
<1>10. \A t \in Stream :
         Held(t)' = IF t = s THEN Held(t) \cup {RoundOf(y) : y \in fills \cup adds}
                    ELSE Held(t)
  <2>1. \A t \in Stream : Held(t)' = {RoundOf(x) : x \in real'[t] \cup plc'[t]}
    BY DEF Held, RoundOf
  <2> QED BY <1>9, <2>1 DEF Held
<1>11. \A t \in Stream \ {s} : Held(t)' = Held(t)
  BY <1>10
<1>12. Buffered(published)' = Buffered(published) \cup {RoundOf(y) : y \in fills \cup adds}
  <2>1. published \subseteq Stream /\ published' = published
    BY <1>1 DEF BuffersInv
  <2>2. Buffered(published)' = UNION {Held(t)' : t \in published}
    BY <2>1 DEF Buffered
  <2> QED BY <1>2, <1>10, <2>1, <2>2 DEF Buffered
<1>13. {RoundOf(y) : y \in fills \cup adds} \subseteq new \cup {playing}
  BY <1>7
<1> QED BY <1>1, <1>5, <1>6, <1>8, <1>11, <1>12, <1>13

\* What a boundary does to the cursor, the dates and the buffers.
Retiring == {s \in published : Retires(s)}
Staying == published \ Retiring

\* It is no later one than the last: nothing.
Idles ==
  /\ localBoundary <= lastLocalIdx
  /\ UNCHANGED <<published, real, plc, playing, firstSeen, lastLocalIdx>>

\* The last stream retires, and with it the sender.
Forgets ==
  /\ Pending /\ lastLocalIdx' = localBoundary
  /\ Staying = {} /\ published' = {}
  /\ playing' = NotYet /\ DOMAIN firstSeen' = {}
  /\ \A s \in Stream : Held(s)' = {}

\* Nothing is ready.
Keeps ==
  /\ Pending /\ lastLocalIdx' = localBoundary
  /\ published' = Staying /\ Staying # {} /\ ReadyRounds(Staying) = {}
  /\ UNCHANGED <<playing, firstSeen>>
  /\ \A s \in Stream : Held(s)' = IF s \in Retiring THEN {} ELSE Held(s)

\* A round is released.
Releases(release) ==
  /\ Pending /\ lastLocalIdx' = localBoundary
  /\ published' = Staying /\ Staying # {}
  /\ release \in ReadyRounds(Staying) /\ release \in Int
  /\ \A r \in ReadyRounds(Staying) : r <= release
  /\ playing' = release
  /\ firstSeen' = [r \in {d \in DOMAIN firstSeen :
                            d > release /\ d \notin Skipped(Staying, release)}
                     |-> firstSeen[r]]
  /\ \A s \in Stream :
       Held(s)' = IF s \in Staying
                  THEN {r \in Held(s) : r >= release /\ r \notin Skipped(Staying, release)}
                  ELSE {}

LEMMA BoundaryOutcomes ==
  ASSUME BuffersInv, ClockInv, Boundary
  PROVE  /\ pc = "boundary" /\ pc' = "tick"
         /\ UNCHANGED <<localBoundary, justBegan>>
         /\ \/ Idles \/ Forgets \/ Keeps
            \/ \E release : Releases(release)
<1>0. /\ pc = "boundary" /\ pc' = "tick"
      /\ UNCHANGED <<localBoundary, justBegan>>
  BY DEF Boundary
<1>1. localBoundary \in Int /\ lastLocalIdx \in Int
  BY DEF ClockInv
<1>2. CASE ~(localBoundary > lastLocalIdx)
  BY <1>0, <1>1, <1>2 DEF Boundary, Idles, buffers, rounds
<1>3. CASE localBoundary > lastLocalIdx
  <2>1. /\ Pending /\ lastLocalIdx' = localBoundary
        /\ published' = Staying
        /\ IF Staying = {} THEN ForgetSender ELSE Release(Staying, Retiring)
    BY <1>0, <1>3 DEF Boundary, Pending, Staying, Retiring
  <2>2. Staying \in SUBSET Stream /\ Retiring \subseteq Stream
    BY DEF Staying, Retiring, BuffersInv
  <2>3. CASE Staying = {}
    <3>1. /\ playing' = NotYet /\ firstSeen' = [r \in {} |-> 0]
          /\ real' = [s \in Stream |-> {}] /\ plc' = [s \in Stream |-> {}]
      BY <2>1, <2>3 DEF ForgetSender
    <3>2. \A s \in Stream : Held(s)' = {}
      BY <3>1 DEF Held
    <3>3. DOMAIN firstSeen' = {}
      BY <3>1
    <3> QED BY <1>0, <2>1, <2>3, <3>1, <3>2, <3>3 DEF Forgets
  <2>4. CASE Staying # {} /\ ReadyRounds(Staying) = {}
    <3>1. /\ real' = Forget(Retiring, real) /\ plc' = Forget(Retiring, plc)
          /\ UNCHANGED <<playing, firstSeen>>
      BY <2>1, <2>4 DEF Release, rounds
    <3>2. \A s \in Stream : Held(s)' = IF s \in Retiring THEN {} ELSE Held(s)
      BY <3>1 DEF Held, Forget
    <3> QED BY <1>0, <2>1, <2>4, <3>1, <3>2 DEF Keeps
  <2>5. CASE Staying # {} /\ ReadyRounds(Staying) # {}
    <3> DEFINE release == Max(ReadyRounds(Staying))
    <3>1. /\ playing' = release
          /\ firstSeen' = Restrict(firstSeen, {r \in DOMAIN firstSeen :
                            r > release /\ r \notin Skipped(Staying, release)})
          /\ real' = Trim(real, Staying, release)
          /\ plc' = Trim(plc, Staying, release)
      BY <2>1, <2>5 DEF Release
    <3>2. /\ release \in ReadyRounds(Staying) /\ release \in Int
          /\ \A r \in ReadyRounds(Staying) : r <= release
      BY <2>2, <2>5, LatestReady
    <3> HIDE DEF release
    <3>3. ASSUME NEW s \in Stream
          PROVE  Held(s)' = IF s \in Staying
                            THEN {r \in Held(s) : r >= release
                                                  /\ r \notin Skipped(Staying, release)}
                            ELSE {}
      <4>1. CASE s \notin Staying
        <5>1. real'[s] = {} /\ plc'[s] = {}
          BY <3>1, <4>1 DEF Trim
        <5> QED BY <4>1, <5>1 DEF Held
      <4>2. CASE s \in Staying
        <5>1. \A x : x \in real'[s] \cup plc'[s] <=>
                       /\ x \in real[s] \cup plc[s]
                       /\ RoundOf(x) >= release
                       /\ RoundOf(x) \notin Skipped(Staying, release)
          BY <3>1, <4>2 DEF Trim
        <5>2. Held(s)' = {RoundOf(x) : x \in real'[s] \cup plc'[s]}
          BY DEF Held, RoundOf
        <5> QED BY <4>2, <5>1, <5>2 DEF Held
      <4> QED BY <4>1, <4>2
    <3>4. Releases(release)
      BY <2>1, <2>5, <3>1, <3>2, <3>3 DEF Releases, Restrict
    <3> QED BY <1>0, <3>4
  <2> QED BY <2>3, <2>4, <2>5
<1> QED BY <1>2, <1>3

RoundsInv == KeptInv /\ DatesInv /\ WaitsInv

\* A step that leaves the buffers, the dates and the boundary alone.
LEMMA NothingMoves ==
  ASSUME BuffersInv, RoundsInv, published \subseteq published',
         \A s \in Stream : Held(s)' = Held(s), published' \subseteq Stream,
         UNCHANGED <<playing, firstSeen, justBegan, lastLocalIdx, localBoundary, pc>>
  PROVE  RoundsInv' /\ Buffered(published)' = Buffered(published)
<1>1. Buffered(published)' = Buffered(published)
  <2>1. Buffered(published)' = UNION {Held(s) : s \in published'}
    BY DEF Buffered
  <2>2. \A s \in published' \ published : Held(s) = {}
    BY DEF RoundsInv, KeptInv
  <2>3. \A s \in published' : s \notin published => Held(s) = {}
    BY <2>2
  <2> QED BY <2>1, <2>3 DEF Buffered
<1>2. Pending' = Pending
  BY DEF Pending
<1>3. KeptInv'
  <2>1. \A s \in Stream \ published' : Held(s)' = {}
    BY DEF RoundsInv, KeptInv
  <2> QED BY <1>1, <2>1 DEF RoundsInv, KeptInv
<1>4. DatesInv'
  BY <1>2 DEF RoundsInv, DatesInv
<1>5. WaitsInv'
  BY <1>1, <1>2 DEF RoundsInv, WaitsInv, Settled
<1> QED BY <1>1, <1>3, <1>4, <1>5 DEF RoundsInv

LEMMA OthersLeaveRounds ==
  ASSUME BuffersInv, RoundsInv, [Next]_vars, ~Boundary,
         \A d \in 1 .. MaxStall : ~Tick(d),
         \A got : Place(got) => hand.stream \notin published
  PROVE  /\ published \subseteq published' /\ published' \subseteq Stream
         /\ \A s \in Stream : Held(s)' = Held(s)
         /\ UNCHANGED <<playing, firstSeen, justBegan, lastLocalIdx, localBoundary, pc>>
<1> USE DEF buffers, rounds, clock, BuffersInv
<1> SUFFICES /\ published \subseteq published' /\ published' \subseteq Stream
             /\ UNCHANGED <<real, plc, playing, firstSeen, justBegan, lastLocalIdx,
                            localBoundary, pc>>
  BY DEF Held, RoundOf
<1>1. ASSUME NEW s \in Stream, NEW q \in Slot, Lookup(s, q)
      PROVE  /\ published \subseteq published' /\ published' \subseteq Stream
             /\ UNCHANGED <<real, plc, playing, firstSeen, justBegan, lastLocalIdx,
                            localBoundary, pc>>
  BY <1>1 DEF Lookup
<1>2. CASE DecodeFails
  BY <1>2 DEF DecodeFails
<1>3. ASSUME NEW got, Place(got)
      PROVE  UNCHANGED <<published, real, plc, playing, firstSeen, justBegan,
                         lastLocalIdx, localBoundary, pc>>
  BY <1>3 DEF Place
<1>4. ASSUME NEW news, SetIntent(news)
      PROVE  UNCHANGED <<published, real, plc, playing, firstSeen, justBegan,
                         lastLocalIdx, localBoundary, pc>>
  BY <1>4 DEF SetIntent
<1>5. ASSUME NEW l \in Lengths, SetRoomConfig(l)
      PROVE  UNCHANGED <<published, real, plc, playing, firstSeen, justBegan,
                         lastLocalIdx, localBoundary, pc>>
  BY <1>5 DEF SetRoomConfig
<1>8. CASE SenderRestart
  BY <1>8 DEF SenderRestart
<1>9. CASE UNCHANGED vars
  BY <1>9 DEF vars
<1> QED
  BY <1>1, <1>2, <1>3, <1>4, <1>5, <1>8, <1>9
  DEF Next, Session, EmitLoop, SetPeerStreams, ClearPeerIntent, DropPeer

\* A new round is dated by the tick under way.
LEMMA PlaceRounds ==
  ASSUME BuffersInv, ClockInv, RoundsInv, NEW got, Place(got), hand.stream \in published
  PROVE  RoundsInv'
<1>1. PICK new \in SUBSET Nat :
        /\ firstSeen' = [r \in DOMAIN firstSeen \cup new |->
                          IF r \in DOMAIN firstSeen THEN firstSeen[r] ELSE localBoundary]
        /\ justBegan' = justBegan \cup (new \ Buffered(published))
        /\ Buffered(published) \subseteq Buffered(published)'
        /\ new \subseteq Buffered(published)'
        /\ Buffered(published)' \subseteq Buffered(published) \cup new \cup {playing}
        /\ \A r \in new : r > playing \/ r <= playing - RestartGap
        /\ \A s \in Stream \ {hand.stream} : Held(s)' = Held(s)
  BY PlaceFacts
<1>2. UNCHANGED <<published, playing, pc, localBoundary, lastLocalIdx>>
  BY DEF Place, clock
<1>3. Pending' = Pending
  BY <1>2 DEF Pending
<1>4. KeptInv'
  <2>1. \A s \in Stream \ published' : Held(s)' = {}
    BY <1>1, <1>2 DEF RoundsInv, KeptInv
  <2>2. ASSUME NEW r \in Buffered(published)', r # playing
        PROVE  r \in DOMAIN firstSeen' /\ (r > playing \/ r <= playing - RestartGap)
    <3>1. r \in Buffered(published) \/ r \in new
      BY <1>1, <2>2
    <3>2. DOMAIN firstSeen' = DOMAIN firstSeen \cup new
      BY <1>1
    <3>3. CASE r \in Buffered(published)
      BY <2>2, <3>2, <3>3 DEF RoundsInv, KeptInv
    <3>4. CASE r \in new
      BY <1>1, <3>2, <3>4
    <3> QED BY <3>1, <3>3, <3>4
  <2> QED BY <1>2, <2>1, <2>2 DEF KeptInv
<1>5. DatesInv'
  <2>1. justBegan' \subseteq Int
    <3>1. \A r \in new : r \in Int
      OBVIOUS
    <3>2. justBegan' \subseteq justBegan \cup new
      BY <1>1
    <3> QED BY <3>1, <3>2 DEF RoundsInv, DatesInv
  <2>2. ASSUME NEW r \in DOMAIN firstSeen'
        PROVE  /\ firstSeen'[r] \in Int
               /\ \/ firstSeen'[r] <= lastLocalIdx
                  \/ Pending /\ r \in justBegan' /\ firstSeen'[r] = localBoundary
    <3>1. CASE r \in DOMAIN firstSeen
      <4>1. firstSeen'[r] = firstSeen[r]
        BY <1>1, <3>1
      <4> QED BY <1>1, <3>1, <4>1 DEF RoundsInv, DatesInv
    <3>2. CASE r \notin DOMAIN firstSeen
      <4>1. r \in new /\ firstSeen'[r] = localBoundary
        BY <1>1, <3>2
      <4>2. r \notin Buffered(published)
        <5>1. r > playing \/ r <= playing - RestartGap
          BY <1>1, <4>1
        <5>2. r # playing
          BY <1>1, <4>1, <5>1, PlayoutAssumption DEF BuffersInv
        <5> QED BY <3>2, <5>2 DEF RoundsInv, KeptInv
      <4>3. r \in justBegan'
        BY <1>1, <4>1, <4>2
      <4>4. localBoundary \in Int /\ (localBoundary <= lastLocalIdx \/ Pending)
        BY DEF ClockInv, Pending
      <4> QED BY <4>1, <4>3, <4>4
    <3> QED BY <3>1, <3>2
  <2> QED BY <1>2, <1>3, <2>1, <2>2 DEF DatesInv
<1>6. WaitsInv'
  <2> SUFFICES ASSUME ~Pending PROVE Settled'
    BY <1>3 DEF WaitsInv
  <2>1. Settled
    BY DEF RoundsInv, WaitsInv
  <2> SUFFICES ASSUME NEW r \in Buffered(published)' \ justBegan', r # playing
               PROVE  r < playing /\ \E n \in Buffered(published)' \cap justBegan' : n > playing
    BY <1>2 DEF Settled
  <2>2. r \in Buffered(published) \ justBegan
    BY <1>1
  <2>3. r < playing /\ \E n \in Buffered(published) \cap justBegan : n > playing
    BY <2>1, <2>2 DEF Settled
  <2> QED BY <1>1, <2>3
<1> QED BY <1>4, <1>5, <1>6 DEF RoundsInv

\* A tick that opens a boundary begins with nothing new.
LEMMA TickRounds ==
  ASSUME BuffersInv, ClockInv, RoundsInv, NEW d \in 1 .. MaxStall, Tick(d), ClockInv'
  PROVE  RoundsInv'
<1>1. /\ UNCHANGED <<published, real, plc, playing, firstSeen, lastLocalIdx>>
      /\ pc = "tick" /\ pc' = "boundary"
      /\ justBegan' = IF localBoundary' > lastLocalIdx THEN {} ELSE justBegan
  BY DEF Tick, buffers, rounds
<1>2. /\ Buffered(published)' = Buffered(published)
      /\ \A s \in Stream : Held(s)' = Held(s)
  BY <1>1 DEF Buffered, Held, RoundOf
<1>3. ~Pending
  BY <1>1 DEF Pending
<1>4. Pending' <=> localBoundary' > lastLocalIdx
  BY <1>1 DEF Pending
<1>5. KeptInv'
  BY <1>1, <1>2 DEF RoundsInv, KeptInv
<1>6. DatesInv'
  BY <1>1, <1>3 DEF RoundsInv, DatesInv
<1>7. WaitsInv'
  <2> SUFFICES ASSUME ~Pending' PROVE Settled'
    BY DEF WaitsInv
  <2>1. justBegan' = justBegan
    BY <1>1, <1>4
  <2> QED BY <1>1, <1>2, <1>3, <2>1 DEF RoundsInv, WaitsInv, Settled
<1> QED BY <1>5, <1>6, <1>7 DEF RoundsInv

\* The rounds that stay are those of the streams that stay; a stream that retires
\* has none above the cursor.
LEMMA StayingRounds ==
  ASSUME BuffersInv
  PROVE  /\ Staying \subseteq published /\ Staying \in SUBSET Stream
         /\ Buffered(Staying) \subseteq Buffered(published)
         /\ Buffered(Staying) \subseteq Int
         /\ Candidates(Staying) \subseteq Buffered(Staying)
<1>1. Staying \subseteq published /\ Staying \in SUBSET Stream
  BY DEF Staying, BuffersInv
<1>2. \A r \in Buffered(Staying) : r \in Int
  <2>1. \A r \in 0 .. MaxSlot : r \in Int
    OBVIOUS
  <2> QED BY <1>1, <2>1, HeldIsNat
<1> QED BY <1>1, <1>2 DEF Buffered, Candidates, Above, Below

\* A candidate that is not released is dated by this boundary's tick.
LEMMA UnreadyIsNew ==
  ASSUME BuffersInv, ClockInv, RoundsInv, Pending,
         NEW r \in Candidates(Staying), ~Ready(Staying, r)
  PROVE  /\ r \in DOMAIN firstSeen /\ firstSeen[r] \in Int
         /\ firstSeen[r] >= localBoundary /\ r \in justBegan
<1>1. ~(FirstSeenOr(r, localBoundary) < localBoundary)
  BY DEF Ready
<1>2. localBoundary \in Int /\ lastLocalIdx \in Int /\ localBoundary > lastLocalIdx
  BY DEF ClockInv, Pending
<1>3. r \in Buffered(published) /\ r \in Int
  BY StayingRounds
<1>4. r # playing
  BY <1>3, PlayoutAssumption DEF Candidates, Above, Below, BuffersInv
<1>5. r \in DOMAIN firstSeen
  BY <1>3, <1>4 DEF RoundsInv, KeptInv
<1>6. firstSeen[r] \in Int /\ (firstSeen[r] <= lastLocalIdx \/ r \in justBegan)
  BY <1>5 DEF RoundsInv, DatesInv
<1>7. ~(firstSeen[r] < localBoundary)
  BY <1>1, <1>5 DEF FirstSeenOr
<1> QED BY <1>2, <1>5, <1>6, <1>7

\* A boundary that releases nothing leaves candidates that are new, and beside
\* them only what a re-pin would take.
LEMMA KeepsRounds ==
  ASSUME BuffersInv, ClockInv, RoundsInv, Keeps, pc' = "tick",
         UNCHANGED <<localBoundary, justBegan>>
  PROVE  RoundsInv'
<1>1. /\ Pending /\ lastLocalIdx' = localBoundary /\ published' = Staying
      /\ ReadyRounds(Staying) = {} /\ playing' = playing /\ firstSeen' = firstSeen
      /\ \A s \in Stream : Held(s)' = IF s \in Retiring THEN {} ELSE Held(s)
  BY DEF Keeps
<1>2. Buffered(published)' = Buffered(Staying)
  <2>1. Buffered(published)' = UNION {Held(s)' : s \in Staying}
    BY <1>1 DEF Buffered
  <2>2. \A s \in Staying : Held(s)' = Held(s)
    BY <1>1, StayingRounds DEF Staying
  <2> QED BY <2>1, <2>2 DEF Buffered
<1>3. KeptInv'
  <2>1. \A s \in Stream \ published' : Held(s)' = {}
    BY <1>1 DEF Staying, RoundsInv, KeptInv
  <2>2. \A r \in Buffered(published)' : r \in Buffered(published)
    BY <1>2, StayingRounds
  <2> QED BY <1>1, <2>1, <2>2 DEF RoundsInv, KeptInv
<1>4. ~Pending'
  BY DEF Pending
<1>5. localBoundary \in Int /\ lastLocalIdx \in Int /\ localBoundary > lastLocalIdx
  BY <1>1 DEF ClockInv, Pending
<1>6. DatesInv'
  <2> SUFFICES ASSUME NEW r \in DOMAIN firstSeen
               PROVE  firstSeen[r] \in Int /\ firstSeen[r] <= localBoundary
    BY <1>1 DEF RoundsInv, DatesInv
  <2> QED BY <1>1, <1>5 DEF RoundsInv, DatesInv
<1>7. WaitsInv'
  <2>1. \A r \in Candidates(Staying) : r \in justBegan
    BY <1>1, UnreadyIsNew DEF ReadyRounds
  <2> SUFFICES ASSUME NEW r \in Buffered(Staying), r \notin justBegan, r # playing
               PROVE  r < playing /\ \E n \in Buffered(Staying) \cap justBegan : n > playing
    BY <1>1, <1>2 DEF WaitsInv, Settled
  <2>2. r \in Int /\ playing \in Int /\ RestartGap \in Nat /\ RestartGap >= 1
    BY StayingRounds, PlayoutAssumption DEF BuffersInv
  <2>3. r > playing \/ r <= playing - RestartGap
    BY StayingRounds DEF RoundsInv, KeptInv
  <2>4. ~Repin(Staying)
    BY <2>1, <2>3 DEF Candidates, Above, Below, Repin
  <2>5. Candidates(Staying) = Above(Staying) /\ Above(Staying) # {}
    BY <2>4 DEF Candidates, Repin
  <2>6. r <= playing - RestartGap
    BY <2>1, <2>3, <2>5 DEF Above
  <2>7. r < playing
    BY <2>2, <2>6
  <2> QED BY <2>1, <2>5, <2>7 DEF Above
<1> QED BY <1>3, <1>6, <1>7 DEF RoundsInv

\* A boundary that releases a round drops what is below it; what stays above it
\* was above the old cursor too and not ready.
LEMMA ReleasesRounds ==
  ASSUME BuffersInv, ClockInv, RoundsInv, NEW release, Releases(release), pc' = "tick",
         UNCHANGED <<localBoundary, justBegan>>
  PROVE  RoundsInv'
<1>1. /\ Pending /\ lastLocalIdx' = localBoundary /\ published' = Staying
      /\ release \in ReadyRounds(Staying) /\ release \in Int
      /\ \A r \in ReadyRounds(Staying) : r <= release
      /\ playing' = release
      /\ firstSeen' = [r \in {d \in DOMAIN firstSeen :
                                d > release /\ d \notin Skipped(Staying, release)}
                         |-> firstSeen[r]]
      /\ \A s \in Stream :
           Held(s)' = IF s \in Staying
                      THEN {r \in Held(s) : r >= release /\ r \notin Skipped(Staying, release)}
                      ELSE {}
  BY DEF Releases
<1>2. \A r \in Buffered(published)' :
         /\ r \in Buffered(Staying) /\ r >= release
         /\ r \notin Skipped(Staying, release)
  <2>1. Buffered(published)' = UNION {Held(s)' : s \in Staying}
    BY <1>1 DEF Buffered
  <2>2. \A s \in Staying : s \in Stream
    BY StayingRounds
  <2>3. \A s \in Staying : \A r \in Held(s)' :
          r \in Held(s) /\ r >= release /\ r \notin Skipped(Staying, release)
    BY <1>1, <2>2
  <2> QED BY <2>1, <2>3 DEF Buffered
<1>3. playing \in Int /\ release \in Candidates(Staying)
  BY <1>1 DEF BuffersInv, ReadyRounds
\* What stays above the released round is a candidate that is not ready.
<1>4. ASSUME NEW r \in Buffered(published)', r # release
      PROVE  /\ r > release
             /\ r \in DOMAIN firstSeen /\ r \in justBegan
             /\ r \notin Skipped(Staying, release)
  <2>1. r \in Int /\ r > release
    BY <1>1, <1>2, <1>4, StayingRounds
  <2>2. ~Repin(Staying)
    BY <1>2, <2>1 DEF Skipped
  <2>3. release > playing
    BY <1>3, <2>2 DEF Candidates, Above
  <2>4. r > playing
    BY <1>1, <1>3, <2>1, <2>3
  <2>5. r \in Candidates(Staying)
    BY <1>2, <2>2, <2>4 DEF Candidates, Above
  <2>6. ~(r <= release)
    BY <1>1, <2>1
  <2>7. ~Ready(Staying, r)
    BY <1>1, <2>5, <2>6 DEF ReadyRounds
  <2> QED BY <1>1, <1>2, <2>1, <2>5, <2>7, UnreadyIsNew
<1>5. KeptInv'
  <2>1. \A s \in Stream \ published' : Held(s)' = {}
    BY <1>1
  <2>2. \A r \in Buffered(published)' : r # release => r \in DOMAIN firstSeen' /\ r > release
    BY <1>1, <1>4
  <2> QED BY <1>1, <2>1, <2>2 DEF KeptInv
<1>6. ~Pending'
  BY DEF Pending
<1>7. localBoundary \in Int /\ lastLocalIdx \in Int /\ localBoundary > lastLocalIdx
  BY <1>1 DEF ClockInv, Pending
<1>8. DatesInv'
  <2>1. ASSUME NEW r \in DOMAIN firstSeen'
        PROVE  firstSeen'[r] \in Int /\ firstSeen'[r] <= localBoundary
    <3>1. r \in DOMAIN firstSeen /\ firstSeen'[r] = firstSeen[r]
      BY <1>1
    <3> QED BY <1>1, <1>7, <3>1 DEF RoundsInv, DatesInv
  <2> QED BY <1>1, <2>1 DEF RoundsInv, DatesInv
<1>9. WaitsInv'
  BY <1>1, <1>4 DEF WaitsInv, Settled
<1> QED BY <1>5, <1>8, <1>9 DEF RoundsInv

LEMMA ForgetsRounds ==
  ASSUME ClockInv, RoundsInv, Forgets, pc' = "tick",
         UNCHANGED <<localBoundary, justBegan>>
  PROVE  RoundsInv' /\ Buffered(published)' = {}
<1>1. /\ published' = {} /\ DOMAIN firstSeen' = {}
      /\ \A s \in Stream : Held(s)' = {}
  BY DEF Forgets
<1>2. Buffered(published)' = {}
  BY <1>1 DEF Buffered
<1> QED BY <1>1, <1>2 DEF RoundsInv, KeptInv, DatesInv, WaitsInv, Settled

LEMMA IdlesRounds ==
  ASSUME ClockInv, RoundsInv, Idles, pc' = "tick",
         UNCHANGED <<localBoundary, justBegan>>
  PROVE  RoundsInv' /\ Buffered(published)' = Buffered(published)
<1>1. /\ UNCHANGED <<published, real, plc, playing, firstSeen, lastLocalIdx>>
      /\ localBoundary <= lastLocalIdx
      /\ localBoundary \in Int /\ lastLocalIdx \in Int
  BY DEF Idles, ClockInv
<1>2. /\ Buffered(published)' = Buffered(published)
      /\ \A s \in Stream : Held(s)' = Held(s)
  BY <1>1 DEF Buffered, Held, RoundOf
<1>3. ~Pending /\ ~Pending'
  BY <1>1 DEF Pending
<1> QED BY <1>1, <1>2, <1>3 DEF RoundsInv, KeptInv, DatesInv, WaitsInv, Settled

LEMMA RoundsStep == BuffersInv /\ ClockInv /\ RoundsInv /\ [Next]_vars => RoundsInv'
<1> SUFFICES ASSUME BuffersInv, ClockInv, RoundsInv, [Next]_vars PROVE RoundsInv'
  OBVIOUS
<1>1. CASE Boundary
  BY <1>1, BoundaryOutcomes, IdlesRounds, ForgetsRounds, KeepsRounds, ReleasesRounds
<1>2. ASSUME NEW d \in 1 .. MaxStall, Tick(d) PROVE RoundsInv'
  BY <1>2, ClockStep, TickRounds
<1>3. ASSUME NEW got, Place(got), hand.stream \in published PROVE RoundsInv'
  BY <1>3, PlaceRounds
<1>4. CASE /\ ~Boundary /\ \A d \in 1 .. MaxStall : ~Tick(d)
           /\ \A got : Place(got) => hand.stream \notin published
  BY <1>4, OthersLeaveRounds, NothingMoves
<1> QED BY <1>1, <1>2, <1>3, <1>4

LEMMA RoundsInit == Init => BuffersInv /\ ClockInv /\ RoundsInv
<1> SUFFICES ASSUME Init PROVE BuffersInv /\ ClockInv /\ RoundsInv
  OBVIOUS
<1>1. BuffersInv /\ ClockInv
  BY DEF Init, BuffersInv, ClockInv, NotYet
<1>2. Buffered(published) = {} /\ \A s \in Stream : Held(s) = {}
  BY DEF Init, Buffered, Held
<1>3. DOMAIN firstSeen = {} /\ justBegan = {}
  BY DEF Init
<1> QED BY <1>1, <1>2, <1>3 DEF RoundsInv, KeptInv, DatesInv, WaitsInv, Settled

\* Staleness is bounded: whatever is lost, concealed, late, restarted or retired,
\* what a boundary leaves buffered besides the playing round began to arrive after
\* its tick; a re-pin alone waits for as long as the old run still brings rounds.
THEOREM NothingIsKeptTwice == Spec => []NothingWaitsTwice
<1>1. BuffersInv /\ [Next]_vars => BuffersInv'
  BY BuffersStep
<1>2. ClockInv /\ [Next]_vars => ClockInv'
  BY ClockStep
<1>3. BuffersInv /\ ClockInv /\ RoundsInv /\ [Next]_vars => RoundsInv'
  BY RoundsStep
<1>4. RoundsInv => NothingWaitsTwice
  BY DEF RoundsInv, WaitsInv, Settled, Pending, NothingWaitsTwice
<1> QED BY RoundsInit, <1>1, <1>2, <1>3, <1>4, PTL DEF Spec

\* Only a boundary says that it was served.
LEMMA OnlyBoundaryServes == [Next]_vars /\ lastLocalIdx' # lastLocalIdx => Boundary
BY DEF Next, vars, Session, EmitLoop, Lookup, DecodeFails, Place, SetIntent, clock,
       SetPeerStreams, ClearPeerIntent, DropPeer, SetRoomConfig, Tick, SenderRestart

\* At a boundary a stream that nobody claims any more, whose grace is over and that
\* does not retire, either plays what is released or still holds a round that began
\* since the tick.  What keeps it is a round above the cursor, hence a candidate.
THEOREM RetirementIsDue == Spec => RetirementIsPrompt
<1>1. BuffersInv /\ [Next]_vars => BuffersInv'
  BY BuffersStep
<1>2. ClockInv /\ [Next]_vars => ClockInv'
  BY ClockStep
<1>3. BuffersInv /\ ClockInv /\ RoundsInv /\ [Next]_vars => RoundsInv'
  BY RoundsStep
<1>4. Anchored(cur, next) /\ ClockInv /\ [Next]_vars => Anchored(cur, next)'
  BY AnchoredStep
<1>5. BuffersInv /\ ClockInv /\ RoundsInv /\ Anchored(cur, next) /\ [Next]_vars
        => [pc = "boundary" /\ lastLocalIdx' = localBoundary =>
              \A s \in published' :
                Unclaimed(s) /\ quiet[s] >= MaxGrace /\ lastLocalIdx # localBoundary
                  => \/ cur'[s] # None /\ cur'[s].made = localBoundary
                     \/ \E r \in Held(s)' : r \in DOMAIN firstSeen
                                             /\ firstSeen[r] >= localBoundary]_vars
  <2> SUFFICES ASSUME BuffersInv, ClockInv, RoundsInv, Anchored(cur, next), [Next]_vars,
                      lastLocalIdx' # lastLocalIdx, NEW s \in published', Unclaimed(s),
                      quiet[s] >= MaxGrace,
                      ~(cur'[s] # None /\ cur'[s].made = localBoundary)
               PROVE  \E r \in Held(s)' : r \in DOMAIN firstSeen
                                           /\ firstSeen[r] >= localBoundary
    OBVIOUS
  <2>1. Boundary
    BY OnlyBoundaryServes
  <2>2. Keeps
    <3>1. ~Idles /\ ~Forgets
      BY DEF Idles, Forgets
    <3>2. ASSUME NEW release, Releases(release) PROVE FALSE
      <4>1. /\ s \in Staying /\ ReadyRounds(Staying) # {} /\ Staying # {}
            /\ localBoundary > lastLocalIdx
        BY <3>2 DEF Releases, Pending
      <4>2. \E r \in Nat : cur' = Install(Staying, r)
        <5>1. cur' = Install(Staying, Max(ReadyRounds(Staying)))
          BY <2>1, <4>1 DEF Boundary, Release, Readers, Staying, Retiring
        <5>2. Max(ReadyRounds(Staying)) \in Buffered(Staying)
          BY <4>1, StayingRounds, LatestReady DEF ReadyRounds
        <5>3. Buffered(Staying) \subseteq 0 .. MaxSlot
          BY StayingRounds, HeldIsNat
        <5>4. Max(ReadyRounds(Staying)) \in Nat
          BY <5>2, <5>3
        <5> QED BY <5>1, <5>4
      <4>3. s \in Stream
        BY <4>1, StayingRounds
      <4>4. cur'[s] # None /\ cur'[s].made = localBoundary
        <5>1. PICK r \in Nat : cur' = Install(Staying, r)
          BY <4>2
        <5>2. localBoundary \in Nat
          BY <4>1 DEF ClockInv
        <5>3. next[s] # None => next[s].base \in Nat
          BY <4>3 DEF Anchored
        <5>4. cur'[s] \in Reader /\ cur'[s].made = localBoundary
          BY <4>1, <4>3, <5>1, <5>2, <5>3 DEF Install, Reader
        <5> QED BY <5>4, NoneAssumption
      <4> QED BY <4>4
    <3> QED BY <2>1, <3>1, <3>2, BoundaryOutcomes
  <2>3. s \in Staying /\ s \in published /\ s \in Stream /\ Held(s)' = Held(s)
    BY <2>2, StayingRounds DEF Keeps, Staying
  <2>4. PICK r \in Held(s) : ~(r <= playing)
    <3>1. ~Retires(s)
      BY <2>3 DEF Staying, Retiring
    <3>2. quiet[s] >= Grace(s)
      BY <2>3, MaxGraceBounds DEF Grace, ClockInv
    <3> QED BY <2>3, <3>1, <3>2 DEF Retires
  <2>5. r \in Buffered(Staying) /\ r \in Int /\ playing \in Int
    BY <2>3, StayingRounds DEF Buffered, BuffersInv
  <2>6. r \in Candidates(Staying)
    BY <2>4, <2>5 DEF Candidates, Above, Repin
  <2>7. ~Ready(Staying, r)
    BY <2>2, <2>6 DEF Keeps, ReadyRounds
  <2>8. r \in DOMAIN firstSeen /\ firstSeen[r] >= localBoundary
    BY <2>2, <2>6, <2>7, UnreadyIsNew DEF Keeps
  <2> QED BY <2>3, <2>8
<1>6. Init => Anchored(cur, next)
  BY DEF Init, Anchored
<1> QED BY RoundsInit, <1>1, <1>2, <1>3, <1>4, <1>5, <1>6, PTL DEF Spec, RetirementIsPrompt

--------------------------------------------------------------------------------
(* A sender of one stream.  With several, the dates of a stream that retires    *)
(* stay as long as the sender does, and a later run finds them.                 *)

\* With one stream a date goes with its round, and what began since the tick is
\* dated by it.
SingleInv ==
  /\ DOMAIN firstSeen \subseteq Buffered(published)
  /\ Pending => \A r \in justBegan \cap DOMAIN firstSeen : firstSeen[r] = localBoundary
  /\ justBegan \subseteq Nat

OneStream == \A s, t \in Stream : s = t

LEMMA OneStays ==
  ASSUME BuffersInv, OneStream, Staying # {}
  PROVE  Staying = published
BY DEF Staying, Retiring, BuffersInv, OneStream

LEMMA SinglePlace ==
  ASSUME BuffersInv, RoundsInv, SingleInv, NEW got, Place(got), hand.stream \in published
  PROVE  SingleInv'
<1>1. PICK new \in SUBSET Nat :
        /\ firstSeen' = [r \in DOMAIN firstSeen \cup new |->
                          IF r \in DOMAIN firstSeen THEN firstSeen[r] ELSE localBoundary]
        /\ justBegan' = justBegan \cup (new \ Buffered(published))
        /\ Buffered(published) \subseteq Buffered(published)'
        /\ new \subseteq Buffered(published)'
  BY PlaceFacts
<1>2. UNCHANGED <<pc, localBoundary, lastLocalIdx>>
  BY DEF Place, clock
<1>3. DOMAIN firstSeen' = DOMAIN firstSeen \cup new
  BY <1>1
<1>4. DOMAIN firstSeen' \subseteq Buffered(published)'
  BY <1>1, <1>3 DEF SingleInv
<1>5. ASSUME Pending, NEW r \in justBegan', r \in DOMAIN firstSeen'
      PROVE  firstSeen'[r] = localBoundary
  <2>1. CASE r \notin DOMAIN firstSeen
    BY <1>1, <1>5, <2>1
  <2>2. CASE r \in DOMAIN firstSeen
    <3>1. r \in Buffered(published)
      BY <2>2 DEF SingleInv
    <3>2. r \in justBegan
      BY <1>1, <1>5, <3>1
    <3>3. firstSeen'[r] = firstSeen[r]
      BY <1>1, <2>2
    <3> QED BY <1>5, <2>2, <3>2, <3>3 DEF SingleInv
  <2> QED BY <2>1, <2>2
<1>6. justBegan' \subseteq Nat
  <2>1. \A r \in new : r \in Nat
    OBVIOUS
  <2>2. justBegan' \subseteq justBegan \cup new
    BY <1>1
  <2> QED BY <2>1, <2>2 DEF SingleInv
<1>7. Pending' = Pending
  BY <1>2 DEF Pending
<1> QED BY <1>2, <1>4, <1>5, <1>6, <1>7 DEF SingleInv

LEMMA SingleBoundary ==
  ASSUME OneStream, BuffersInv, ClockInv, RoundsInv, SingleInv, Boundary
  PROVE  SingleInv'
<1>1. /\ pc' = "tick" /\ UNCHANGED <<localBoundary, justBegan>>
      /\ Idles \/ Forgets \/ Keeps \/ \E release : Releases(release)
  BY BoundaryOutcomes
<1> SUFFICES DOMAIN firstSeen' \subseteq Buffered(published)'
  BY <1>1 DEF SingleInv, Pending
<1>2. CASE Idles
  BY <1>1, <1>2, IdlesRounds DEF Idles, SingleInv
<1>3. CASE Forgets
  BY <1>3 DEF Forgets
<1>4. CASE Keeps
  <2>1. Staying = published /\ Retiring = {}
    BY <1>4, OneStays DEF Keeps, Staying, Retiring
  <2>2. published' = published /\ firstSeen' = firstSeen
        /\ \A s \in Stream : Held(s)' = Held(s)
    BY <1>4, <2>1 DEF Keeps
  <2>3. Buffered(published)' = Buffered(published)
    BY <2>2 DEF Buffered, BuffersInv
  <2> QED BY <2>2, <2>3 DEF SingleInv
<1>5. ASSUME NEW release, Releases(release)
      PROVE  DOMAIN firstSeen' \subseteq Buffered(published)'
  <2>1. Staying = published
    BY <1>5, OneStays DEF Releases
  <2> SUFFICES ASSUME NEW r \in DOMAIN firstSeen'
               PROVE  r \in Buffered(published)'
    OBVIOUS
  <2>2. r \in DOMAIN firstSeen /\ r > release /\ r \notin Skipped(Staying, release)
    BY <1>5 DEF Releases
  <2>3. PICK s \in published : r \in Held(s)
    BY <2>2 DEF SingleInv, Buffered
  <2>4. s \in Stream /\ r \in Int /\ release \in Int
    BY <1>5, <2>1, <2>3, StayingRounds DEF Releases, Buffered
  <2>5. r \in Held(s)' /\ s \in published'
    BY <1>5, <2>1, <2>2, <2>3, <2>4 DEF Releases
  <2> QED BY <2>5 DEF Buffered
<1> QED BY <1>1, <1>2, <1>3, <1>4, <1>5

LEMMA SingleStep ==
  ASSUME OneStream, BuffersInv, ClockInv, RoundsInv, SingleInv, [Next]_vars
  PROVE  SingleInv'
<1>1. CASE Boundary
  BY <1>1, SingleBoundary
<1>2. ASSUME NEW d \in 1 .. MaxStall, Tick(d) PROVE SingleInv'
  <2>1. /\ UNCHANGED <<published, real, plc, firstSeen, lastLocalIdx>>
        /\ justBegan' = IF localBoundary' > lastLocalIdx THEN {} ELSE justBegan
    BY <1>2 DEF Tick, buffers, rounds
  <2>2. Buffered(published)' = Buffered(published)
    BY <2>1 DEF Buffered, Held, RoundOf
  <2>3. Pending' => justBegan' = {}
    BY <2>1 DEF Pending
  <2> QED BY <2>1, <2>2, <2>3 DEF SingleInv
<1>3. ASSUME NEW got, Place(got), hand.stream \in published PROVE SingleInv'
  BY <1>3, SinglePlace
<1>4. CASE /\ ~Boundary /\ \A d \in 1 .. MaxStall : ~Tick(d)
           /\ \A got : Place(got) => hand.stream \notin published
  <2>1. /\ Buffered(published)' = Buffered(published)
        /\ UNCHANGED <<firstSeen, justBegan, lastLocalIdx, localBoundary, pc>>
    BY <1>4, OthersLeaveRounds, NothingMoves
  <2> QED BY <2>1 DEF SingleInv, Pending
<1> QED BY <1>1, <1>2, <1>3, <1>4

\* Of a sender with one stream: a round that began to arrive after the tick that
\* opens a boundary, be it between the tick and its onBoundary, is not released at
\* that boundary before it is complete.
THEOREM StreamingWaits == ASSUME OneStream PROVE Spec => StreamingRoundsWait
<1>1. BuffersInv /\ [Next]_vars => BuffersInv'
  BY BuffersStep
<1>2. ClockInv /\ [Next]_vars => ClockInv'
  BY ClockStep
<1>3. BuffersInv /\ ClockInv /\ RoundsInv /\ [Next]_vars => RoundsInv'
  BY RoundsStep
<1>4. Init => SingleInv
  BY DEF Init, SingleInv, Pending
<1>5. BuffersInv /\ ClockInv /\ RoundsInv /\ SingleInv /\ [Next]_vars => SingleInv'
  BY SingleStep
<1>6. BuffersInv /\ ClockInv /\ RoundsInv /\ SingleInv /\ [Next]_vars
        => [pc = "boundary" /\ playing' # playing /\ playing' \in justBegan
              => Complete(published, playing')]_vars
  <2> SUFFICES ASSUME BuffersInv, ClockInv, RoundsInv, SingleInv, [Next]_vars,
                      playing' # playing, playing' \in justBegan
               PROVE  Complete(published, playing')
    OBVIOUS
  <2>1. Boundary
    BY OnlyBoundaryMoves
  <2>2. playing' \in Nat /\ playing' # NotYet
    BY DEF SingleInv, NotYet
  <2>3. PICK release : Releases(release)
    BY <2>1, <2>2, BoundaryOutcomes DEF Idles, Forgets, Keeps
  <2>4. Staying = published
    BY <2>3, OneStays DEF Releases
  <2>5. /\ release = playing' /\ Pending
        /\ release \in Candidates(Staying) /\ Ready(Staying, release)
    BY <2>3 DEF Releases, ReadyRounds
  <2> SUFFICES ASSUME FirstSeenOr(release, localBoundary) < localBoundary PROVE FALSE
    BY <2>4, <2>5 DEF Ready
  <2>6. release \in Buffered(published) /\ release # playing
    BY <2>5, StayingRounds
  <2>7. release \in DOMAIN firstSeen
    BY <2>6 DEF RoundsInv, KeptInv
  <2>8. firstSeen[release] = localBoundary
    BY <2>5, <2>7 DEF SingleInv
  <2> QED BY <2>7, <2>8 DEF FirstSeenOr, ClockInv
<1> QED BY RoundsInit, <1>1, <1>2, <1>3, <1>4, <1>5, <1>6, PTL DEF Spec, StreamingRoundsWait

--------------------------------------------------------------------------------
(* Types.                                                                      *)

SessionTypes ==
  /\ sent \in [Stream -> 0 .. MaxSlot + 1]
  /\ born \in 0 .. MaxWall /\ restarts \in 0 .. MaxRestarts
  /\ hand = None \/ hand \in [stream : Stream, slot : Slot, conceal : SUBSET Slot]
  /\ expect \in [Stream -> 0 .. MaxSlot + 1]
  /\ intent = None \/ intent = Gone \/ intent \subseteq Stream
  /\ changes \in 0 .. MaxChanges

ClockTypes ==
  /\ quiet \in [Stream -> 0 .. MaxGrace]
  /\ wall \in 0 .. MaxWall /\ index \in Nat /\ missed \in Nat
  /\ localBoundary \in Nat \cup {-1} /\ lastLocalIdx \in Nat \cup {-1}

RoundTypes ==
  /\ playing \in Round \cup {NotYet}
  /\ DOMAIN firstSeen \subseteq Round
  /\ old \subseteq Round /\ justBegan \subseteq Round

ReaderTypes ==
  /\ \A s \in Stream : cur[s] = None \/ cur[s] \in Reader
  /\ \A s \in Stream : next[s] = None \/ next[s] \in [round : Nat, base : Nat]

LEMMA SlotRounds ==
  /\ \A q \in Slot : RoundOf(q) \in Round
  /\ Round \subseteq Nat
<1>1. ASSUME NEW q \in Slot PROVE RoundOf(q) \in Round
  <2> DEFINE a == q \div Frames
             m == MaxSlot \div Frames
  <2>1. /\ Frames \in Nat /\ Frames >= 1 /\ MaxSlot \in Nat
        /\ q \in Nat /\ q <= MaxSlot
    BY <1>1, PlayoutAssumption DEF Slot
  <2>2. a \in Nat /\ m \in Nat
    BY <2>1
  <2>3. a * Frames <= q /\ MaxSlot < (m + 1) * Frames
    BY <2>1
  <2> HIDE DEF a, m
  <2>4. a <= m
    <3> SUFFICES ASSUME m + 1 <= a PROVE FALSE
      BY <2>2
    <3>1. (m + 1) * Frames <= a * Frames
      BY <2>1, <2>2
    <3>2. (m + 1) * Frames \in Int /\ a * Frames \in Int
      BY <2>1, <2>2
    <3> QED BY <2>1, <2>3, <3>1, <3>2
  <2> QED BY <2>2, <2>4 DEF RoundOf, Round, a, m
<1> QED BY <1>1 DEF Round

\* What is buffered of streams that exist are rounds of the run.
LEMMA BufferedRounds ==
  ASSUME BuffersInv
  PROVE  \A streams \in SUBSET Stream : Buffered(streams) \subseteq Round
BY SlotRounds DEF Buffered, Held, BuffersInv

LEMMA SessionTypesStep ==
  ASSUME SessionTypes, ClockTypes, [Next]_vars
  PROVE  SessionTypes'
<1> USE DEF SessionTypes, session
<1>1. ASSUME NEW s \in Stream, NEW q \in Slot, Lookup(s, q) PROVE SessionTypes'
  <2>1. q + 1 \in 0 .. MaxSlot + 1
    BY PlayoutAssumption DEF Slot
  <2>2. MissingSlots(s, q) \subseteq Slot
    BY DEF MissingSlots
  <2>3. /\ sent' = [sent EXCEPT ![s] = q + 1]
        /\ hand' = [stream |-> s, slot |-> q, conceal |-> MissingSlots(s, q)]
        /\ UNCHANGED <<born, restarts, expect, intent, changes>>
    BY <1>1 DEF Lookup
  <2>4. hand' \in [stream : Stream, slot : Slot, conceal : SUBSET Slot]
    BY <2>2, <2>3
  <2> QED BY <2>1, <2>3, <2>4
<1>2. CASE DecodeFails
  BY <1>2 DEF DecodeFails
<1>3. ASSUME NEW got, Place(got) PROVE SessionTypes'
  <2>1. /\ hand # None /\ hand' = None
        /\ UNCHANGED <<sent, born, restarts, intent, changes>>
        /\ expect' = expect \/ expect' = [expect EXCEPT ![hand.stream] =
                                            IF hand.slot >= @ THEN hand.slot + 1 ELSE @]
    BY <1>3 DEF Place
  <2>2. hand.stream \in Stream /\ hand.slot + 1 \in 0 .. MaxSlot + 1
    BY <2>1, PlayoutAssumption DEF Slot
  <2>3. expect' \in [Stream -> 0 .. MaxSlot + 1]
    BY <2>1, <2>2
  <2> QED BY <2>1, <2>3
<1>4. ASSUME NEW news, news = None \/ news = Gone \/ news \subseteq Stream, SetIntent(news)
      PROVE  SessionTypes'
  BY <1>4 DEF SetIntent
<1>5. ASSUME NEW l \in Lengths, SetRoomConfig(l) PROVE SessionTypes'
  BY <1>5, PlayoutAssumption DEF SetRoomConfig
<1>6. ASSUME NEW d \in 1 .. MaxStall, Tick(d) PROVE SessionTypes'
  BY <1>6 DEF Tick
<1>7. CASE Boundary
  <2>1. UNCHANGED <<sent, born, restarts, hand, changes>>
    BY <1>7 DEF Boundary
  <2>2. intent' = intent \/ intent' = None
    BY <1>7 DEF Boundary, ForgetSender
  <2>3. expect' = expect \/ \E gone : expect' = [s \in Stream |-> IF s \in gone THEN 0 ELSE expect[s]]
    BY <1>7 DEF Boundary
  <2>4. expect' \in [Stream -> 0 .. MaxSlot + 1]
    BY <2>3, PlayoutAssumption
  <2> QED BY <2>1, <2>2, <2>4
<1>8. CASE SenderRestart
  <2>1. 0 \in 0 .. MaxSlot + 1
    BY PlayoutAssumption
  <2> QED BY <1>8, <2>1, PlayoutAssumption DEF SenderRestart, ClockTypes
<1>9. CASE UNCHANGED vars
  BY <1>9 DEF vars
<1> QED
  BY <1>1, <1>2, <1>3, <1>4, <1>5, <1>6, <1>7, <1>8, <1>9
  DEF Next, Session, EmitLoop, SetPeerStreams, ClearPeerIntent, DropPeer

LEMMA ClockTypesStep ==
  ASSUME ClockTypes, [Next]_vars
  PROVE  ClockTypes'
<1> USE DEF ClockTypes, clock
<1>1. ASSUME NEW s \in Stream, NEW q \in Slot, Lookup(s, q) PROVE ClockTypes'
  <2>1. 0 \in 0 .. MaxGrace
    BY MaxGraceBounds, PlayoutAssumption
  <2> QED BY <1>1, <2>1 DEF Lookup
<1>2. CASE DecodeFails
  BY <1>2 DEF DecodeFails
<1>3. ASSUME NEW got, Place(got) PROVE ClockTypes'
  BY <1>3 DEF Place
<1>4. ASSUME NEW news, SetIntent(news) PROVE ClockTypes'
  BY <1>4 DEF SetIntent
<1>5. ASSUME NEW l \in Lengths, SetRoomConfig(l) PROVE ClockTypes'
  <2>1. index \div 2 \in Nat /\ 2 * index \in Nat
    OBVIOUS
  <2> QED BY <1>5, <2>1 DEF SetRoomConfig
<1>6. ASSUME NEW d \in 1 .. MaxStall, Tick(d) PROVE ClockTypes'
  <2> DEFINE entered == (wall + d) \div 2 - wall \div 2
  <2>1. d \in Nat /\ wall \in Nat
    BY PlayoutAssumption
  <2>2. entered \in Nat
    BY <2>1
  <2>3. /\ wall' = wall + d /\ wall + d <= MaxWall
        /\ index' = index + entered /\ localBoundary' = index + entered
        /\ missed' = missed + entered /\ lastLocalIdx' = lastLocalIdx
        /\ quiet' = [s \in Stream |-> Min({quiet[s] + entered, MaxGrace})]
    BY <1>6 DEF Tick
  <2> HIDE DEF entered
  <2>4. ASSUME NEW s \in Stream PROVE Min({quiet[s] + entered, MaxGrace}) \in 0 .. MaxGrace
    <3>1. quiet[s] + entered \in Nat /\ MaxGrace \in Nat
      BY <2>2, MaxGraceBounds, PlayoutAssumption
    <3>2. Min({quiet[s] + entered, MaxGrace}) \in {quiet[s] + entered, MaxGrace}
           /\ Min({quiet[s] + entered, MaxGrace}) <= MaxGrace
      BY <3>1, MinOfTwo
    <3> QED BY <3>1, <3>2
  <2>5. quiet' \in [Stream -> 0 .. MaxGrace]
    BY <2>3, <2>4
  <2>6. wall' \in 0 .. MaxWall
    BY <2>1, <2>3, PlayoutAssumption
  <2> QED BY <2>2, <2>3, <2>5, <2>6
<1>7. CASE Boundary
  BY <1>7 DEF Boundary
<1>8. CASE SenderRestart
  BY <1>8 DEF SenderRestart
<1>9. CASE UNCHANGED vars
  BY <1>9 DEF vars
<1> QED
  BY <1>1, <1>2, <1>3, <1>4, <1>5, <1>6, <1>7, <1>8, <1>9
  DEF Next, Session, EmitLoop, SetPeerStreams, ClearPeerIntent, DropPeer

\* The rounds of a cursor, of dates and of the history are rounds of some buffer.
LEMMA RoundTypesStep ==
  ASSUME BuffersInv, ClockInv, RoundTypes, [Next]_vars
  PROVE  RoundTypes'
<1> USE DEF RoundTypes, rounds
<1>0. published \in SUBSET Stream /\ Buffered(published) \subseteq Round
  BY BufferedRounds DEF BuffersInv
<1>1. ASSUME NEW s \in Stream, NEW q \in Slot, Lookup(s, q) PROVE RoundTypes'
  BY <1>1 DEF Lookup
<1>2. CASE DecodeFails
  BY <1>2 DEF DecodeFails
<1>3. ASSUME NEW got, Place(got) PROVE RoundTypes'
  <2>1. CASE hand.stream \notin published
    BY <1>3, <2>1 DEF Place
  <2>2. CASE hand.stream \in published
    <3>1. PICK new \in SUBSET Nat :
            /\ firstSeen' = [r \in DOMAIN firstSeen \cup new |->
                              IF r \in DOMAIN firstSeen THEN firstSeen[r] ELSE localBoundary]
            /\ justBegan' = justBegan \cup (new \ Buffered(published))
            /\ new \subseteq Buffered(published)'
      BY <1>3, <2>2, PlaceFacts
    <3>2. old' \subseteq old /\ playing' = playing
      BY <1>3, <2>2 DEF Place
    <3>3. Buffered(published)' \subseteq Round
      <4>1. BuffersInv'
        BY BuffersStep
      <4>2. (\A streams \in SUBSET Stream : Buffered(streams) \subseteq Round)'
        BY <4>1, SlotRounds DEF Buffered, Held, BuffersInv, Round, RoundOf, Slot
      <4>3. published' \in SUBSET Stream
        BY <4>1 DEF BuffersInv
      <4> QED BY <4>2, <4>3 DEF Buffered
    <3>4. DOMAIN firstSeen' = DOMAIN firstSeen \cup new
      BY <3>1
    <3> QED BY <3>1, <3>2, <3>3, <3>4 DEF Round
  <2> QED BY <2>1, <2>2
<1>4. ASSUME NEW news, SetIntent(news) PROVE RoundTypes'
  BY <1>4 DEF SetIntent
<1>5. ASSUME NEW l \in Lengths, SetRoomConfig(l) PROVE RoundTypes'
  BY <1>5 DEF SetRoomConfig
<1>6. ASSUME NEW d \in 1 .. MaxStall, Tick(d) PROVE RoundTypes'
  BY <1>6 DEF Tick
<1>7. CASE Boundary
  <2>1. UNCHANGED <<old, justBegan>>
    BY <1>7 DEF Boundary
  <2>2. /\ playing' \in Round \cup {NotYet}
        /\ DOMAIN firstSeen' \subseteq DOMAIN firstSeen
    <3>1. CASE Idles \/ Forgets \/ Keeps
      BY <3>1 DEF Idles, Forgets, Keeps
    <3>2. ASSUME NEW release, Releases(release)
          PROVE  /\ playing' \in Round \cup {NotYet}
                 /\ DOMAIN firstSeen' \subseteq DOMAIN firstSeen
      <4>1. Staying \in SUBSET Stream
        BY <1>0 DEF Staying
      <4>2. release \in Buffered(Staying)
        BY <3>2 DEF Releases, ReadyRounds, Candidates, Above, Below
      <4>3. playing' \in Round
        BY <3>2, <4>1, <4>2, BufferedRounds DEF Releases
      <4> QED BY <3>2, <4>3 DEF Releases
    <3> QED BY <1>7, <3>1, <3>2, BoundaryOutcomes
  <2> QED BY <2>1, <2>2 DEF Round, NotYet
<1>8. CASE SenderRestart
  BY <1>0, <1>8 DEF SenderRestart
<1>9. CASE UNCHANGED vars
  BY <1>9 DEF vars
<1> QED
  BY <1>1, <1>2, <1>3, <1>4, <1>5, <1>6, <1>7, <1>8, <1>9
  DEF Next, Session, EmitLoop, SetPeerStreams, ClearPeerIntent, DropPeer

\* What a boundary leaves of the readers are readers, topped up.
ReaderSets(c, n) ==
  \A s \in Stream : /\ c[s] = None \/ c[s] \in Reader
                    /\ n[s] = None \/ n[s] \in [round : Nat, base : Nat]

LEMMA TopUpTypes ==
  ASSUME NEW c, NEW n, ReaderSets(c, n)
  PROVE  ReaderSets(c, TopUp(c, n))
<1> SUFFICES ASSUME NEW s \in Stream
             PROVE  TopUp(c, n)[s] = None \/ TopUp(c, n)[s] \in [round : Nat, base : Nat]
  BY DEF ReaderSets
<1>1. CASE c[s] # None /\ n[s] = None /\ AtEnd(c[s])
  <2>1. TopUp(c, n)[s] = [round |-> c[s].round + 1, base |-> c[s].made + 1]
    BY <1>1 DEF TopUp
  <2>2. c[s].round \in Nat /\ c[s].made \in Nat
    BY <1>1 DEF ReaderSets, Reader
  <2>3. c[s].round + 1 \in Nat /\ c[s].made + 1 \in Nat
    BY <2>2
  <2> QED BY <2>1, <2>3
<1>2. CASE ~(c[s] # None /\ n[s] = None /\ AtEnd(c[s]))
  <2>1. TopUp(c, n)[s] = n[s]
    BY <1>2 DEF TopUp
  <2> QED BY <2>1 DEF ReaderSets
<1> QED BY <1>1, <1>2

LEMMA ReaderTypesStep ==
  ASSUME BuffersInv, ClockInv, ClockTypes, RoundTypes, ReaderTypes, [Next]_vars
  PROVE  ReaderTypes'
<1>1. CASE ~Boundary
  BY <1>1, OnlyBoundaryWritesReaders DEF readers, ReaderTypes
<1>2. CASE Boundary
  <2>1. \E c, n : ReaderSets(c, n) /\ Readers(c, n)
    <3>1. ReaderSets(NoReader, NoReader)
      BY DEF ReaderSets, NoReader
    <3>2. \A gone : ReaderSets([s \in Stream |-> IF s \in gone THEN None ELSE cur[s]],
                               [s \in Stream |-> IF s \in gone THEN None ELSE next[s]])
      BY DEF ReaderSets, ReaderTypes
    <3>3. CASE localBoundary > lastLocalIdx
      <4>1. localBoundary \in Nat
        BY <3>3 DEF ClockTypes
      <4>2. IF Staying = {} THEN ForgetSender ELSE Release(Staying, Retiring)
        BY <1>2, <3>3 DEF Boundary, Staying, Retiring
      <4>3. CASE Staying = {}
        BY <3>1, <4>2, <4>3 DEF ForgetSender
      <4>4. CASE Staying # {} /\ ReadyRounds(Staying) = {}
        <5>1. Readers([s \in Stream |-> IF s \in Retiring THEN None ELSE cur[s]],
                      [s \in Stream |-> IF s \in Retiring THEN None ELSE next[s]])
          BY <4>2, <4>4 DEF Release
        <5> QED BY <3>2, <5>1
      <4>5. CASE Staying # {} /\ ReadyRounds(Staying) # {}
        <5> DEFINE release == Max(ReadyRounds(Staying))
        <5>1. Readers(Install(Staying, release), NoReader)
          BY <4>2, <4>5 DEF Release
        <5>2. release \in Nat
          <6>1. Staying \in SUBSET Stream
            BY DEF Staying, BuffersInv
          <6>2. release \in Buffered(Staying)
            BY <4>5, <6>1, ReleasedIsCandidate DEF Candidates, Above, Below
          <6> QED BY <6>1, <6>2, HeldIsNat
        <5> HIDE DEF release
        <5>3. ASSUME NEW s \in Stream
              PROVE  Install(Staying, release)[s] = None
                       \/ Install(Staying, release)[s] \in Reader
          <6> DEFINE base == IF next[s] # None /\ next[s].round = release
                             THEN next[s].base ELSE localBoundary
          <6>1. base \in Nat
            BY <4>1 DEF ReaderTypes
          <6>2. Install(Staying, release)[s] =
                  IF s \notin Staying THEN None
                  ELSE [round |-> release, base |-> base, made |-> localBoundary]
            BY DEF Install
          <6> HIDE DEF base
          <6> QED BY <4>1, <5>2, <6>1, <6>2 DEF Reader
        <5>4. ReaderSets(Install(Staying, release), NoReader)
          BY <5>3 DEF ReaderSets, NoReader
        <5> QED BY <5>1, <5>4
      <4> QED BY <4>3, <4>4, <4>5
    <3>4. CASE ~(localBoundary > lastLocalIdx)
      <4>1. Readers(cur, next)
        BY <1>2, <3>4 DEF Boundary
      <4> QED BY <4>1 DEF ReaderSets, ReaderTypes
    <3> QED BY <3>3, <3>4
  <2>2. PICK c, n : ReaderSets(c, n) /\ Readers(c, n)
    BY <2>1
  <2>3. ReaderSets(c, TopUp(c, n))
    BY <2>2, TopUpTypes
  <2> QED BY <2>2, <2>3 DEF ReaderSets, Readers, ReaderTypes
<1> QED BY <1>1, <1>2

\* Every variable keeps its type, and a stream that is not published has neither
\* audio nor a reader.
THEOREM TypeCorrect == Spec => []TypeOK
<1> DEFINE Types == SessionTypes /\ ClockTypes /\ RoundTypes /\ ReaderTypes
<1>1. Init => Types
  <2>1. Init => SessionTypes
    BY PlayoutAssumption DEF Init, SessionTypes
  <2>2. Init => ClockTypes
    BY MaxGraceBounds, PlayoutAssumption DEF Init, ClockTypes
  <2>3. Init => RoundTypes /\ ReaderTypes
    BY DEF Init, RoundTypes, ReaderTypes
  <2> QED BY <2>1, <2>2, <2>3
<1>2. BuffersInv /\ ClockInv /\ Types /\ [Next]_vars => Types'
  BY SessionTypesStep, ClockTypesStep, RoundTypesStep, ReaderTypesStep
<1>3. BuffersInv /\ ClockInv /\ RoundsInv /\ ReadersInv /\ Types => TypeOK
  <2> SUFFICES ASSUME BuffersInv, ClockInv, RoundsInv, ReadersInv, Types PROVE TypeOK
    OBVIOUS
  <2>1. /\ SessionTypes /\ ClockTypes /\ RoundTypes /\ ReaderTypes
        /\ published \subseteq Stream
        /\ real \in [Stream -> SUBSET Slot] /\ plc \in [Stream -> SUBSET Slot]
        /\ pc \in {"tick", "boundary"}
    BY DEF BuffersInv, ClockInv
  <2>2. \A r \in DOMAIN firstSeen : firstSeen[r] \in Int
    BY DEF RoundsInv, DatesInv
  <2>3. \A s \in Stream \ published : real[s] = {} /\ plc[s] = {} /\ cur[s] = None
    BY DEF RoundsInv, KeptInv, ReadersInv, Held
  <2> HIDE DEF Types
  <2> QED BY <2>1, <2>2, <2>3
          DEF TypeOK, SessionTypes, ClockTypes, RoundTypes, ReaderTypes
<1>4. Init => ReadersInv
  BY DEF Init, ReadersInv
<1> HIDE DEF Types
<1> QED BY RoundsInit, BuffersStep, ClockStep, RoundsStep, ReadersStep,
           <1>1, <1>2, <1>3, <1>4, PTL DEF Spec
=============================================================================
