------------------------------- MODULE Capture -------------------------------
(***************************************************************************)
(* The capture side of WAIL's audio engine                                 *)
(* (wail-app/audio_engine_real.go): the Link Audio channels of the LAN as  *)
(* the discovery loop reconciles them with e.capture, the channels the     *)
(* user sends or has remembered, the source and the ring behind each, the  *)
(* drain goroutines that read them, and the engine's Stop.                 *)
(*                                                                         *)
(* Everything that holds e.mu from beginning to end is one action.  The    *)
(* drain goroutines do not hold it: stopCaptureLocked cancels a drain,     *)
(* closes its source at once and does not wait, so a drain may read a ring *)
(* that was freed, or a source that belongs to the channel's next life.    *)
(* What the process does then is undefined; that it dies is one outcome.   *)
(***************************************************************************)
EXTENDS Integers, Sequences, FiniteSets

CONSTANTS
  Channel,    \* ids of Link Audio channels, minted by their publishers
  Key,        \* CaptureChannelKey: peer name and channel name
  RoomKey,    \* the names that carry the prefix of WAIL's own channels
  Remembered, \* SessionConfig.CaptureRestore
  None,       \* not there
  MaxStreams, \* bound on the channels ever discovered
  MaxStarts,  \* bound on the sources of one channel
  MaxActs     \* bound on what the LAN and the user do

ASSUME CaptureAssumption ==
  /\ RoomKey \subseteq Key
  /\ Remembered \subseteq Key
  /\ IsFiniteSet(Channel)
  /\ None \notin Key \cup Channel
  /\ None \notin [key : Key, stream : Nat, on : BOOLEAN, starts : Nat]
  /\ {MaxStreams, MaxActs} \subseteq Nat
  /\ MaxStarts \in Nat \ {0}

VARIABLES
  lan,        \* the name under which a channel is published on the LAN
  capture,    \* e.capture: what discovery knows of a channel
  restore,    \* e.restore
  nextStream, \* e.nextStreamID
  open,       \* the sources that exist
  drains,     \* the drain goroutines
  discovery,  \* is the discovery loop running?
  life,       \* of the engine: "running", "stopping", "stopped"
  dead,       \* the process died
  acts

captureVars == <<lan, capture, restore, nextStream, open, drains, discovery, life, dead, acts>>

Stream == 0..MaxStreams - 1

\* A source is named by the stream of its captureChannel and its turn.
Source == Stream \X (1..MaxStarts)

CaptureChannel == [key : Key, stream : Stream, on : BOOLEAN, starts : 0..MaxStarts]

\* A drain goroutine, named by the source it was started for; src is the source
\* it took from ch.source when it began to run.
Drain == [for : Source, src : Source \cup {None}, at : {"new", "select", "tick"}]

Known == {c \in Channel : capture[c] # None}
Enabled == {c \in Known : capture[c].on}
SourceOf(c) == <<capture[c].stream, capture[c].starts>>

\* The channels discovery may offer: Link publishes them, and not a WAIL room.
Offered == {c \in Channel : lan[c] \notin RoomKey \cup {None}}

CaptureTypeOK ==
  /\ lan \in [Channel -> Key \cup {None}]
  /\ \A c \in Known : capture[c] \in CaptureChannel
  /\ restore \subseteq Key
  /\ nextStream \in 0..MaxStreams
  /\ open \subseteq Source
  /\ drains \subseteq Drain
  /\ discovery \in BOOLEAN /\ dead \in BOOLEAN
  /\ life \in {"running", "stopping", "stopped"}
  /\ acts \in 0..MaxActs

CaptureInit ==
  /\ lan \in [Channel -> (Key \ RoomKey) \cup {None}]
  /\ capture = [c \in Channel |-> None]
  /\ restore = Remembered
  /\ nextStream = 0
  /\ open = {} /\ drains = {}
  /\ discovery = TRUE /\ life = "running" /\ dead = FALSE
  /\ acts = 0

Act == acts < MaxActs /\ acts' = acts + 1

\* The LAN: a channel appears, is renamed, or disappears.
Publish(c, k) ==
  /\ lan[c] # k /\ Act
  /\ lan' = [lan EXCEPT ![c] = k]
  /\ UNCHANGED <<capture, restore, nextStream, open, drains, discovery, life, dead>>
-----------------------------------------------------------------------------
Fresh(c, n) == [key |-> lan[c], stream |-> n, on |-> FALSE, starts |-> 0]
Started(ch) == [ch EXCEPT !.on = TRUE, !.starts = ch.starts + 1]
Stopped(ch) == [ch EXCEPT !.on = FALSE]
DrainOf(src) == [for |-> src, src |-> None, at |-> "new"]

\* startCaptureLocked takes effect: a new engine source may fail, and while the
\* engine is stopping what was opened is closed again.
MayStart == life = "running"

\* Numbers for the channels of new, from nextStream on and each used once.
Numbering(new) ==
  {f \in [new -> nextStream..(nextStream + Cardinality(new) - 1)] :
     \A c, d \in new : f[c] = f[d] => c = d}

\* Mutant: channels that are gone are only forgotten.
ClosedNone(gone) == {}

\* The sources that stopCaptureLocked closes for the channels of gone.
Closed(gone) == {SourceOf(c) : c \in gone \cap Enabled}

\* reconcileChannels: new channels get the next stream ids, and those of them
\* that are remembered start; known ones take the name they have now; those
\* that are gone are stopped and forgotten.
Reconcile ==
  LET new  == Offered \ Known
      gone == Known \ Offered
  IN /\ discovery /\ ~dead
     /\ nextStream + Cardinality(new) <= MaxStreams
     /\ \E num \in Numbering(new), begun \in SUBSET {c \in new : lan[c] \in restore} :
          LET entry(c) == IF c \in begun THEN Started(Fresh(c, num[c])) ELSE Fresh(c, num[c])
              sources  == {<<num[c], 1>> : c \in begun}
          IN /\ begun = {} \/ MayStart
             /\ capture' = [c \in Channel |->
                  IF c \in new THEN entry(c)
                  ELSE IF c \in Offered THEN [capture[c] EXCEPT !.key = lan[c]] ELSE None]
             /\ open' = (open \ Closed(gone)) \cup sources
             /\ drains' = drains \cup {DrainOf(src) : src \in sources}
     /\ nextStream' = nextStream + Cardinality(new)
     /\ UNCHANGED <<lan, restore, discovery, life, dead, acts>>

\* SetCaptureEnabled, on: the channel's name is remembered, and it starts.
EnableCapture(c) ==
  /\ restore' = restore \cup {capture[c].key}
  /\ \/ /\ ~capture[c].on /\ MayStart /\ capture[c].starts < MaxStarts
        /\ capture' = [capture EXCEPT ![c] = Started(@)]
        /\ LET src == <<capture[c].stream, capture[c].starts + 1>>
           IN open' = open \cup {src} /\ drains' = drains \cup {DrainOf(src)}
     \/ /\ UNCHANGED <<capture, open, drains>>

\* SetCaptureEnabled, off: stopCaptureLocked cancels the drain and closes the
\* source at once.
DisableCapture(c) ==
  /\ restore' = restore \ {capture[c].key}
  /\ capture' = [capture EXCEPT ![c] = Stopped(@)]
  /\ open' = open \ Closed({c})
  /\ UNCHANGED drains

SetCaptureEnabled(c, on) ==
  /\ life = "running" /\ ~dead
  /\ c \in Known
  /\ Act
  /\ IF on THEN EnableCapture(c) ELSE DisableCapture(c)
  /\ UNCHANGED <<lan, nextStream, discovery, life, dead>>
-----------------------------------------------------------------------------
\* Mutant: one context for all starts of a channel.
CancelledWithChannel(d) == life # "running" \/ \A c \in Enabled : capture[c].stream # d.for[1]

\* Mutant: the context is not derived from the engine's.
CancelledByChannel(d) == \A c \in Enabled : SourceOf(c) # d.for

\* A drain's context ends with its channel's start, or with the engine.
Cancelled(d) == life # "running" \/ \A c \in Enabled : SourceOf(c) # d.for

Goes(d, s, at) == drains' = (drains \ {d}) \cup {[d EXCEPT !.src = s, !.at = at]}

\* ch.source of the captureChannel with this stream.
SourceNow(stream) ==
  LET on == {c \in Enabled : capture[c].stream = stream}
  IN IF on = {} THEN {None} ELSE {SourceOf(c) : c \in on}

\* The goroutine begins to run and takes the source its channel has now, which
\* may be that of a later start, or nil.
DrainBegin(d) ==
  /\ d.at = "new" /\ ~dead
  /\ \E src \in SourceNow(d.for[1]) : Goes(d, src, "select")
  /\ UNCHANGED <<lan, capture, restore, nextStream, open, discovery, life, dead, acts>>

\* A tick: with the ticker and the context both ready, select takes either.
DrainTick(d) ==
  /\ d.at = "select" /\ ~dead
  /\ Goes(d, d.src, "tick")
  /\ UNCHANGED <<lan, capture, restore, nextStream, open, discovery, life, dead, acts>>

\* Dropped and Pop read the ring; where there is none the process may die.
DrainPop(d) ==
  /\ d.at = "tick" /\ ~dead
  /\ Goes(d, d.src, "select")
  /\ dead' \in (IF d.src \in open THEN {FALSE} ELSE IF d.src = None THEN {TRUE} ELSE BOOLEAN)
  /\ UNCHANGED <<lan, capture, restore, nextStream, open, discovery, life, acts>>

DrainDone(d) ==
  /\ d.at = "select" /\ Cancelled(d) /\ ~dead
  /\ drains' = drains \ {d}
  /\ UNCHANGED <<lan, capture, restore, nextStream, open, discovery, life, dead, acts>>
-----------------------------------------------------------------------------
\* Stop marks the engine as stopping and cancels its context; the discovery
\* loop and the drains end; then everything left is closed.
StopBegin ==
  /\ life = "running" /\ ~dead
  /\ life' = "stopping"
  /\ UNCHANGED <<lan, capture, restore, nextStream, open, drains, discovery, dead, acts>>

DiscoveryEnds ==
  /\ discovery /\ life # "running" /\ ~dead
  /\ discovery' = FALSE
  /\ UNCHANGED <<lan, capture, restore, nextStream, open, drains, life, dead, acts>>

StopWaited ==
  /\ life = "stopping" /\ ~dead
  /\ drains = {} /\ ~discovery
  /\ capture' = [c \in Channel |-> None]
  /\ open' = open \ Closed(Known)
  /\ life' = "stopped"
  /\ UNCHANGED <<lan, restore, nextStream, drains, discovery, dead, acts>>

CaptureStep ==
  \/ Reconcile
  \/ \E d \in drains : DrainBegin(d) \/ DrainTick(d) \/ DrainPop(d) \/ DrainDone(d)
  \/ DiscoveryEnds \/ StopWaited

\* Every goroutine runs.  Of a drain whose context ended select may take the
\* ticker's case again, at random, but not for ever: strong fairness, stated for
\* the drains together, which ends them all as their number is bounded.
CaptureFairness ==
  /\ WF_captureVars(Reconcile)
  /\ WF_captureVars(DiscoveryEnds) /\ WF_captureVars(StopWaited)
  /\ \A s \in Source :
       WF_captureVars(\E d \in drains : d.for = s /\ (DrainBegin(d) \/ DrainPop(d)))
  /\ SF_captureVars(\E d \in drains : DrainDone(d))

-----------------------------------------------------------------------------
\* Every source and its ring belong to one channel that is sent, and a
\* goroutine was started for it that still runs: none is left open by a channel
\* that is renamed, vanishes, comes back, is toggled or fails; none is closed
\* under a channel that still sends; none is without the goroutine of its own
\* start, or has two of them, whatever those of earlier starts still do; and
\* Stop leaves neither goroutine nor source (startCaptureLocked,
\* stopCaptureLocked, drainCapture, Stop).
SourcesAreOwned ==
  /\ open = {SourceOf(c) : c \in Enabled}
  /\ \A c, d \in Enabled : SourceOf(c) = SourceOf(d) => c = d
  /\ \A d, e \in drains : d.for = e.for => d = e
  /\ life = "running" => open \subseteq {d.for : d \in drains}
  /\ life = "stopped" => drains = {} /\ open = {}

\* Drains end after their source was closed, also when their channel was
\* enabled again meanwhile: those of former starts do not pile up
\* (stopCaptureLocked, drainCapture).
ClosedDrainsEnd ==
  (\E d \in drains : d.for \notin open) ~> (dead \/ \A d \in drains : d.for \in open)

\* session.go defers Stop: it returns, whatever the drains and the discovery
\* loop were doing, and leaves neither goroutine nor source.
StopReturns == life = "stopping" ~> (dead \/ (life = "stopped" /\ drains = {} /\ open = {}))

\* "This local is never shared with another drain goroutine" (drainCapture).
SnapshotsNotShared == \A d, e \in drains : d.src # None /\ d.src = e.src => d = e
=============================================================================
