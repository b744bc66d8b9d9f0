------------------------------ MODULE SendPath ------------------------------
(***************************************************************************)
(* The way of captured audio from Link's callback to a receiver's loss     *)
(* counters: the capture ring, the drain loop with its loss tracker and    *)
(* the assembler's anchor, the encoder's sequence numbers, the pacer, the  *)
(* outgoing queue, the relay, the receiver's queue and recordFrame.        *)
(* Nobody on this way may wait for the next one: every hop drops what it   *)
(* cannot take, and the two ends are to notice.                            *)
(*                                                                         *)
(* One captured channel, one source that stays open, one receiver.         *)
(***************************************************************************)
EXTENDS CaptureRing, Sequences, FiniteSets

CONSTANTS
  MaxBuffers, \* bound on the buffers the publisher sends
  MaxWindows, \* windows one buffer completes at most
  MaxFrames,  \* bound on the frames encoded
  SeqModulus, \* 2^32
  FirstSeq,   \* ch.seq when the receiver tunes in
  PaceDepth, OutDepth, RelayDepth, InDepth \* sendQueueBatches, the channels' capacities

ASSUME PathAssumption ==
  /\ {MaxBuffers, MaxWindows, MaxFrames, SeqModulus, FirstSeq} \subseteq Nat
  /\ {PaceDepth, OutDepth, RelayDepth, InDepth} \subseteq Nat \ {0}
  /\ Buffer = [count : 0..MaxBuffers, mapped : BOOLEAN]
  /\ MaxFrames <= SeqModulus \div 2 \* a gap of half the numbers reads as a reordering

VARIABLES
  count,    \* the publisher's next buffer count
  loss,     \* lanloss.Tracker: [first, expected, lost]
  anchored, \* Assembler.anchored
  placed,   \* the last buffer placed: [count, skipped, spliced]; see Place
  sent,     \* frames encoded so far; ch.seq is FirstSeq later
  pace, out, relay, inbox, \* frames in the pacer, audioOutCh, the relay and AudioCh
  track,    \* StreamTrack and PeerState: [has, next, lost, reorders]
  heard     \* the frames received, by their place in the sender's stream

sendVars == <<loss, anchored, placed, sent>>
wireVars == <<pace, out, relay, inbox>>
recvVars == <<track, heard>>
pathVars == <<count, sendVars, wireVars, recvVars>>
vars == <<ringVars, pathVars>>

Seq32   == 0..(SeqModulus - 1)
FrameNo == 0..(MaxFrames - 1)

TypeOK ==
  /\ RingTypeOK
  /\ count \in 0..(MaxBuffers + 1)
  /\ loss \in [first : BOOLEAN, expected : 0..(MaxBuffers + 1), lost : 0..MaxBuffers]
  /\ anchored \in BOOLEAN
  /\ placed \in [count : {Nothing} \cup 0..MaxBuffers, skipped : 0..MaxBuffers, spliced : BOOLEAN]
  /\ sent \in 0..MaxFrames
  /\ \A q \in {pace, out, relay, inbox} : q \in Seq(FrameNo)
  /\ Len(pace) <= PaceDepth /\ Len(out) <= OutDepth
  /\ Len(relay) <= RelayDepth /\ Len(inbox) <= InDepth
  /\ track \in [has : BOOLEAN, next : Seq32, lost : Nat, reorders : Nat]
  /\ heard \subseteq FrameNo

Init ==
  /\ RingInit
  /\ count = 0
  /\ loss = [first |-> FALSE, expected |-> 0, lost |-> 0]
  /\ anchored = FALSE
  /\ placed = [count |-> Nothing, skipped |-> 0, spliced |-> FALSE]
  /\ sent = 0
  /\ pace = <<>> /\ out = <<>> /\ relay = <<>> /\ inbox = <<>>
  /\ track = [has |-> FALSE, next |-> 0, lost |-> 0, reorders |-> 0]
  /\ heard = {}

\* A queue that never makes its sender wait.
Offer(q, f, depth) == IF Len(q) < depth THEN Append(q, f) ELSE q

-----------------------------------------------------------------------------
(* The publisher.  A buffer is lost on the LAN, or handed to the callback. *)

LanLoss ==
  /\ count < MaxBuffers
  /\ count' = count + 1
  /\ UNCHANGED <<ringVars, sendVars, wireVars, recvVars>>

\* Buffers of another Link session cannot be mapped to our beats.
Arrive(mapped) ==
  /\ count < MaxBuffers
  /\ Callback([count |-> count, mapped |-> mapped])
  /\ count' = count + 1
  /\ UNCHANGED <<sendVars, wireVars, recvVars>>

Ring == (Produce \/ Consume) /\ UNCHANGED pathVars

-----------------------------------------------------------------------------
(* The drain loop *)

\* Tracker.Observe: an older count changes nothing.
Observe(t, c) ==
  IF ~t.first THEN [t EXCEPT !.first = TRUE, !.expected = c + 1]
  ELSE IF c < t.expected THEN t
  ELSE [t EXCEPT !.expected = c + 1, !.lost = @ + (c - t.expected)]

Gap(t, c) == t.first /\ c > t.expected

\* Mutant: Reanchor is only called for a buffer that can be placed.
AnchoredIfMapped(b) == anchored /\ (b.mapped => ~Gap(loss, b.count))

\* Is the assembler's cursor still good for b?  Reanchor is called before b is
\* placed or skipped.
AnchoredFor(b) == anchored /\ ~Gap(loss, b.count)

\* AddWindows puts b behind the buffer before it, or by its stamp.
Place(b) ==
  /\ placed' = IF b.mapped
               THEN [count |-> b.count, skipped |-> 0,
                     spliced |-> AnchoredFor(b) /\ placed.count + placed.skipped + 1 # b.count]
               ELSE [placed EXCEPT !.skipped = @ + 1, !.spliced = FALSE]
  /\ anchored' = (AnchoredFor(b) \/ b.mapped)

\* The frames of the windows that b completed, one batch each; the last ones find
\* the pacer's queue full.  A window that cannot be encoded takes no number.
Emit(n) ==
  LET space == PaceDepth - Len(pace)
      fit   == IF n <= space THEN n ELSE space
  IN  /\ sent + n <= MaxFrames
      /\ sent' = sent + n
      /\ pace' = pace \o [i \in 1..fit |-> sent + i - 1]

Handle(n) ==
  /\ Return
  /\ loss' = Observe(loss, got.info.count)
  /\ Place(got.info)
  /\ IF got.info.mapped THEN Emit(n) ELSE n = 0 /\ UNCHANGED <<sent, pace>>
  /\ UNCHANGED <<count, out, relay, inbox, recvVars>>

-----------------------------------------------------------------------------
(* The way to the receiver *)

\* Sender.run, engineSend, SendAudio
Pace ==
  /\ pace # <<>>
  /\ pace' = Tail(pace)
  /\ out' = Offer(out, Head(pace), OutDepth)
  /\ UNCHANGED <<ringVars, count, sendVars, relay, inbox, recvVars>>

\* The write goroutine; at the relay the token bucket may refuse the frame, or
\* the receiver's send buffer may be full.
Write ==
  /\ out # <<>>
  /\ out' = Tail(out)
  /\ relay' \in {relay, Offer(relay, Head(out), RelayDepth)}
  /\ UNCHANGED <<ringVars, count, sendVars, pace, inbox, recvVars>>

\* Our connection is lost, and made again with new queues.
Reconnect ==
  /\ out # <<>>
  /\ out' = <<>>
  /\ UNCHANGED <<ringVars, count, sendVars, pace, relay, inbox, recvVars>>

\* The receiver's read goroutine
Deliver ==
  /\ relay # <<>>
  /\ relay' = Tail(relay)
  /\ inbox' = Offer(inbox, Head(relay), InDepth)
  /\ UNCHANGED <<ringVars, count, sendVars, pace, out, recvVars>>

\* Mutant: compared without regard to the wrap.
SeqLessPlain(a, b) == a < b

\* a is before b: the difference is negative in 32 bits.
SeqLess(a, b) == (a - b) % SeqModulus >= SeqModulus \div 2

\* recordFrame
Record(t, s) ==
  IF ~t.has THEN [t EXCEPT !.has = TRUE, !.next = (s + 1) % SeqModulus]
  ELSE IF SeqLess(s, t.next) THEN [t EXCEPT !.reorders = @ + 1]
  ELSE [t EXCEPT !.next = (s + 1) % SeqModulus,
                 !.lost = @ + ((s - t.next) % SeqModulus)]

Receive ==
  /\ inbox # <<>>
  /\ inbox' = Tail(inbox)
  /\ track' = Record(track, (FirstSeq + Head(inbox)) % SeqModulus)
  /\ heard' = heard \cup {Head(inbox)}
  /\ UNCHANGED <<ringVars, count, sendVars, pace, out, relay>>

-----------------------------------------------------------------------------

Next ==
  \/ LanLoss
  \/ \E mapped \in BOOLEAN : Arrive(mapped)
  \/ Ring
  \/ \E n \in 0..MaxWindows : Handle(n)
  \/ Pace \/ Write \/ Reconnect \/ Deliver \/ Receive

Spec == Init /\ [][Next]_vars

-----------------------------------------------------------------------------
(* Properties *)

\* Audio is laid down behind the audio before it only if nothing between the two
\* was lost, on the LAN or in the ring: a lost span reads as silence and the rest
\* of the stream stays where it belongs.
LostSpanIsSilence == ~placed.spliced

\* The frames that the receiver misses are those it counted as lost, whichever
\* hop dropped them and wherever the numbers wrap.
LossIsExact ==
  heard # {} =>
    LET first == CHOOSE f \in heard : \A g \in heard : f <= g
        last  == CHOOSE f \in heard : \A g \in heard : f >= g
    IN  /\ track.lost = Cardinality((first..last) \ heard)
        /\ track.reorders = 0
=============================================================================
