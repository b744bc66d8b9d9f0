------------------------------- MODULE Assembler -------------------------------
(* How a capture channel cuts the audio of a local Link Audio channel into the  *)
(* windows a sender encodes: internal/capture/assembler.go in windowed mode, as *)
(* drainCapture drives it.                                                      *)
(*                                                                              *)
(* A buffer carries the beat at which it begins.  Only its first placement, a   *)
(* lost buffer before it or a stamp far from the cursor makes the assembler     *)
(* believe the beat; otherwise samples are laid down back to back.  Beats are   *)
(* counted in units, a tempo is the number of frames of a unit, and of the      *)
(* samples only the number of frames is kept.  One goroutine runs the           *)
(* assembler: Receive is place and the micro-slew, each turn of the loop of     *)
(* AddWindows is a step of its own, and SetConfig comes between two buffers.    *)
EXTENDS Integers

CONSTANTS
  Window,      \* frames of a window
  Threshold,   \* reanchorThreshold
  Deadband,    \* slewDeadband
  SlewMax,     \* slewMaxPerBuffer
  SlewMin,     \* the shortest buffer a correction is smeared over
  Length,      \* the lengths, in units, the room's interval may have
  Tempo,       \* frames of a unit
  Size,        \* units of a buffer
  Deviation,   \* how far a stamp may be from where the source's stream is
  None,
  MaxBeat,     \* bound: units the source plays
  MaxChanges   \* bound: changes of the interval's length

ASSUME AssemblerAssumption ==
  /\ Window \in Nat \ {0}
  /\ Threshold \in Nat /\ Deadband \in Nat /\ SlewMax \in Nat
  /\ SlewMin \in Nat /\ SlewMin > SlewMax
  /\ Length \subseteq Nat \ {0} /\ Length # {}
  /\ Tempo \subseteq Nat \ {0}
  /\ \A l \in Length, t \in Tempo : l * t >= Window
  /\ Size \subseteq Nat \ {0}
  /\ Deviation \subseteq Int
  /\ MaxBeat \in Nat /\ MaxChanges \in Nat

\* An interval's buffer, windows that leave together, and one window.
Buf  == [index : Int, frames : Nat, written : Nat, emitted : Nat]
Run  == [index : Int, total : Nat, from : Nat, to : Nat]
Mark == [index : Int, number : Nat, total : Nat]

ASSUME NoneAssumption == None \notin Buf /\ None \notin Run /\ None \notin Mark

VARIABLES
  length,      \* cfg: units of an interval
  cur,         \* the interval being filled, or None
  pending,     \* the interval whose short final window is held, or None
  nextOff,     \* the cursor, frames into cur
  anchored,
  todo, tempo, \* frames of the buffer at hand still to place, and its tempo
  out,         \* what the step released: the held final window, then windows of cur
  last,        \* history: the last window released, None after SetConfig
  due,         \* history: where its stamp puts the next frame of the buffer, counted
               \* from beat 0 at the buffer's tempo
  beat,        \* where the source's stream is
  changes

vars == <<length, cur, pending, nextOff, anchored, todo, tempo, out, last, due,
          beat, changes>>

\* interval.Config: the interval a beat is in, and its place in frames.
IndexAtBeat(b) == b \div length
IntervalSamples(t) == length * t
FrameOffset(b, i, t) ==
  LET off == (b - i * length) * t
  IN IF off < 0 THEN 0 ELSE IF off > IntervalSamples(t) THEN IntervalSamples(t) ELSE off

NewBuf(i, t) == [index |-> i, frames |-> IntervalSamples(t), written |-> 0, emitted |-> 0]

\* totalWindows, and the frames the last window lacks.
Total(b) == (b.frames + Window - 1) \div Window
Pad(b) == Total(b) * Window - b.frames
ShortFinal(b) == b.frames % Window # 0

\* Windows from..to of an interval, released in this order.
Release(b, from, to) == [index |-> b.index, total |-> Total(b), from |-> from, to |-> to]

Nothing == [held |-> None, body |-> None]

\* finalWindow of the interval whose last window is held.
Held(p) == IF p = None THEN None ELSE Release(p, Total(p) - 1, Total(p) - 1)

\* remainingWindows: all that has not left yet, silence where nothing came.
Remaining(b) ==
  IF b.emitted >= Total(b) THEN None ELSE Release(b, b.emitted, Total(b) - 1)

\* readyWindows: the windows whose end is covered, without a short final one.
Full(b) == IF ShortFinal(b) THEN Total(b) - 1 ELSE Total(b)

Ready(b) ==
  IF b.written >= b.frames \/ b.written \div Window > Full(b)
  THEN Full(b) ELSE b.written \div Window

\* A step hands the windows r to the encoder.
Send(r) ==
  /\ out' = r
  /\ last' = IF r.body # None THEN [index |-> r.body.index, number |-> r.body.to, total |-> r.body.total]
             ELSE IF r.held # None THEN [index |-> r.held.index, number |-> r.held.to, total |-> r.held.total]
             ELSE last

--------------------------------------------------------------------------------
(* place: where a buffer goes.                                                  *)

\* The first buffer, and the first after SetConfig, is placed by its stamp.
First(b, n, t) ==
  LET i == IndexAtBeat(b) IN
  /\ cur = None
  /\ cur' = NewBuf(i, t)
  /\ nextOff' = FrameOffset(b, i, t)
  /\ anchored' = TRUE
  /\ todo' = n * t
  /\ due' = b * t
  /\ Send(Nothing)
  /\ UNCHANGED pending

\* Mutant: the stamp's place within its interval is compared, not the interval.
DivergenceWithinInterval(b, t) == FrameOffset(b, IndexAtBeat(b), t) - nextOff

\* How far the stamp is ahead of the cursor.
Divergence(b, t) ==
  (IndexAtBeat(b) - cur.index) * cur.frames + FrameOffset(b, IndexAtBeat(b), t) - nextOff

Near(b, t) == Divergence(b, t) <= Threshold /\ Divergence(b, t) >= -Threshold

\* The micro-slew: a few frames more or fewer, towards the stamp.
Slew(n, d) ==
  IF n < SlewMin THEN 0
  ELSE IF d > Deadband THEN IF d < SlewMax THEN d ELSE SlewMax
  ELSE IF d < -Deadband THEN IF -d < SlewMax THEN d ELSE -SlewMax
  ELSE 0

\* The stamp agrees with the cursor: the samples follow those before them.
Contiguous(b, n, t, trusted) ==
  /\ cur # None /\ trusted /\ Near(b, t)
  /\ todo' = n * t + Slew(n * t, Divergence(b, t))
  /\ anchored' = trusted
  /\ due' = b * t
  /\ Send(Nothing)
  /\ UNCHANGED <<cur, pending, nextOff>>

\* Mutant: the held final window is forgotten.
ReanchorForgetsHeld(b, n, t, trusted) ==
  LET i == IndexAtBeat(b) IN
  /\ cur # None /\ ~(trusted /\ Near(b, t)) /\ i >= cur.index
  /\ anchored' = TRUE
  /\ nextOff' = FrameOffset(b, i, t)
  /\ todo' = n * t
  /\ due' = b * t
  /\ IF i > cur.index
     THEN /\ Send([held |-> None, body |-> Remaining(cur)])
          /\ pending' = None
          /\ cur' = NewBuf(i, t)
     ELSE Send(Nothing) /\ UNCHANGED <<pending, cur>>

\* A genuine discontinuity: the stamp is believed, and an interval it leaves
\* behind is flushed, the held final window first.
Reanchor(b, n, t, trusted) ==
  LET i == IndexAtBeat(b) IN
  /\ cur # None /\ ~(trusted /\ Near(b, t)) /\ i >= cur.index
  /\ anchored' = TRUE
  /\ nextOff' = FrameOffset(b, i, t)
  /\ todo' = n * t
  /\ due' = b * t
  /\ IF i > cur.index
     THEN /\ Send([held |-> Held(pending), body |-> Remaining(cur)])
          /\ pending' = None
          /\ cur' = NewBuf(i, t)
     ELSE Send(Nothing) /\ UNCHANGED <<pending, cur>>

\* A stamp in an interval that was left behind: the buffer is dropped.
Late(b, t, trusted) ==
  /\ cur # None /\ ~(trusted /\ Near(b, t)) /\ IndexAtBeat(b) < cur.index
  /\ anchored' = trusted
  /\ Send(Nothing)
  /\ UNCHANGED <<cur, pending, nextOff, todo, due>>

\* drainCapture hands over a buffer; before one that follows a loss it calls
\* Assembler.Reanchor.
Receive(d, n, t, lost) ==
  /\ todo = 0
  /\ beat + n <= MaxBeat
  /\ beat' = beat + n
  /\ tempo' = t
  /\ \/ First(beat + d, n, t)
     \/ Contiguous(beat + d, n, t, anchored /\ ~lost)
     \/ Reanchor(beat + d, n, t, anchored /\ ~lost)
     \/ Late(beat + d, t, anchored /\ ~lost)
  /\ UNCHANGED <<length, changes>>

--------------------------------------------------------------------------------
(* The loop of AddWindows.                                                      *)

\* The cursor has reached the end of cur: the next interval begins.
Turn ==
  /\ todo > 0 /\ nextOff >= cur.frames
  /\ IF ShortFinal(cur) /\ cur.emitted = Total(cur) - 1
     THEN pending' = cur /\ Send(Nothing)
     ELSE Send([held |-> None, body |-> Remaining(cur)]) /\ UNCHANGED pending
  /\ cur' = NewBuf(cur.index + 1, tempo)
  /\ nextOff' = 0
  /\ UNCHANGED <<length, anchored, todo, tempo, due, beat, changes>>

\* A buffer that lies behind what has left is dropped,
Behind ==
  /\ todo > 0 /\ nextOff < cur.frames
  /\ cur.emitted * Window - nextOff >= todo
  /\ todo' = 0
  /\ Send(Nothing)
  /\ UNCHANGED <<length, cur, pending, nextOff, anchored, tempo, due, beat, changes>>

\* one that reaches back into it is trimmed.
Skip == IF nextOff < cur.emitted * Window THEN cur.emitted * Window - nextOff ELSE 0

\* Mutant: the continuation must go past the pad.
ContinuedPast(b) == pending # None /\ b.index = pending.index + 1 /\ b.written > Pad(pending)

\* releasePending: the head of the next interval fills the held window's pad.
Continued(b) == pending # None /\ b.index = pending.index + 1 /\ b.written >= Pad(pending)

Write ==
  LET off == nextOff + Skip
      rest == todo - Skip
      n == IF rest < cur.frames - off THEN rest ELSE cur.frames - off
      w == IF off + n > cur.written THEN off + n ELSE cur.written
      b == [cur EXCEPT !.written = w]
  IN /\ todo > 0 /\ nextOff < cur.frames
     /\ rest > 0
     /\ nextOff' = off + n
     /\ todo' = rest - n
     /\ due' = due + Skip + n
     /\ cur' = [b EXCEPT !.emitted = IF Ready(b) > b.emitted THEN Ready(b) ELSE b.emitted]
     /\ pending' = IF Continued(b) THEN None ELSE pending
     /\ Send([held |-> IF Continued(b) THEN Held(pending) ELSE None,
              body |-> IF Ready(b) > b.emitted THEN Release(b, b.emitted, Ready(b) - 1) ELSE None])
     /\ UNCHANGED <<length, anchored, tempo, beat, changes>>

\* syncCaptureConfig: the room's interval changed, what is buffered is dropped.
SetConfig(l) ==
  /\ todo = 0
  /\ changes < MaxChanges
  /\ changes' = changes + 1
  /\ l # length
  /\ length' = l
  /\ cur' = None
  /\ pending' = None
  /\ anchored' = FALSE
  /\ out' = Nothing
  /\ last' = None
  /\ UNCHANGED <<nextOff, todo, tempo, due, beat>>

--------------------------------------------------------------------------------
Init ==
  /\ length \in Length
  /\ cur = None
  /\ pending = None
  /\ nextOff = 0
  /\ anchored = FALSE
  /\ todo = 0
  /\ tempo \in Tempo
  /\ out = Nothing
  /\ last = None
  /\ due = 0
  /\ beat = 0
  /\ changes = 0

Next ==
  \/ \E d \in Deviation, n \in Size, t \in Tempo, lost \in BOOLEAN : Receive(d, n, t, lost)
  \/ Turn
  \/ Behind
  \/ Write
  \/ \E l \in Length : SetConfig(l)

Spec == Init /\ [][Next]_vars

--------------------------------------------------------------------------------
(* Properties.                                                                  *)

\* Every variable has its type.  The interval being filled is never overfilled, and
\* its short final window has not left: readyWindows withholds it.
TypeOK ==
  /\ length \in Length
  /\ cur # None => cur \in Buf /\ cur.written <= cur.frames /\ cur.emitted <= Full(cur)
  /\ pending = None \/ pending \in Buf
  /\ nextOff \in Nat /\ anchored \in BOOLEAN
  /\ todo \in Nat /\ tempo \in Tempo
  /\ \A f \in {"held", "body"} : out[f] = None \/ out[f] \in Run
  /\ last = None \/ last \in Mark
  /\ due \in Int /\ beat \in Nat /\ changes \in 0 .. MaxChanges

\* The windows r may follow the window w: they go on where it ends, or begin a
\* later interval once w was the last of its own.
Follows(w, r) ==
  /\ r.from <= r.to /\ r.to < r.total
  /\ \/ w = None /\ r.from = 0
     \/ w # None /\ w.index = r.index /\ w.total = r.total /\ r.from = w.number + 1
     \/ w # None /\ w.index < r.index /\ w.number = w.total - 1 /\ r.from = 0

Chained ==
  /\ out'.held # None => Follows(last, out'.held)
  /\ out'.body # None =>
       Follows(IF out'.held = None THEN last
               ELSE [index |-> out'.held.index, number |-> out'.held.to,
                     total |-> out'.held.total], out'.body)

\* Every interval leaves as windows 0, 1, ... up to its final one, each once, and no
\* later interval before that: whatever is lost, jumps back or ahead, is held for its
\* continuation or flushed.  Receivers take a round's frame numbers and its final
\* frame's total for granted ("Emitted windows are immutable", AddWindows).
WindowsChain == [][Chained]_vars

\* Nothing complete is kept back: between two buffers every window whose end is
\* covered has left, and a final window is held only while its continuation is short
\* of its pad ("a window is ready once coverage passes its end", AddWindows).
NothingKeptBack ==
  todo = 0 /\ cur # None =>
    /\ cur.emitted >= Ready(cur)
    /\ pending # None => cur.index = pending.index + 1 /\ cur.written < Pad(pending)

\* However the stamps drift and jump, at a steady tempo the audio is placed no farther
\* from its stamp than the re-anchor threshold, across the ends of intervals too
\* ("beat stamps only anchor the stream", Assembler).
PlacedByItsStamp ==
  todo > 0 =>
    LET place == cur.index * cur.frames + nextOff
    IN place - due <= Threshold /\ due - place <= Threshold
================================================================================
