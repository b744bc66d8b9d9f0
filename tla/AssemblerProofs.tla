---------------------------- MODULE AssemblerProofs ----------------------------
(* What the capture assembler keeps for every size of window, interval and buffer *)
(* and every threshold, as long as the source's tempo is steady.                  *)
(*                                                                                *)
(* The windows that left, the windows that are ready and the last one released    *)
(* are three records of the same thing.  The invariant keeps them together: of    *)
(* the interval being filled exactly what is ready has left (Filling), of the one *)
(* that is held all but its short final window (Holding), and what left last is   *)
(* what comes before the next to leave (Leaving).  The cursor reaches an end only *)
(* by writing up to it, so an interval that is turned over is complete, and the   *)
(* head of the next one, a window long, fills any pad before a second final       *)
(* window could be held.                                                          *)
EXTENDS Assembler, TLAPS

-----------------------------------------------------------------------------
(* Windows of an interval *)

\* Where the windows begin.  Kept folded, for the provers know little of products.
Starts(k) == Window * k

LEMMA Starting ==
  ASSUME NEW k \in Int
  PROVE  /\ Starts(k) \in Int /\ k * Window = Starts(k)
         /\ Starts(k + 1) = Starts(k) + Window /\ Starts(0) = 0
<1>1. Window \in Int
  BY AssemblerAssumption
<1>2. Starts(k) \in Int
  BY <1>1 DEF Starts
<1>3. k * Window = Starts(k)
  BY <1>1, Z3 DEF Starts
<1>4. Starts(k + 1) = Starts(k) + Window
  BY <1>1, Z3 DEF Starts
<1> QED
  BY <1>1, <1>2, <1>3, <1>4 DEF Starts

LEMMA StartsGrow ==
  ASSUME NEW i \in Int, NEW j \in Int, i < j
  PROVE  Starts(i) + Window <= Starts(j)
<1>1. Window \in Nat \ {0}
  BY AssemblerAssumption
<1> DEFINE d == j - i - 1
<1>2. d \in Nat /\ Window * d \in Nat
  BY <1>1
<1>3. Window * j = Window * i + Window + Window * d
  BY <1>1, Z3
<1> QED
  BY <1>1, <1>2, <1>3 DEF Starts

\* What \div and % give, folded as well.
Quotient(x) == x \div Window
Rest(x)     == x % Window

LEMMA Division ==
  ASSUME NEW x \in Nat
  PROVE  /\ Quotient(x) \in Nat /\ Rest(x) \in Nat /\ Rest(x) < Window
         /\ Starts(Quotient(x)) \in Int /\ x = Starts(Quotient(x)) + Rest(x)
<1>1. Window \in Nat \ {0}
  BY AssemblerAssumption
<1>2. Quotient(x) \in Nat
  BY <1>1 DEF Quotient
<1>3. Rest(x) \in Nat /\ Rest(x) < Window
  BY <1>1 DEF Rest
<1>4. x - Starts(Quotient(x)) = Rest(x)
  BY <1>1, Z3 DEF Starts, Quotient, Rest
<1>5. Starts(Quotient(x)) \in Int
  BY <1>2, Starting
<1> QED
  BY <1>2, <1>3, <1>4, <1>5

\* There is one way to divide.
LEMMA DivisionIs ==
  ASSUME NEW x \in Nat, NEW q \in Nat, NEW r \in Nat, r < Window, x = Starts(q) + r
  PROVE  Quotient(x) = q
<1> DEFINE d == Quotient(x)
           e == Rest(x)
<1>1. Window \in Nat \ {0}
  BY AssemblerAssumption
<1>2. d \in Nat /\ e \in Nat /\ e < Window /\ Starts(d) \in Int /\ x = Starts(d) + e
  BY Division
<1>3. Starts(q) \in Int
  BY Starting
<1> HIDE DEF d, e
<1>4. d < q => Starts(d) + Window <= Starts(q)
  BY <1>2, StartsGrow
<1>5. q < d => Starts(q) + Window <= Starts(d)
  BY <1>2, StartsGrow
<1>6. d = q
  BY <1>1, <1>2, <1>3, <1>4, <1>5
<1> QED
  BY <1>6 DEF d

\* The windows of an interval that is not shorter than one.
LEMMA Measures ==
  ASSUME NEW b \in Buf, b.frames >= Window
  PROVE  /\ Total(b) \in Nat /\ Total(b) >= 1 /\ Full(b) \in Nat /\ Full(b) <= Total(b)
         /\ Starts(Full(b)) <= b.frames
         /\ ~ShortFinal(b) => Full(b) = Total(b)
         /\ ShortFinal(b) => /\ Full(b) = Total(b) - 1 /\ Total(b) >= 2
                             /\ Pad(b) \in Nat /\ 0 < Pad(b) /\ Pad(b) < Window
<1> DEFINE f == b.frames
           q == Quotient(f)
           r == Rest(f)
           g == f + Window - 1
<1>1. Window \in Nat \ {0} /\ f \in Nat /\ f >= Window /\ g \in Nat
  BY AssemblerAssumption DEF Buf
<1>2. q \in Nat /\ r \in Nat /\ r < Window /\ f = Starts(q) + r /\ Starts(q) \in Int
  BY <1>1, Division
<1>3. /\ Total(b) = Quotient(g) /\ Pad(b) = Total(b) * Window - f
      /\ ShortFinal(b) <=> r # 0
  BY DEF Total, Pad, ShortFinal, Quotient, Rest
<1> HIDE DEF f, q, r, g
<1>4. q >= 1
  BY <1>1, <1>2, Starting
<1>5. CASE r = 0
  <2>1. g = Starts(q) + (Window - 1) /\ Window - 1 \in Nat
    BY <1>1, <1>2, <1>5 DEF g
  <2>2. Total(b) = q
    BY <1>1, <1>2, <1>3, <2>1, DivisionIs
  <2>3. ~ShortFinal(b) /\ Full(b) = q
    BY <1>3, <1>5, <2>2 DEF Full
  <2> QED
    BY <1>2, <1>4, <1>5, <2>2, <2>3 DEF f
<1>6. CASE r > 0
  <2>1. g = Starts(q + 1) + (r - 1) /\ r - 1 \in Nat /\ Starts(q + 1) = Starts(q) + Window
    BY <1>1, <1>2, <1>6, Starting DEF g
  <2>2. Total(b) = q + 1
    BY <1>1, <1>2, <1>3, <2>1, DivisionIs
  <2>3. ShortFinal(b) /\ Full(b) = q
    BY <1>2, <1>3, <1>6, <2>2 DEF Full
  <2>4. (q + 1) * Window = Starts(q + 1)
    BY <1>2, Starting
  <2>5. Pad(b) = Window - r
    BY <1>1, <1>2, <1>3, <2>1, <2>2, <2>4
  <2> QED
    BY <1>1, <1>2, <1>4, <1>6, <2>2, <2>3, <2>5 DEF f
<1> QED
  BY <1>2, <1>5, <1>6

\* How many windows are ready.
LEMMA ReadyIs ==
  ASSUME NEW b \in Buf, b.frames >= Window, b.written <= b.frames
  PROVE  /\ Ready(b) \in Nat /\ Ready(b) <= Full(b)
         /\ b.written = b.frames => Ready(b) = Full(b)
         /\ b.written < Window /\ b.written < b.frames => Ready(b) = 0
<1>1. Window \in Nat \ {0} /\ b.frames \in Nat /\ b.written \in Nat
  BY AssemblerAssumption DEF Buf
<1>2. Full(b) \in Nat
  BY Measures
<1> DEFINE x == Quotient(b.written)
<1>3. x \in Nat
  BY <1>1, Division
<1>4. b.written < Window => x = 0
  <2>1. Starts(0) = 0
    BY Starting
  <2> QED
    BY <1>1, <2>1, DivisionIs
<1>5. Ready(b) = IF b.written >= b.frames \/ x > Full(b) THEN Full(b) ELSE x
  BY DEF Ready, Quotient
<1> HIDE DEF x
<1> QED
  BY <1>1, <1>2, <1>3, <1>4, <1>5

LEMMA ReadyGrows ==
  ASSUME NEW b \in Buf, NEW c \in Buf, b.frames >= Window, c.frames = b.frames,
         b.written <= c.written, c.written <= c.frames
  PROVE  Ready(b) <= Ready(c)
<1>1. /\ Window \in Nat \ {0} /\ b.frames \in Nat /\ b.written \in Nat /\ c.written \in Nat
      /\ c.frames \in Nat
  BY AssemblerAssumption DEF Buf
<1>2. Full(b) \in Nat /\ Full(c) = Full(b)
  BY Measures DEF Full, Total, ShortFinal
<1> DEFINE x == Quotient(b.written)
           y == Quotient(c.written)
           r == Rest(b.written)
           s == Rest(c.written)
<1>3. x \in Nat /\ r \in Nat /\ r < Window /\ b.written = Starts(x) + r /\ Starts(x) \in Int
  BY <1>1, Division
<1>4. y \in Nat /\ s \in Nat /\ s < Window /\ c.written = Starts(y) + s /\ Starts(y) \in Int
  BY <1>1, Division
<1>5. /\ Ready(b) = IF b.written >= b.frames \/ x > Full(b) THEN Full(b) ELSE x
      /\ Ready(c) = IF c.written >= c.frames \/ y > Full(c) THEN Full(c) ELSE y
  BY DEF Ready, Quotient
<1> HIDE DEF x, y, r, s
<1>6. ~(y < x)
  BY <1>1, <1>3, <1>4, StartsGrow
<1> QED
  BY <1>1, <1>2, <1>3, <1>4, <1>5, <1>6

-----------------------------------------------------------------------------
(* The inductive invariant, at a steady tempo *)

\* The source's tempo does not change.  When it falls in mid-interval, the interval
\* that is being filled has too few frames, and neither the order of the windows nor
\* the place of the audio can be kept.
Steady == \A t, u \in Tempo : t = u

\* Frames of an interval.
Frames == IntervalSamples(tempo)

Plain ==
  /\ length \in Length /\ tempo \in Tempo
  /\ nextOff \in Nat /\ todo \in Nat /\ anchored \in BOOLEAN
  /\ due \in Int /\ beat \in Nat /\ changes \in 0..MaxChanges
  /\ todo > 0 => cur # None

\* Of the interval being filled exactly what is ready has left, and the cursor comes
\* to its end by writing to its end.
Filling ==
  cur # None =>
    /\ cur \in Buf /\ cur.frames = Frames
    /\ cur.written <= cur.frames
    /\ cur.emitted = Ready(cur)
    /\ nextOff <= cur.frames
    /\ nextOff = cur.frames => cur.written = cur.frames

\* A held interval lacks its short final window only, it is the one before, and the
\* head that would fill that window is not there.
Holding ==
  pending # None =>
    /\ pending \in Buf /\ pending.frames = Frames
    /\ ShortFinal(pending) /\ pending.emitted = Total(pending) - 1
    /\ cur # None /\ cur.index = pending.index + 1 /\ cur.written < Pad(pending)

\* w is the last window of an interval before i, or there is none.
Ended(w, i) == w = None \/ (w \in Mark /\ w.index < i /\ w.number = w.total - 1)

\* The windows of b before the k-th have left.
Reached(w, b, k) == w = [index |-> b.index, number |-> k - 1, total |-> Total(b)]

\* What has left last is the window before the one that is to leave next.
Leaving ==
  /\ cur = None => last = None
  /\ pending # None => Reached(last, pending, pending.emitted)
  /\ cur # None /\ pending = None =>
       IF cur.emitted > 0 THEN Reached(last, cur, cur.emitted) ELSE Ended(last, cur.index)

IInv == Plain /\ Filling /\ Holding /\ Leaving /\ PlacedByItsStamp

LEMMA FramesAre ==
  ASSUME length \in Length, NEW t \in Tempo
  PROVE  IntervalSamples(t) \in Nat /\ IntervalSamples(t) >= Window /\ IntervalSamples(t) > 0
<1>1. length \in Nat /\ t \in Nat /\ Window \in Nat \ {0}
  BY AssemblerAssumption
<1>2. length * t \in Nat
  BY <1>1
<1>3. length * t >= Window
  BY AssemblerAssumption
<1> QED
  BY <1>1, <1>2, <1>3 DEF IntervalSamples

\* The place of a beat: within the interval it is in, and where it is from beat 0 on.
LEMMA PlaceOfBeat ==
  ASSUME length \in Length, NEW t \in Tempo, NEW b \in Int
  PROVE  /\ IndexAtBeat(b) \in Int /\ b * t \in Int
         /\ FrameOffset(b, IndexAtBeat(b), t) \in Nat
         /\ FrameOffset(b, IndexAtBeat(b), t) < IntervalSamples(t)
         /\ IndexAtBeat(b) * IntervalSamples(t) + FrameOffset(b, IndexAtBeat(b), t) = b * t
<1> DEFINE i == IndexAtBeat(b)
           r == b - i * length
<1>1. length \in Nat \ {0} /\ t \in Nat \ {0}
  BY AssemblerAssumption
<1>2. i \in Int
  BY <1>1 DEF IndexAtBeat
<1>3. r = b % length
  BY <1>1, Z3 DEF IndexAtBeat
<1>4. r \in Nat /\ r < length
  BY <1>1, <1>3
<1>5. b = i * length + r /\ i * length \in Int
  BY <1>1, <1>2, <1>4
<1> HIDE DEF i, r
<1>6. r * t \in Nat /\ length * t \in Nat /\ b * t \in Int
  BY <1>1, <1>4
<1>7. r * t + t <= length * t
  <2>1. (length - r - 1) * t >= 0
    BY <1>1, <1>4
  <2>2. (length - r - 1) * t = length * t - r * t - t
    BY <1>1, <1>4, Z3
  <2> QED
    BY <1>1, <1>6, <2>1, <2>2
<1>8. FrameOffset(b, i, t) = r * t
  <2>1. FrameOffset(b, i, t) = IF r * t < 0 THEN 0 ELSE IF r * t > length * t THEN length * t ELSE r * t
    BY DEF FrameOffset, IntervalSamples, r
  <2> QED
    BY <1>1, <1>6, <1>7, <2>1
<1>9. i * (length * t) + r * t = b * t
  BY <1>1, <1>2, <1>4, <1>5, Z3
<1> QED
  BY <1>1, <1>2, <1>6, <1>7, <1>8, <1>9 DEF i, IntervalSamples

\* A new interval's buffer.
LEMMA NewBuffer ==
  ASSUME length \in Length, NEW t \in Tempo, NEW i \in Int
  PROVE  /\ NewBuf(i, t) \in Buf /\ NewBuf(i, t) # None
         /\ NewBuf(i, t).index = i /\ NewBuf(i, t).frames = IntervalSamples(t)
         /\ NewBuf(i, t).written = 0 /\ NewBuf(i, t).emitted = 0
         /\ Ready(NewBuf(i, t)) = 0
<1> DEFINE b == NewBuf(i, t)
<1>1. IntervalSamples(t) \in Nat /\ IntervalSamples(t) >= Window /\ IntervalSamples(t) > 0
  BY FramesAre
<1>2. /\ b \in Buf /\ b.index = i /\ b.frames = IntervalSamples(t) /\ b.written = 0
      /\ b.emitted = 0
  BY <1>1 DEF NewBuf, Buf
<1>3. b # None
  BY <1>2, NoneAssumption
<1> HIDE DEF b
<1>4. Ready(b) = 0
  BY <1>1, <1>2, ReadyIs, AssemblerAssumption
<1> QED
  BY <1>2, <1>3, <1>4 DEF b

\* While a window is held nothing of the next interval has left.
LEMMA HoldingIsEarly ==
  ASSUME IInv, pending # None
  PROVE  /\ cur # None /\ cur \in Buf /\ cur.emitted = 0 /\ cur.written < cur.frames
         /\ nextOff < cur.frames
<1>1. Frames \in Nat /\ Frames >= Window
  BY FramesAre DEF IInv, Plain, Frames
<1>2. /\ pending \in Buf /\ pending.frames = Frames /\ ShortFinal(pending)
      /\ cur # None /\ cur.written < Pad(pending)
  BY DEF IInv, Holding
<1>3. Pad(pending) < Window /\ Pad(pending) \in Nat
  BY <1>1, <1>2, Measures
<1>4. /\ cur \in Buf /\ cur.frames = Frames /\ cur.written <= cur.frames
      /\ cur.emitted = Ready(cur) /\ nextOff <= cur.frames
      /\ nextOff = cur.frames => cur.written = cur.frames
  BY <1>2 DEF IInv, Filling
<1>5. cur.written \in Nat /\ Window \in Nat /\ nextOff \in Nat
  BY <1>4, AssemblerAssumption DEF Buf, IInv, Plain
<1>6. cur.written < cur.frames /\ cur.written < Window
  BY <1>1, <1>2, <1>3, <1>4, <1>5
<1>7. cur.emitted = 0
  BY <1>1, <1>4, <1>6, ReadyIs
<1> QED
  BY <1>1, <1>2, <1>4, <1>5, <1>6, <1>7

LEMMA SendNothing ==
  ASSUME Send(Nothing)
  PROVE  last' = last /\ Chained
  BY DEF Send, Nothing, Chained

\* What Send notes.
LEMMA SendIs ==
  ASSUME NEW h, NEW b, Send([held |-> h, body |-> b])
  PROVE  /\ out'.held = h /\ out'.body = b
         /\ b # None => last' = [index |-> b.index, number |-> b.to, total |-> b.total]
         /\ b = None /\ h # None => last' = [index |-> h.index, number |-> h.to, total |-> h.total]
         /\ b = None /\ h = None => last' = last
<1> DEFINE r == [held |-> h, body |-> b]
<1>1. r.held = h /\ r.body = b
  OBVIOUS
<1>2. out' = r /\ last' = IF r.body # None THEN [index |-> r.body.index, number |-> r.body.to, total |-> r.body.total]
             ELSE IF r.held # None THEN [index |-> r.held.index, number |-> r.held.to, total |-> r.held.total]
             ELSE last
  BY DEF Send
<1> HIDE DEF r
<1> QED
  BY <1>1, <1>2

\* Windows i..j of a buffer may follow the one before the i-th.
LEMMA FollowsReached ==
  ASSUME NEW w, NEW b \in Buf, NEW i \in Nat, NEW j \in Nat, i <= j, j < Total(b), Total(b) \in Nat,
         i > 0, Reached(w, b, i)
  PROVE  /\ Release(b, i, j) # None /\ Follows(w, Release(b, i, j))
         /\ Release(b, i, j).index = b.index /\ Release(b, i, j).to = j
         /\ Release(b, i, j).total = Total(b)
<1>1. Release(b, i, j) \in Run
  BY DEF Release, Run, Buf
<1>2. w \in Mark /\ w.index = b.index /\ w.number = i - 1 /\ w.total = Total(b)
  BY DEF Reached, Mark, Buf
<1> QED
  BY <1>1, <1>2, NoneAssumption DEF Release, Follows

\* The first windows may follow the last one of an earlier interval.
LEMMA FollowsEnded ==
  ASSUME NEW w, NEW b \in Buf, NEW j \in Nat, j < Total(b), Total(b) \in Nat, Ended(w, b.index)
  PROVE  /\ Release(b, 0, j) # None /\ Follows(w, Release(b, 0, j))
         /\ Release(b, 0, j).index = b.index /\ Release(b, 0, j).to = j
         /\ Release(b, 0, j).total = Total(b)
<1>1. Release(b, 0, j) \in Run
  BY DEF Release, Run, Buf
<1>2. b.index \in Int
  BY DEF Buf
<1> QED
  BY <1>1, <1>2, NoneAssumption DEF Release, Follows, Ended

\* What the invariant says of the two buffers.
LEMMA FillingIs ==
  ASSUME IInv, cur # None
  PROVE  /\ Frames \in Nat /\ Frames >= Window /\ Frames > 0
         /\ cur \in Buf /\ cur.frames = Frames /\ cur.index \in Int /\ cur.written \in Nat
         /\ cur.written <= cur.frames /\ cur.emitted = Ready(cur) /\ cur.emitted \in Nat
         /\ Total(cur) \in Nat /\ Total(cur) >= 1 /\ Full(cur) \in Nat /\ Full(cur) <= Total(cur)
         /\ cur.emitted <= Full(cur)
         /\ cur.written = cur.frames => cur.emitted = Full(cur)
<1>1. Frames \in Nat /\ Frames >= Window /\ Frames > 0
  BY FramesAre DEF IInv, Plain, Frames
<1>2. /\ cur \in Buf /\ cur.frames = Frames /\ cur.written <= cur.frames
      /\ cur.emitted = Ready(cur)
  BY DEF IInv, Filling
<1>3. cur.index \in Int /\ cur.written \in Nat /\ cur.emitted \in Nat
  BY <1>2 DEF Buf
<1> QED
  BY <1>1, <1>2, <1>3, Measures, ReadyIs

LEMMA HoldingIs ==
  ASSUME IInv, pending # None
  PROVE  /\ pending \in Buf /\ pending.frames = Frames /\ pending.index \in Int
         /\ ShortFinal(pending)
         /\ Total(pending) \in Nat /\ Total(pending) >= 2
         /\ pending.emitted = Total(pending) - 1
         /\ Pad(pending) \in Nat /\ 0 < Pad(pending) /\ Pad(pending) < Window
         /\ cur.index = pending.index + 1 /\ cur.written < Pad(pending)
<1>1. Frames \in Nat /\ Frames >= Window
  BY FramesAre DEF IInv, Plain, Frames
<1>2. /\ pending \in Buf /\ pending.frames = Frames /\ ShortFinal(pending)
      /\ pending.emitted = Total(pending) - 1
      /\ cur.index = pending.index + 1 /\ cur.written < Pad(pending)
  BY DEF IInv, Holding
<1>3. pending.index \in Int
  BY <1>2 DEF Buf
<1> QED
  BY <1>1, <1>2, <1>3, Measures

\* The held window may leave, and a later interval may follow it.
LEMMA HeldLeaves ==
  ASSUME IInv, pending # None, NEW h, h = Held(pending)
  PROVE  /\ h # None /\ Follows(last, h)
         /\ Ended([index |-> h.index, number |-> h.to, total |-> h.total], cur.index)
<1> DEFINE k == Total(pending) - 1
<1>1. /\ pending \in Buf /\ pending.index \in Int /\ Total(pending) \in Nat
      /\ k \in Nat /\ k > 0 /\ pending.emitted = k /\ cur.index = pending.index + 1
  BY HoldingIs
<1>2. Reached(last, pending, k)
  BY <1>1 DEF IInv, Leaving
<1>3. h = Release(pending, k, k)
  BY DEF Held
<1> HIDE DEF k
<1>4. k < Total(pending) /\ k = Total(pending) - 1
  BY <1>1 DEF k
<1>5. /\ h # None /\ Follows(last, h) /\ h.index = pending.index /\ h.to = k
      /\ h.total = Total(pending)
  BY <1>1, <1>2, <1>3, <1>4, FollowsReached
<1>6. [index |-> h.index, number |-> h.to, total |-> h.total] \in Mark
  BY <1>1, <1>5 DEF Mark
<1> QED
  BY <1>1, <1>4, <1>5, <1>6 DEF Ended

\* An interval that is left: what is held of the one before, then what remains of it.
LEMMA Flush ==
  ASSUME IInv, cur # None, Send([held |-> Held(pending), body |-> Remaining(cur)])
  PROVE  Chained /\ \A i \in Int : i > cur.index => Ended(last', i)
<1> DEFINE T == Total(cur)
           e == cur.emitted
           h == Held(pending)
           b == Remaining(cur)
<1>1. /\ cur \in Buf /\ cur.index \in Int /\ T \in Nat /\ T >= 1 /\ e \in Nat /\ e <= T
  BY FillingIs
<1>2. b = IF e >= T THEN None ELSE Release(cur, e, T - 1)
  BY DEF Remaining
<1>3. /\ out'.held = h /\ out'.body = b
      /\ b # None => last' = [index |-> b.index, number |-> b.to, total |-> b.total]
      /\ b = None /\ h # None => last' = [index |-> h.index, number |-> h.to, total |-> h.total]
      /\ b = None /\ h = None => last' = last
  BY SendIs
<1>4. pending = None => h = None
  BY DEF Held
<1>5. pending # None => /\ h # None /\ Follows(last, h) /\ e = 0
                        /\ Ended([index |-> h.index, number |-> h.to, total |-> h.total], cur.index)
  BY HeldLeaves, HoldingIsEarly
<1>6. pending = None => IF e > 0 THEN Reached(last, cur, e) ELSE Ended(last, cur.index)
  BY DEF IInv, Leaving
<1> HIDE DEF T, e, h, b
<1> DEFINE w == IF h = None THEN last ELSE [index |-> h.index, number |-> h.to, total |-> h.total]
<1>7. IF e > 0 THEN h = None /\ Reached(w, cur, e) ELSE Ended(w, cur.index)
  BY <1>1, <1>4, <1>5, <1>6
<1>8. h # None => Follows(last, h)
  BY <1>4, <1>5
<1>9. CASE e >= T
  <2>1. b = None /\ h = None /\ last' = last /\ Reached(last, cur, e) /\ e = T
    BY <1>1, <1>2, <1>3, <1>7, <1>9
  <2>2. Chained
    BY <1>3, <2>1 DEF Chained
  <2>3. last \in Mark /\ last.index = cur.index /\ last.number = last.total - 1
    BY <1>1, <2>1 DEF Reached, Mark, T
  <2> QED
    BY <1>1, <2>1, <2>2, <2>3 DEF Ended
<1>10. CASE e < T
  <2>1. b = Release(cur, e, T - 1) /\ T - 1 \in Nat /\ e <= T - 1 /\ T - 1 < T
    BY <1>1, <1>2, <1>10
  <2>2. /\ b # None /\ Follows(w, b) /\ b.index = cur.index /\ b.to = T - 1 /\ b.total = T
    <3>1. CASE e > 0
      BY <1>1, <1>7, <2>1, <3>1, FollowsReached DEF T
    <3>2. CASE e = 0
      BY <1>1, <1>7, <2>1, <3>2, FollowsEnded DEF T
    <3> QED
      BY <1>1, <3>1, <3>2
  <2>3. Chained
    BY <1>3, <1>8, <2>2 DEF Chained
  <2>4. last' \in Mark /\ last'.index = cur.index /\ last'.number = last'.total - 1
    BY <1>1, <1>3, <2>1, <2>2 DEF Mark
  <2> QED
    BY <1>1, <2>3, <2>4 DEF Ended
<1> QED
  BY <1>1, <1>9, <1>10

-----------------------------------------------------------------------------
(* The steps *)

\* A buffer is not empty, also after a correction.
LEMMA BufferSize ==
  ASSUME NEW n \in Size, NEW t \in Tempo
  PROVE  n * t \in Nat /\ \A d \in Int : n * t + Slew(n * t, d) \in Nat
<1>1. n \in Nat /\ t \in Nat /\ SlewMin \in Nat /\ SlewMax \in Nat /\ Deadband \in Nat /\ SlewMin > SlewMax
  BY AssemblerAssumption
<1>2. n * t \in Nat
  BY <1>1
<1> DEFINE m == n * t
<1> HIDE DEF m
<1>3. m \in Nat => \A d \in Int : m + Slew(m, d) \in Nat
  BY <1>1 DEF Slew
<1> QED
  BY <1>2, <1>3 DEF m

\* Steps that neither write nor release.
LEMMA Kept ==
  ASSUME IInv, Steady, tempo' \in Tempo, UNCHANGED <<length, cur, pending, nextOff, last>>
  PROVE  Filling' /\ Holding' /\ Leaving' /\ Frames' = Frames
<1>1. tempo' = tempo
  BY DEF Steady, IInv, Plain
<1>2. Frames' = Frames
  BY <1>1 DEF Frames, IntervalSamples
<1>3. Filling'
  BY <1>2 DEF IInv, Filling
<1>4. Holding'
  BY <1>2 DEF IInv, Holding
<1>5. Leaving'
  BY DEF IInv, Leaving
<1> QED
  BY <1>2, <1>3, <1>4, <1>5

\* A new interval is begun while no window is held.
LEMMA Begun ==
  ASSUME IInv, Steady, UNCHANGED length, tempo' \in Tempo,
         NEW i \in Int, NEW t \in Tempo, cur' = NewBuf(i, t), pending' = None, Ended(last', i),
         nextOff' \in Nat, nextOff' < IntervalSamples(t)
  PROVE  /\ Filling' /\ Holding' /\ Leaving'
         /\ cur' # None /\ cur'.index = i /\ cur'.frames = IntervalSamples(t)
<1>1. t = tempo /\ tempo' = t
  BY DEF Steady, IInv, Plain
<1>2. Frames' = IntervalSamples(t) /\ length \in Length
  BY <1>1 DEF Frames, IntervalSamples, IInv, Plain
<1>3. /\ cur' \in Buf /\ cur' # None /\ cur'.index = i /\ cur'.frames = IntervalSamples(t)
      /\ cur'.written = 0 /\ cur'.emitted = 0 /\ Ready(cur') = 0
  BY <1>2, NewBuffer
<1>4. IntervalSamples(t) \in Nat /\ IntervalSamples(t) > 0
  BY <1>2, FramesAre
<1>5. Filling'
  BY <1>2, <1>3, <1>4 DEF Filling
<1>6. Holding'
  BY DEF Holding
<1>7. Leaving'
  BY <1>3 DEF Leaving
<1> QED
  BY <1>3, <1>5, <1>6, <1>7

LEMMA FirstStep ==
  ASSUME IInv, Steady, NEW b \in Int, NEW n \in Size, NEW t \in Tempo, First(b, n, t),
         tempo' = t, beat' \in Nat, UNCHANGED <<length, changes>>
  PROVE  IInv' /\ Chained
<1> DEFINE i == IndexAtBeat(b)
           o == FrameOffset(b, i, t)
<1>1. length \in Length /\ changes \in 0..MaxChanges /\ Threshold \in Nat
  BY AssemblerAssumption DEF IInv, Plain
<1>2. /\ i \in Int /\ o \in Nat /\ o < IntervalSamples(t) /\ b * t \in Int
      /\ i * IntervalSamples(t) + o = b * t
  BY <1>1, PlaceOfBeat
<1>3. /\ cur = None /\ cur' = NewBuf(i, t) /\ nextOff' = o /\ anchored' = TRUE
      /\ todo' = n * t /\ due' = b * t /\ Send(Nothing) /\ pending' = pending
  BY DEF First
<1> HIDE DEF i, o
<1>4. last' = last /\ Chained
  BY <1>3, SendNothing
<1>5. pending = None /\ last = None
  BY <1>3 DEF IInv, Holding, Leaving
<1>6. /\ Filling' /\ Holding' /\ Leaving'
      /\ cur' # None /\ cur'.index = i /\ cur'.frames = IntervalSamples(t)
  BY <1>2, <1>3, <1>4, <1>5, Begun DEF Ended
<1>7. Plain'
  BY <1>1, <1>2, <1>3, <1>6, BufferSize DEF Plain
<1>8. PlacedByItsStamp'
  <2>1. cur'.index * cur'.frames + nextOff' = due' /\ due' \in Int
    BY <1>2, <1>3, <1>6
  <2> QED
    BY <1>1, <2>1 DEF PlacedByItsStamp
<1> QED
  BY <1>4, <1>6, <1>7, <1>8 DEF IInv

LEMMA ContiguousStep ==
  ASSUME IInv, Steady, NEW b \in Int, NEW n \in Size, NEW t \in Tempo, NEW trusted \in BOOLEAN,
         Contiguous(b, n, t, trusted), tempo' = t, beat' \in Nat, UNCHANGED <<length, changes>>
  PROVE  IInv' /\ Chained
<1> DEFINE i == IndexAtBeat(b)
           o == FrameOffset(b, i, t)
           d == Divergence(b, t)
<1>1. /\ length \in Length /\ changes \in 0..MaxChanges /\ Threshold \in Nat /\ t = tempo
      /\ nextOff \in Nat
  BY AssemblerAssumption DEF IInv, Plain, Steady
<1>2. /\ i \in Int /\ o \in Nat /\ b * t \in Int /\ i * IntervalSamples(t) + o = b * t
  BY <1>1, PlaceOfBeat
<1>3. /\ cur # None /\ Near(b, t) /\ anchored' \in BOOLEAN
      /\ todo' = n * t + Slew(n * t, d) /\ due' = b * t
      /\ Send(Nothing) /\ UNCHANGED <<cur, pending, nextOff>>
  BY DEF Contiguous
<1>4. last' = last /\ Chained
  BY <1>3, SendNothing
<1>5. Filling' /\ Holding' /\ Leaving'
  BY <1>3, <1>4, Kept
<1>6. cur.index \in Int /\ cur.frames = IntervalSamples(t) /\ IntervalSamples(t) \in Nat
  BY <1>1, <1>3, FillingIs DEF Frames
<1>7. d = (i - cur.index) * IntervalSamples(t) + o - nextOff
  BY <1>6 DEF Divergence
<1>8. -Threshold <= d /\ d <= Threshold
  BY <1>3 DEF Near
<1> HIDE DEF i, o, d
<1> DEFINE F == IntervalSamples(t)
           c == cur.index
<1>9. c \in Int /\ F \in Nat /\ d = (i - c) * F + o - nextOff /\ i * F + o = b * t
  BY <1>2, <1>6, <1>7
<1>10. cur'.index * cur'.frames + nextOff' = c * F + nextOff
  BY <1>3, <1>6
<1> HIDE DEF F, c
<1>11. c * F \in Int /\ i * F \in Int
  BY <1>2, <1>9
<1>12. (i - c) * F = i * F - c * F
  BY <1>2, <1>9, Z3
<1>13. d \in Int /\ b * t - (c * F + nextOff) = d
  BY <1>1, <1>2, <1>9, <1>11, <1>12
<1>14. todo' \in Nat
  BY <1>3, <1>13, BufferSize
<1>15. Plain'
  BY <1>1, <1>2, <1>3, <1>14 DEF Plain
<1>16. PlacedByItsStamp'
  BY <1>1, <1>2, <1>3, <1>8, <1>10, <1>11, <1>13 DEF PlacedByItsStamp
<1> QED
  BY <1>4, <1>5, <1>15, <1>16 DEF IInv

LEMMA ReanchorStep ==
  ASSUME IInv, Steady, NEW b \in Int, NEW n \in Size, NEW t \in Tempo, NEW trusted \in BOOLEAN,
         Reanchor(b, n, t, trusted), tempo' = t, beat' \in Nat, UNCHANGED <<length, changes>>
  PROVE  IInv' /\ Chained
<1> DEFINE i == IndexAtBeat(b)
           o == FrameOffset(b, i, t)
<1>1. /\ length \in Length /\ changes \in 0..MaxChanges /\ Threshold \in Nat /\ t = tempo
  BY AssemblerAssumption DEF IInv, Plain, Steady
<1>2. /\ i \in Int /\ o \in Nat /\ o < IntervalSamples(t) /\ b * t \in Int
      /\ i * IntervalSamples(t) + o = b * t
  BY <1>1, PlaceOfBeat
<1>3. /\ cur # None /\ i >= cur.index /\ anchored' = TRUE /\ nextOff' = o
      /\ todo' = n * t /\ due' = b * t
      /\ IF i > cur.index
         THEN /\ Send([held |-> Held(pending), body |-> Remaining(cur)])
              /\ pending' = None
              /\ cur' = NewBuf(i, t)
         ELSE Send(Nothing) /\ UNCHANGED <<pending, cur>>
  BY DEF Reanchor
<1> HIDE DEF i, o
<1>4. cur.index \in Int /\ cur.frames = IntervalSamples(t) /\ IntervalSamples(t) \in Nat
  BY <1>1, <1>3, FillingIs DEF Frames
<1>5. /\ Filling' /\ Holding' /\ Leaving' /\ Chained
      /\ cur' # None /\ cur'.index = i /\ cur'.frames = IntervalSamples(t)
  <2>1. CASE i > cur.index
    <3>1. Chained /\ Ended(last', i)
      BY <1>2, <1>3, <2>1, Flush
    <3> QED
      BY <1>2, <1>3, <2>1, <3>1, Begun
  <2>2. CASE i = cur.index
    <3>1. UNCHANGED <<pending, cur>> /\ last' = last /\ Chained
      BY <1>3, <1>4, <2>2, SendNothing
    <3>2. Frames' = Frames /\ Frames = IntervalSamples(t)
      BY <1>1 DEF Frames, IntervalSamples
    <3>3. Filling'
      BY <1>2, <1>3, <1>4, <3>1, <3>2 DEF IInv, Filling
    <3>4. Holding'
      BY <3>1, <3>2 DEF IInv, Holding
    <3>5. Leaving'
      BY <3>1 DEF IInv, Leaving
    <3> QED
      BY <1>3, <1>4, <2>2, <3>1, <3>3, <3>4, <3>5
  <2> QED
    BY <1>2, <1>3, <1>4, <2>1, <2>2
<1>6. Plain'
  BY <1>1, <1>2, <1>3, <1>5, BufferSize DEF Plain
<1>7. PlacedByItsStamp'
  <2>1. cur'.index * cur'.frames + nextOff' = due' /\ due' \in Int
    BY <1>2, <1>3, <1>5
  <2> QED
    BY <1>1, <2>1 DEF PlacedByItsStamp
<1> QED
  BY <1>5, <1>6, <1>7 DEF IInv

LEMMA LateStep ==
  ASSUME IInv, Steady, NEW b \in Int, NEW t \in Tempo, NEW trusted \in BOOLEAN, todo = 0,
         Late(b, t, trusted), tempo' = t, beat' \in Nat, UNCHANGED <<length, changes>>
  PROVE  IInv' /\ Chained
<1>1. /\ cur # None /\ anchored' \in BOOLEAN /\ Send(Nothing)
      /\ UNCHANGED <<cur, pending, nextOff, todo, due>>
  BY DEF Late
<1>2. last' = last /\ Chained
  BY <1>1, SendNothing
<1>3. Filling' /\ Holding' /\ Leaving'
  BY <1>1, <1>2, Kept
<1>4. Plain'
  BY <1>1 DEF IInv, Plain
<1>5. PlacedByItsStamp'
  BY <1>1 DEF PlacedByItsStamp
<1> QED
  BY <1>2, <1>3, <1>4, <1>5 DEF IInv

LEMMA ReceiveStep ==
  ASSUME IInv, Steady, NEW d \in Deviation, NEW n \in Size, NEW t \in Tempo, NEW lost \in BOOLEAN,
         Receive(d, n, t, lost)
  PROVE  IInv' /\ Chained
<1>1. d \in Int /\ n \in Nat /\ beat \in Nat /\ anchored \in BOOLEAN
  BY AssemblerAssumption DEF IInv, Plain
<1> DEFINE b == beat + d
           trusted == anchored /\ ~lost
<1>2. b \in Int /\ trusted \in BOOLEAN /\ beat' \in Nat /\ tempo' = t /\ todo = 0
      /\ UNCHANGED <<length, changes>>
  BY <1>1 DEF Receive
<1>3. First(b, n, t) \/ Contiguous(b, n, t, trusted) \/ Reanchor(b, n, t, trusted) \/ Late(b, t, trusted)
  BY DEF Receive
<1> HIDE DEF b, trusted
<1> QED
  BY <1>2, <1>3, FirstStep, ContiguousStep, ReanchorStep, LateStep

LEMMA TurnStep ==
  ASSUME IInv, Steady, Turn
  PROVE  IInv' /\ Chained
<1> DEFINE i == cur.index + 1
<1>1. /\ todo > 0 /\ nextOff >= cur.frames
      /\ IF ShortFinal(cur) /\ cur.emitted = Total(cur) - 1
         THEN pending' = cur /\ Send(Nothing)
         ELSE Send([held |-> None, body |-> Remaining(cur)]) /\ UNCHANGED pending
      /\ cur' = NewBuf(i, tempo) /\ nextOff' = 0
      /\ UNCHANGED <<length, anchored, todo, tempo, due, beat, changes>>
  BY DEF Turn
<1>2. cur # None /\ length \in Length /\ tempo \in Tempo /\ nextOff \in Nat /\ todo \in Nat
  BY <1>1 DEF IInv, Plain
<1>3. /\ Frames \in Nat /\ Frames > 0 /\ cur \in Buf /\ cur.frames = Frames /\ cur.index \in Int
      /\ nextOff = cur.frames /\ cur.written = cur.frames /\ cur.emitted = Full(cur)
      /\ Frames >= Window /\ i \in Int
  <2>1. nextOff <= cur.frames /\ (nextOff = cur.frames => cur.written = cur.frames)
    BY <1>2 DEF IInv, Filling
  <2> QED
    BY <1>1, <1>2, <2>1, FillingIs
<1>4. pending = None
  BY <1>2, <1>3, HoldingIsEarly
<1>5. Frames = IntervalSamples(tempo) /\ Frames' = Frames
  BY <1>1 DEF Frames, IntervalSamples
<1>6. /\ Filling' /\ Holding' /\ Leaving' /\ Chained
      /\ cur' # None /\ cur'.index = i /\ cur'.frames = Frames
  <2>1. CASE ShortFinal(cur) /\ cur.emitted = Total(cur) - 1
    <3>1. pending' = cur /\ last' = last /\ Chained
      BY <1>1, <2>1, SendNothing
    <3>2. /\ cur' \in Buf /\ cur' # None /\ cur'.index = i /\ cur'.frames = Frames
          /\ cur'.written = 0 /\ cur'.emitted = 0 /\ Ready(cur') = 0
      BY <1>1, <1>2, <1>3, <1>5, NewBuffer
    <3>3. Filling'
      BY <1>1, <1>3, <1>5, <3>2 DEF Filling
    <3>4. Total(cur) \in Nat /\ Total(cur) >= 2 /\ Pad(cur) > 0 /\ Pad(cur) \in Nat
      BY <1>3, <2>1, Measures
    <3>5. Holding'
      BY <1>3, <1>5, <2>1, <3>1, <3>2, <3>4 DEF Holding
    <3>6. Reached(last, cur, cur.emitted)
      BY <1>2, <1>4, <2>1, <3>4 DEF IInv, Leaving
    <3>7. Leaving'
      BY <1>2, <3>1, <3>2, <3>6 DEF Leaving
    <3> QED
      BY <3>1, <3>2, <3>3, <3>5, <3>7
  <2>2. CASE ~(ShortFinal(cur) /\ cur.emitted = Total(cur) - 1)
    <3>1. Send([held |-> None, body |-> Remaining(cur)]) /\ pending' = None
      BY <1>1, <1>4, <2>2
    <3>2. Held(pending) = None
      BY <1>4 DEF Held
    <3>3. Chained /\ Ended(last', i)
      BY <1>2, <1>3, <3>1, <3>2, Flush
    <3>4. nextOff' \in Nat /\ nextOff' < IntervalSamples(tempo) /\ tempo' \in Tempo
      BY <1>1, <1>2, <1>3, <1>5
    <3> QED
      BY <1>1, <1>2, <1>3, <1>5, <3>1, <3>3, <3>4, Begun
  <2> QED
    BY <2>1, <2>2
<1>7. Plain'
  BY <1>1, <1>6 DEF IInv, Plain
<1>8. PlacedByItsStamp'
  <2> DEFINE F == Frames
             c == cur.index
  <2>1. c \in Int /\ F \in Nat /\ cur'.index * cur'.frames = (c + 1) * F /\ cur.index * cur.frames = c * F
    BY <1>3, <1>6
  <2>2. nextOff = F /\ F = cur.frames
    BY <1>3
  <2> HIDE DEF F, c
  <2>3. (c + 1) * F = c * F + F /\ c * F \in Int
    BY <2>1, Z3
  <2>4. cur'.index * cur'.frames + nextOff' = cur.index * cur.frames + nextOff
    BY <1>1, <2>1, <2>2, <2>3
  <2> QED
    BY <1>1, <2>4 DEF IInv, PlacedByItsStamp
<1> QED
  BY <1>6, <1>7, <1>8 DEF IInv

LEMMA BehindStep ==
  ASSUME IInv, Steady, Behind
  PROVE  IInv' /\ Chained
<1>1. /\ todo' = 0 /\ Send(Nothing)
      /\ UNCHANGED <<length, cur, pending, nextOff, anchored, tempo, due, beat, changes>>
  BY DEF Behind
<1>2. last' = last /\ Chained
  BY <1>1, SendNothing
<1>3. tempo' \in Tempo
  BY <1>1 DEF IInv, Plain
<1>4. Filling' /\ Holding' /\ Leaving'
  BY <1>1, <1>2, <1>3, Kept
<1>5. Plain'
  BY <1>1 DEF IInv, Plain
<1>6. PlacedByItsStamp'
  BY <1>1 DEF PlacedByItsStamp
<1> QED
  BY <1>2, <1>4, <1>5, <1>6 DEF IInv

LEMMA PlaceIs ==
  ASSUME IInv, todo > 0
  PROVE  /\ (cur.index * cur.frames + nextOff) - due <= Threshold
         /\ due - (cur.index * cur.frames + nextOff) <= Threshold
  BY DEF IInv, PlacedByItsStamp

\* What a turn of the loop writes.
LEMMA Written ==
  ASSUME IInv, Write
  PROVE  \E s, n \in Nat, b \in Buf :
           /\ nextOff' = nextOff + s + n /\ due' = due + s + n
           /\ todo' \in Nat /\ cur # None
           /\ nextOff' <= cur.frames
           /\ b.index = cur.index /\ b.frames = cur.frames /\ b.emitted = cur.emitted
           /\ cur.written <= b.written /\ b.written <= b.frames
           /\ nextOff' = cur.frames => b.written = b.frames
           /\ cur' = [b EXCEPT !.emitted = IF Ready(b) > b.emitted THEN Ready(b) ELSE b.emitted]
           /\ pending' = IF Continued(b) THEN None ELSE pending
           /\ Send([held |-> IF Continued(b) THEN Held(pending) ELSE None,
                    body |-> IF Ready(b) > b.emitted THEN Release(b, b.emitted, Ready(b) - 1) ELSE None])
<1> DEFINE s == Skip
           off == nextOff + s
           rest == todo - s
           n == IF rest < cur.frames - off THEN rest ELSE cur.frames - off
           w == IF off + n > cur.written THEN off + n ELSE cur.written
           b == [cur EXCEPT !.written = w]
<1>1. /\ todo > 0 /\ nextOff < cur.frames /\ rest > 0
      /\ nextOff' = off + n /\ todo' = rest - n /\ due' = due + s + n
      /\ cur' = [b EXCEPT !.emitted = IF Ready(b) > b.emitted THEN Ready(b) ELSE b.emitted]
      /\ pending' = IF Continued(b) THEN None ELSE pending
      /\ Send([held |-> IF Continued(b) THEN Held(pending) ELSE None,
               body |-> IF Ready(b) > b.emitted THEN Release(b, b.emitted, Ready(b) - 1) ELSE None])
  BY DEF Write
<1>2. cur # None /\ nextOff \in Nat /\ todo \in Nat /\ due \in Int
  BY <1>1 DEF IInv, Plain
<1>3. /\ cur \in Buf /\ cur.frames \in Nat /\ cur.written \in Nat /\ cur.written <= cur.frames
      /\ cur.emitted \in Nat /\ cur.emitted <= Full(cur) /\ Full(cur) \in Nat /\ cur.frames >= Window
  BY <1>2, FillingIs
<1>4. /\ cur.emitted * Window = Starts(cur.emitted) /\ Starts(cur.emitted) \in Int
      /\ Starts(cur.emitted) <= cur.frames
  <2>1. Starts(Full(cur)) <= cur.frames
    BY <1>3, Measures
  <2>2. cur.emitted < Full(cur) => Starts(cur.emitted) + Window <= Starts(Full(cur))
    BY <1>3, StartsGrow
  <2>3. /\ cur.emitted * Window = Starts(cur.emitted) /\ Starts(cur.emitted) \in Int
        /\ Starts(Full(cur)) \in Int
    BY <1>3, Starting
  <2> QED
    BY <1>3, <2>1, <2>2, <2>3, AssemblerAssumption
<1>5. s \in Nat /\ off \in Nat /\ off <= cur.frames
  BY <1>1, <1>2, <1>3, <1>4 DEF Skip
<1> HIDE DEF s
<1>6. n \in Nat /\ off + n <= cur.frames /\ n <= rest
  BY <1>1, <1>2, <1>3, <1>5
<1> HIDE DEF n
<1>7. /\ w \in Nat /\ cur.written <= w /\ w <= cur.frames
      /\ off + n = cur.frames => w = cur.frames
  BY <1>2, <1>3, <1>5, <1>6
<1> HIDE DEF w
<1>8. /\ b \in Buf /\ b.index = cur.index /\ b.frames = cur.frames /\ b.emitted = cur.emitted
      /\ b.written = w
  BY <1>3, <1>7 DEF Buf
<1> HIDE DEF b
<1>9. nextOff' = nextOff + s + n /\ todo' \in Nat
  BY <1>1, <1>2, <1>5, <1>6
<1> QED
  BY <1>1, <1>2, <1>5, <1>6, <1>7, <1>8, <1>9

LEMMA WriteStep ==
  ASSUME IInv, Steady, Write
  PROVE  IInv' /\ Chained
<1>1. PICK s \in Nat, n \in Nat, b \in Buf :
           /\ nextOff' = nextOff + s + n /\ due' = due + s + n
           /\ todo' \in Nat /\ cur # None
           /\ nextOff' <= cur.frames
           /\ b.index = cur.index /\ b.frames = cur.frames /\ b.emitted = cur.emitted
           /\ cur.written <= b.written /\ b.written <= b.frames
           /\ nextOff' = cur.frames => b.written = b.frames
           /\ cur' = [b EXCEPT !.emitted = IF Ready(b) > b.emitted THEN Ready(b) ELSE b.emitted]
           /\ pending' = IF Continued(b) THEN None ELSE pending
           /\ Send([held |-> IF Continued(b) THEN Held(pending) ELSE None,
                    body |-> IF Ready(b) > b.emitted THEN Release(b, b.emitted, Ready(b) - 1) ELSE None])
  BY Written
<1> DEFINE T == Total(b)
           e == cur.emitted
           r == Ready(b)
           h == IF Continued(b) THEN Held(pending) ELSE None
           y == IF r > e THEN Release(b, e, r - 1) ELSE None
<1>2. /\ length' = length /\ tempo' = tempo /\ anchored' = anchored /\ beat' = beat
      /\ changes' = changes /\ todo > 0
  BY DEF Write
<1>3. /\ Frames \in Nat /\ Frames >= Window /\ Frames > 0
      /\ cur \in Buf /\ cur.frames = Frames /\ cur.index \in Int /\ cur.written \in Nat
      /\ e \in Nat /\ e = Ready(cur)
  BY <1>1, FillingIs
<1>4. T \in Nat /\ r \in Nat /\ r <= T /\ e <= r /\ T = Total(cur)
  <2>1. T \in Nat /\ Full(b) <= T /\ Full(b) \in Nat
    BY <1>1, <1>3, Measures
  <2>2. r \in Nat /\ r <= Full(b)
    BY <1>1, <1>3, ReadyIs
  <2>3. e <= r
    BY <1>1, <1>3, ReadyGrows
  <2>4. T = Total(cur)
    BY <1>1 DEF Total
  <2> QED
    BY <2>1, <2>2, <2>3, <2>4
<1>5. /\ out'.held = h /\ out'.body = y
      /\ y # None => last' = [index |-> y.index, number |-> y.to, total |-> y.total]
      /\ y = None /\ h # None => last' = [index |-> h.index, number |-> h.to, total |-> h.total]
      /\ y = None /\ h = None => last' = last
  <2>1. Send([held |-> h, body |-> y])
    BY <1>1
  <2> HIDE DEF h, y
  <2> QED
    BY <2>1, SendIs
<1>6. y = IF r > e THEN Release(b, e, r - 1) ELSE None
  OBVIOUS
<1>7. /\ cur' \in Buf /\ cur' # None /\ cur'.index = cur.index /\ cur'.frames = cur.frames
      /\ cur'.written = b.written /\ cur'.emitted = r /\ Ready(cur') = r /\ Total(cur') = T
  <2>1. cur' = [b EXCEPT !.emitted = r]
    <3>1. (IF Ready(b) > b.emitted THEN Ready(b) ELSE b.emitted) = r
      BY <1>1, <1>3, <1>4
    <3> QED
      BY <1>1, <3>1
  <2> HIDE DEF r, T
  <2>2. /\ cur' \in Buf /\ cur'.index = cur.index /\ cur'.frames = b.frames /\ cur'.frames = cur.frames
        /\ cur'.written = b.written /\ cur'.emitted = r
    BY <1>1, <1>4, <2>1 DEF Buf
  <2>3. Ready(cur') = r /\ Total(cur') = T
    BY <2>2 DEF Ready, Full, Total, ShortFinal, r, T
  <2> QED
    BY <2>2, <2>3, NoneAssumption
<1>8. b.index = cur.index /\ b.index \in Int
  BY <1>1, <1>3
<1>9. pending = None => ~Continued(b) /\ h = None
  BY DEF Continued
<1>10. pending # None /\ Continued(b) => h = Held(pending) /\ pending' = None
  BY <1>1
<1>11. ~Continued(b) => h = None /\ pending' = pending
  BY <1>1
<1>12. pending # None /\ ~Continued(b) => b.written < Pad(pending) /\ r = 0
  <2> SUFFICES ASSUME pending # None, ~Continued(b) PROVE b.written < Pad(pending) /\ r = 0
    OBVIOUS
  <2>1. Pad(pending) \in Nat /\ Pad(pending) < Window /\ cur.index = pending.index + 1
    BY HoldingIs
  <2>2. b.written \in Nat /\ Window \in Nat
    BY AssemblerAssumption DEF Buf
  <2>3. b.written < Pad(pending)
    BY <1>8, <2>1, <2>2 DEF Continued
  <2>4. b.written < Window /\ b.written < b.frames
    BY <1>1, <1>3, <2>1, <2>2, <2>3
  <2> QED
    BY <1>1, <1>3, <2>3, <2>4, ReadyIs
<1>13. Filling'
  <2>1. Frames' = Frames
    BY <1>2 DEF Frames, IntervalSamples
  <2> QED
    BY <1>1, <1>3, <1>7, <2>1 DEF Filling
<1>14. Holding'
  <2> SUFFICES ASSUME pending' # None PROVE Holding'
    BY DEF Holding
  <2>1. ~Continued(b) /\ pending' = pending /\ pending # None
    BY <1>1
  <2>2. Frames' = Frames
    BY <1>2 DEF Frames, IntervalSamples
  <2>3. b.written < Pad(pending)
    BY <1>12, <2>1
  <2> QED
    BY <1>7, <2>1, <2>2, <2>3, HoldingIs DEF Holding
<1> HIDE DEF T, e, r, h, y
<1> DEFINE w == IF h = None THEN last ELSE [index |-> h.index, number |-> h.to, total |-> h.total]
<1>15. h # None => Follows(last, h)
  BY <1>9, <1>10, <1>11, HeldLeaves
<1>16. pending' = None =>
          IF e > 0 THEN h = None /\ Reached(w, b, e) ELSE Ended(w, b.index)
  <2>1. CASE pending = None
    <3>1. IF e > 0 THEN Reached(last, cur, e) ELSE Ended(last, cur.index)
      BY <1>1, <2>1 DEF IInv, Leaving, e
    <3>2. Reached(last, cur, e) => Reached(last, b, e)
      BY <1>4, <1>8 DEF Reached, T
    <3> QED
      BY <1>8, <1>9, <2>1, <3>1, <3>2
  <2>2. CASE pending # None
    <3>1. e = 0
      BY <2>2, HoldingIsEarly DEF e
    <3> QED
      BY <1>8, <1>10, <1>11, <2>2, <3>1, HeldLeaves
  <2> QED
    BY <2>1, <2>2
<1>17. Chained /\ Leaving'
  <2>1. CASE pending' # None
    <3>1. pending # None /\ ~Continued(b) /\ pending' = pending /\ h = None /\ r = 0
      BY <1>9, <1>10, <1>11, <1>12, <2>1
    <3>2. y = None /\ last' = last
      BY <1>3, <1>4, <1>5, <1>6, <3>1
    <3>3. Chained
      BY <1>5, <3>1, <3>2 DEF Chained
    <3>4. Reached(last, pending, pending.emitted)
      BY <3>1 DEF IInv, Leaving
    <3>5. Leaving'
      BY <1>7, <2>1, <3>1, <3>2, <3>4 DEF Leaving
    <3> QED
      BY <3>3, <3>5
  <2>2. CASE pending' = None /\ r > e
    <3>1. y = Release(b, e, r - 1) /\ r - 1 \in Nat /\ e <= r - 1 /\ r - 1 < T /\ r > 0
      BY <1>3, <1>4, <1>6, <2>2
    <3> DEFINE j == r - 1
    <3>0. y = Release(b, e, j) /\ j \in Nat /\ e <= j /\ j < T
      BY <3>1
    <3> HIDE DEF j
    <3>2. y # None /\ Follows(w, y) /\ y.index = b.index /\ y.to = j /\ y.total = T
      <4>1. CASE e > 0
        BY <1>3, <1>4, <1>16, <2>2, <3>0, <4>1, FollowsReached DEF T
      <4>2. CASE e = 0
        BY <1>3, <1>4, <1>16, <2>2, <3>0, <4>2, FollowsEnded DEF T
      <4> QED
        BY <1>3, <4>1, <4>2
    <3>3. Chained
      BY <1>5, <1>15, <3>2 DEF Chained
    <3>4. last' = [index |-> b.index, number |-> r - 1, total |-> T]
      BY <1>5, <3>2 DEF j
    <3>5. Reached(last', cur', r)
      BY <1>7, <1>8, <3>4 DEF Reached
    <3>6. Leaving'
      BY <1>7, <2>2, <3>1, <3>5 DEF Leaving
    <3> QED
      BY <3>3, <3>6
  <2>3. CASE pending' = None /\ ~(r > e)
    <3>1. y = None /\ r = e
      BY <1>3, <1>4, <1>6, <2>3
    <3>2. Chained /\ last' = w
      BY <1>5, <1>15, <3>1 DEF Chained
    <3>3. IF r > 0 THEN Reached(last', cur', r) ELSE Ended(last', cur'.index)
      <4>1. Reached(w, b, e) => Reached(w, cur', r)
        BY <1>7, <1>8, <3>1 DEF Reached, T
      <4> QED
        BY <1>7, <1>8, <1>16, <2>3, <3>1, <3>2, <4>1
    <3>4. Leaving'
      BY <1>7, <2>3, <3>3 DEF Leaving
    <3> QED
      BY <3>2, <3>4
  <2> QED
    BY <2>1, <2>2, <2>3
<1>18. Plain'
  <2>1. nextOff \in Nat /\ due \in Int
    BY DEF IInv, Plain
  <2> QED
    BY <1>1, <1>2, <1>7, <2>1 DEF IInv, Plain
<1>19. PlacedByItsStamp'
  <2> DEFINE x == cur.index * cur.frames
  <2>1. x \in Int /\ cur'.index * cur'.frames = x
    BY <1>3, <1>7
  <2>2. (x + nextOff) - due <= Threshold /\ due - (x + nextOff) <= Threshold
    BY <1>2, PlaceIs
  <2> HIDE DEF x
  <2>3. nextOff \in Nat /\ due \in Int /\ Threshold \in Nat
    BY AssemblerAssumption DEF IInv, Plain
  <2> QED
    BY <1>1, <2>1, <2>2, <2>3 DEF PlacedByItsStamp
<1> QED
  BY <1>13, <1>14, <1>17, <1>18, <1>19 DEF IInv

LEMMA SetConfigStep ==
  ASSUME IInv, Steady, NEW l \in Length, SetConfig(l)
  PROVE  IInv' /\ Chained
<1>1. /\ todo = 0 /\ changes < MaxChanges /\ changes' = changes + 1 /\ length' = l
      /\ cur' = None /\ pending' = None /\ anchored' = FALSE /\ out' = Nothing /\ last' = None
      /\ UNCHANGED <<nextOff, todo, tempo, due, beat>>
  BY DEF SetConfig
<1>2. Plain'
  <2>1. /\ tempo \in Tempo /\ nextOff \in Nat /\ due \in Int /\ beat \in Nat
        /\ changes \in 0..MaxChanges /\ MaxChanges \in Nat
    BY AssemblerAssumption DEF IInv, Plain
  <2>2. todo' \in Nat /\ ~(todo' > 0)
    BY <1>1
  <2>3. changes' \in 0..MaxChanges
    BY <1>1, <2>1
  <2> QED
    BY <1>1, <2>1, <2>2, <2>3 DEF Plain
<1> QED
  BY <1>1, <1>2 DEF IInv, Filling, Holding, Leaving, PlacedByItsStamp, Chained, Nothing

-----------------------------------------------------------------------------
(* The theorems *)

LEMMA InitInv == Init => IInv
<1> SUFFICES ASSUME Init PROVE IInv
  OBVIOUS
<1>1. Plain
  <2>1. 0 \in 0..MaxChanges
    BY AssemblerAssumption
  <2>2. length \in Length /\ tempo \in Tempo /\ nextOff = 0 /\ todo = 0 /\ anchored = FALSE
        /\ due = 0 /\ beat = 0 /\ changes = 0
    BY DEF Init
  <2>3. due \in Int /\ ~(todo > 0) /\ nextOff \in Nat /\ todo \in Nat /\ beat \in Nat
    BY <2>2
  <2> QED
    BY <2>1, <2>2, <2>3 DEF Plain
<1> QED
  BY <1>1 DEF Init, IInv, Filling, Holding, Leaving, PlacedByItsStamp

LEMMA NextInv == Steady /\ IInv /\ [Next]_vars => IInv' /\ (Chained \/ UNCHANGED vars)
<1> SUFFICES ASSUME Steady, IInv, [Next]_vars PROVE IInv' /\ (Chained \/ UNCHANGED vars)
  OBVIOUS
<1>1. ASSUME NEW d \in Deviation, NEW n \in Size, NEW t \in Tempo, NEW lost \in BOOLEAN,
             Receive(d, n, t, lost)
      PROVE  IInv' /\ Chained
  BY <1>1, ReceiveStep
<1>2. CASE Turn
  BY <1>2, TurnStep
<1>3. CASE Behind
  BY <1>3, BehindStep
<1>4. CASE Write
  BY <1>4, WriteStep
<1>5. ASSUME NEW l \in Length, SetConfig(l)
      PROVE  IInv' /\ Chained
  BY <1>5, SetConfigStep
<1>6. CASE UNCHANGED vars
  <2>1. /\ UNCHANGED <<length, cur, pending, nextOff, anchored, todo, tempo, last, due, beat,
                       changes>>
    BY <1>6 DEF vars
  <2>2. tempo' \in Tempo
    BY <2>1 DEF IInv, Plain
  <2>3. Filling' /\ Holding' /\ Leaving'
    BY <2>1, <2>2, Kept
  <2>4. Plain'
    BY <2>1 DEF IInv, Plain
  <2>5. PlacedByItsStamp'
    <3>1. PlacedByItsStamp
      BY DEF IInv
    <3> QED
      BY <2>1, <3>1 DEF PlacedByItsStamp
  <2> QED
    BY <1>6, <2>3, <2>4, <2>5 DEF IInv
<1> QED
  BY <1>1, <1>2, <1>3, <1>4, <1>5, <1>6 DEF Next

LEMMA Inductive ==
  ASSUME Steady
  PROVE  Spec => []IInv
<1>1. Init => IInv
  BY InitInv
<1>2. IInv /\ [Next]_vars => IInv'
  BY NextInv
<1> QED
  BY <1>1, <1>2, PTL DEF Spec

\* Between two buffers every window whose end is covered has left, and a final window
\* is held only while the head of the next interval is short of its pad: whatever the
\* sizes of buffers, windows and intervals, at a steady tempo (AddWindows,
\* releasePending in assembler.go).
THEOREM EverythingReadyLeaves ==
  ASSUME Steady
  PROVE  Spec => []NothingKeptBack
<1>1. IInv => NothingKeptBack
  <2> SUFFICES ASSUME IInv, cur # None
               PROVE  /\ cur.emitted >= Ready(cur)
                      /\ pending # None => cur.index = pending.index + 1 /\ cur.written < Pad(pending)
    BY DEF NothingKeptBack
  <2>1. cur.emitted = Ready(cur) /\ cur.emitted \in Nat
    BY FillingIs
  <2> QED
    BY <2>1, HoldingIs
<1> QED
  BY <1>1, Inductive, PTL

\* The windows of an interval leave as 0, 1, ... up to the final one, each once, and no
\* later interval before it, whatever is lost, jumps or is held (AddWindows, place,
\* Reanchor in assembler.go).
THEOREM WindowsLeaveInOrder ==
  ASSUME Steady
  PROVE  Spec => WindowsChain
<1>1. IInv /\ [Next]_vars => [Chained]_vars
  BY NextInv
<1>2. Spec => []IInv
  BY Inductive
<1> QED
  BY <1>1, <1>2, PTL DEF Spec, WindowsChain

\* Audio is placed no farther from its stamp than the re-anchor threshold, across the
\* ends of intervals and changes of the interval too (place in assembler.go).
THEOREM StampsAnchor ==
  ASSUME Steady
  PROVE  Spec => []PlacedByItsStamp
<1>1. IInv => PlacedByItsStamp
  BY DEF IInv
<1> QED
  BY <1>1, Inductive, PTL

\* What leaves in a step are runs of windows.
Out == \A f \in {"held", "body"} : out[f] = None \/ out[f] \in Run

LEMMA RunTypes ==
  ASSUME NEW b \in Buf, NEW i \in Nat, NEW j \in Nat, Total(b) \in Nat
  PROVE  Release(b, i, j) \in Run
  BY DEF Release, Run, Buf

LEMMA OutIs ==
  ASSUME NEW h, NEW b, Send([held |-> h, body |-> b]), h = None \/ h \in Run, b = None \/ b \in Run
  PROVE  Out'
  BY SendIs DEF Out

LEMMA FlushTypes ==
  ASSUME IInv, cur # None
  PROVE  /\ Held(pending) = None \/ Held(pending) \in Run
         /\ Remaining(cur) = None \/ Remaining(cur) \in Run
<1>1. Remaining(cur) = None \/ Remaining(cur) \in Run
  <2> DEFINE j == Total(cur) - 1
  <2>1. /\ cur \in Buf /\ cur.emitted \in Nat /\ Total(cur) \in Nat /\ j \in Nat
    BY FillingIs
  <2>2. Release(cur, cur.emitted, j) \in Run
    BY <2>1, RunTypes
  <2> QED
    BY <2>2 DEF Remaining
<1>2. Held(pending) = None \/ Held(pending) \in Run
  <2>1. CASE pending = None
    BY <2>1 DEF Held
  <2>2. CASE pending # None
    <3> DEFINE j == Total(pending) - 1
    <3>1. pending \in Buf /\ Total(pending) \in Nat /\ j \in Nat
      BY <2>2, HoldingIs
    <3>2. Release(pending, j, j) \in Run
      BY <3>1, RunTypes
    <3> QED
      BY <3>2 DEF Held
  <2> QED
    BY <2>1, <2>2
<1> QED
  BY <1>1, <1>2

LEMMA OutStep ==
  ASSUME IInv, Out, [Next]_vars
  PROVE  Out'
<1>1. ASSUME Send(Nothing) PROVE Out'
  BY <1>1, OutIs DEF Nothing
<1>2. ASSUME NEW d \in Deviation, NEW n \in Size, NEW t \in Tempo, NEW lost \in BOOLEAN,
             Receive(d, n, t, lost)
      PROVE  Out'
  <2>1. ASSUME NEW b, NEW trusted, Reanchor(b, n, t, trusted) PROVE Out'
    <3>1. /\ cur # None
          /\ Send(Nothing) \/ Send([held |-> Held(pending), body |-> Remaining(cur)])
      BY <2>1 DEF Reanchor
    <3> QED
      BY <1>1, <3>1, FlushTypes, OutIs
  <2>2. ASSUME NEW b, NEW trusted, First(b, n, t) \/ Contiguous(b, n, t, trusted) \/ Late(b, t, trusted)
        PROVE  Out'
    BY <1>1, <2>2 DEF First, Contiguous, Late
  <2> QED
    BY <1>2, <2>1, <2>2 DEF Receive
<1>3. CASE Turn
  <2>1. todo > 0 /\ (Send(Nothing) \/ Send([held |-> None, body |-> Remaining(cur)]))
    BY <1>3 DEF Turn
  <2>2. cur # None
    BY <2>1 DEF IInv, Plain
  <2> QED
    BY <1>1, <2>1, <2>2, FlushTypes, OutIs
<1>4. CASE Behind
  BY <1>1, <1>4 DEF Behind
<1>5. CASE Write
  <2>1. PICK b \in Buf :
          /\ cur # None /\ b.frames = cur.frames /\ b.emitted = cur.emitted /\ b.written <= b.frames
          /\ Send([held |-> IF Continued(b) THEN Held(pending) ELSE None,
                   body |-> IF Ready(b) > b.emitted THEN Release(b, b.emitted, Ready(b) - 1) ELSE None])
    BY <1>5, Written
  <2> DEFINE h == IF Continued(b) THEN Held(pending) ELSE None
             j == Ready(b) - 1
             y == IF Ready(b) > b.emitted THEN Release(b, b.emitted, j) ELSE None
  <2>2. h = None \/ h \in Run
    BY <2>1, FlushTypes
  <2>3. b.frames >= Window /\ b.emitted \in Nat
    BY <2>1, FillingIs
  <2>4. Ready(b) \in Nat /\ Total(b) \in Nat
    BY <2>1, <2>3, ReadyIs, Measures
  <2>5. y = None \/ y \in Run
    <3>1. CASE Ready(b) > b.emitted
      <4>1. j \in Nat
        BY <2>3, <2>4, <3>1
      <4> HIDE DEF j
      <4>2. Release(b, b.emitted, j) \in Run
        BY <2>3, <2>4, <4>1, RunTypes
      <4> QED
        BY <4>2
    <3> QED
      BY <3>1
  <2>6. Send([held |-> h, body |-> y])
    BY <2>1
  <2> HIDE DEF h, y
  <2> QED
    BY <2>2, <2>5, <2>6, OutIs
<1>6. ASSUME NEW l \in Length, SetConfig(l) PROVE Out'
  BY <1>6 DEF SetConfig, Nothing, Out
<1>7. CASE UNCHANGED vars
  BY <1>7 DEF vars, Out
<1> QED
  BY <1>2, <1>3, <1>4, <1>5, <1>6, <1>7 DEF Next

\* Every variable keeps its type, and an interval is never overfilled (assembler.go).
THEOREM TypeCorrect ==
  ASSUME Steady
  PROVE  Spec => []TypeOK
<1>1. Init => Out
  BY DEF Init, Out, Nothing
<1>2. IInv /\ Out /\ [Next]_vars => Out'
  BY OutStep
<1>3. IInv /\ Out => TypeOK
  <2> SUFFICES ASSUME IInv, Out PROVE TypeOK
    OBVIOUS
  <2>1. cur # None => cur \in Buf /\ cur.written <= cur.frames /\ cur.emitted <= Full(cur)
    BY FillingIs
  <2>2. pending = None \/ pending \in Buf
    BY HoldingIs
  <2>3. last = None \/ last \in Mark
    <3>1. CASE pending # None
      <4> DEFINE k == Total(pending) - 1
      <4>1. pending.index \in Int /\ Total(pending) \in Nat /\ k - 1 \in Nat /\ pending.emitted = k
        BY <3>1, HoldingIs
      <4>2. Reached(last, pending, k)
        BY <3>1, <4>1 DEF IInv, Leaving
      <4> QED
        BY <4>1, <4>2 DEF Reached, Mark
    <3>2. CASE pending = None /\ cur # None
      <4>1. cur.index \in Int /\ Total(cur) \in Nat /\ cur.emitted \in Nat
        BY <3>2, FillingIs
      <4>2. IF cur.emitted > 0 THEN Reached(last, cur, cur.emitted) ELSE Ended(last, cur.index)
        BY <3>2 DEF IInv, Leaving
      <4>3. cur.emitted > 0 => cur.emitted - 1 \in Nat
        BY <4>1
      <4> QED
        BY <4>1, <4>2, <4>3 DEF Reached, Ended, Mark
    <3>3. CASE cur = None /\ pending = None
      BY <3>3 DEF IInv, Leaving
    <3> QED
      BY <3>1, <3>2, <3>3
  <2>4. Plain
    BY DEF IInv
  <2> QED
    BY <2>1, <2>2, <2>3, <2>4 DEF TypeOK, Plain, Out
<1> QED
  BY <1>1, <1>2, <1>3, Inductive, PTL DEF Spec
=============================================================================
