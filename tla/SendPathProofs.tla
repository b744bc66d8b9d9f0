----------------------------- MODULE SendPathProofs -----------------------------
(***************************************************************************)
(* The way of captured audio from the LAN callback to the receiver's       *)
(* counters, proved for every ring, every width of the counters that the   *)
(* slots divide, and every depth of the queues on the way.                 *)
(*                                                                         *)
(* - Each side of the ring acts on an index the other has since moved: what*)
(*   the callback believes is full only overstates, what Pop believes is   *)
(*   there only understates, so the true distance of the two indices stays *)
(*   below the capacity while a slot is filled and above zero while one is *)
(*   copied; two indices so far apart are in different slots (IndInv). With*)
(*   what is in a slot being copied (CopyInv), every step of the ring is a *)
(*   step of a lossy queue.                                                *)
(* - The buffers in the ring are numbered in the order of the callback, and*)
(*   a gap in the numbers counts what was lost in it (InOrder); the drain  *)
(*   loop's anchor is the number it placed last (Anchor).                  *)
(* - The frames on the way lie in one row from the receiver back to the    *)
(*   pacing queue (WayInv), and the receiver's counters are those of the   *)
(*   first and the last it heard (TrackInv).                               *)
(***************************************************************************)
EXTENDS SendPath, TLAPS, SequenceTheorems, FiniteSetTheorems

Held == Distance(write, read)

\* The strengthening: types of the indices, and what each side knows of the distance.
IndInv ==
  /\ write \in Index /\ read \in Index
  /\ prod.pc \in {"idle", "loaded", "filling", "filled"} /\ prod.read \in Index
  /\ cons.pc \in {"idle", "loaded", "copying", "copied", "popped"} /\ cons.write \in Index
  /\ prod = [pc |-> prod.pc, buf |-> prod.buf, read |-> prod.read]
  /\ cons = [pc |-> cons.pc, write |-> cons.write, info |-> cons.info, samples |-> cons.samples]
  /\ Held <= NumSlots
  /\ prod.pc = "loaded" => Held <= Distance(write, prod.read)
  /\ prod.pc \in {"filling", "filled"} => Held < NumSlots
  /\ cons.pc = "loaded" => Distance(cons.write, read) <= Held
  /\ cons.pc \in {"copying", "copied"} => Held > 0

-----------------------------------------------------------------------------
(* Arithmetic of the wrapping counters *)

\* How far apart two indices are, without the remainder.
LEMMA DistanceIs ==
  ASSUME NEW w \in Index, NEW r \in Index
  PROVE  Distance(w, r) = IF w >= r THEN w - r ELSE w - r + Modulus
<1>1. Modulus \in Nat \ {0} /\ w \in Int /\ r \in Int /\ w - r \in Int
  BY RingAssumption DEF Index
<1>2. CASE w >= r
  <2>1. 0 <= w - r /\ w - r < Modulus
    BY <1>1, <1>2 DEF Index
  <2>2. (w - r) % Modulus = w - r
    BY <1>1, <2>1
  <2> QED
    BY <1>2, <2>2 DEF Distance
<1>3. CASE w < r
  <2>1. -Modulus <= w - r /\ w - r < 0
    BY <1>1, <1>3 DEF Index
  <2>2. (w - r) % Modulus = w - r + Modulus
    BY <1>1, <2>1
  <2> QED
    BY <1>1, <1>3, <2>2 DEF Distance
<1> QED
  BY <1>1, <1>2, <1>3

\* The index after an index.
LEMMA NextIndex ==
  ASSUME NEW i \in Index
  PROVE  /\ (i + 1) % Modulus = IF i = Modulus - 1 THEN 0 ELSE i + 1
         /\ (i + 1) % Modulus \in Index
<1>1. Modulus \in Nat \ {0} /\ i \in Int /\ i >= 0 /\ i < Modulus
  BY RingAssumption DEF Index
<1>2. CASE i = Modulus - 1
  <2>1. Modulus % Modulus = 0
    BY <1>1
  <2>2. i + 1 = Modulus
    BY <1>1, <1>2
  <2> QED
    BY <1>1, <1>2, <2>1, <2>2 DEF Index
<1>3. CASE i # Modulus - 1
  <2>1. i + 1 \in Int /\ 0 <= i + 1 /\ i + 1 < Modulus
    BY <1>1, <1>3
  <2>2. (i + 1) % Modulus = i + 1
    BY <1>1, <2>1
  <2> QED
    BY <1>1, <1>3, <2>1, <2>2 DEF Index
<1> QED
  BY <1>2, <1>3

\* A multiple of n is not strictly between 0 and n.
LEMMA NoMultipleBetween ==
  ASSUME NEW n \in Nat \ {0}, NEW c \in Int, 0 < n * c, n * c < n
  PROVE  FALSE
  OBVIOUS

LEMMA Division ==
  ASSUME NEW n \in Nat \ {0}, NEW x \in Int
  PROVE  /\ x \div n \in Int /\ x % n \in Int
         /\ x = n * (x \div n) + (x % n)
  OBVIOUS

\* Indices less than a capacity apart, but not equal, belong to different slots.
LEMMA OtherSlot ==
  ASSUME NEW w \in Index, NEW r \in Index,
         0 < Distance(w, r), Distance(w, r) < NumSlots
  PROVE  w % NumSlots # r % NumSlots
<1> SUFFICES ASSUME w % NumSlots = r % NumSlots PROVE FALSE
  OBVIOUS
<1> DEFINE a == w \div NumSlots
           b == r \div NumSlots
<1>1. NumSlots \in Nat \ {0} /\ Modulus \in Nat /\ w \in Int /\ r \in Int
  BY RingAssumption DEF Index
<1>2. PICK k \in Int : Modulus = k * NumSlots
  BY RingAssumption
<1>3. a \in Int /\ b \in Int
  BY <1>1, Division
<1>4. w = NumSlots * a + (w % NumSlots) /\ r = NumSlots * b + (r % NumSlots)
      /\ w % NumSlots \in Int
  BY <1>1, Division
<1> HIDE DEF a, b
<1>5. w - r = NumSlots * (a - b)
  BY <1>1, <1>3, <1>4
<1>6. CASE w >= r
  <2>1. Distance(w, r) = NumSlots * (a - b)
    BY <1>1, <1>5, <1>6, DistanceIs
  <2> QED
    BY <1>1, <1>3, <2>1, NoMultipleBetween
<1>7. CASE w < r
  <2>1. Distance(w, r) = w - r + Modulus
    BY <1>1, <1>7, DistanceIs
  <2>2. NumSlots * (a - b + k) = NumSlots * (a - b) + k * NumSlots
    BY <1>1, <1>2, <1>3
  <2>3. Distance(w, r) = NumSlots * (a - b + k)
    BY <1>2, <1>5, <2>1, <2>2
  <2>4. a - b + k \in Int
    BY <1>2, <1>3
  <2> QED
    BY <1>1, <2>3, <2>4, NoMultipleBetween
<1> QED
  BY <1>1, <1>6, <1>7

\* An index that moves on moves the distance by one, unless it would lap the other.
LEMMA Advance ==
  ASSUME NEW w \in Index, NEW r \in Index
  PROVE  /\ Distance(w, r) \in 0 .. Modulus - 1
         /\ Distance(w, r) = 0 <=> w = r
         /\ Distance(w, r) < Modulus - 1
              => Distance((w + 1) % Modulus, r) = Distance(w, r) + 1
         /\ Distance(w, r) > 0
              => Distance(w, (r + 1) % Modulus) = Distance(w, r) - 1
<1>1. Modulus \in Nat \ {0} /\ w \in 0 .. Modulus - 1 /\ r \in 0 .. Modulus - 1
  BY RingAssumption DEF Index
<1> DEFINE v == (w + 1) % Modulus
           s == (r + 1) % Modulus
<1>2. v \in Index /\ v = IF w = Modulus - 1 THEN 0 ELSE w + 1
  BY NextIndex
<1>3. s \in Index /\ s = IF r = Modulus - 1 THEN 0 ELSE r + 1
  BY NextIndex
<1> HIDE DEF v, s
<1>4. Distance(w, r) = IF w >= r THEN w - r ELSE w - r + Modulus
  BY DistanceIs
<1>5. Distance(v, r) = IF v >= r THEN v - r ELSE v - r + Modulus
  BY <1>2, DistanceIs
<1>6. Distance(w, s) = IF w >= s THEN w - s ELSE w - s + Modulus
  BY <1>3, DistanceIs
<1>7. /\ Distance(w, r) \in 0 .. Modulus - 1
      /\ Distance(w, r) = 0 <=> w = r
  BY <1>1, <1>4
<1>8. Distance(w, r) < Modulus - 1 => Distance(v, r) = Distance(w, r) + 1
  BY <1>1, <1>2, <1>4, <1>5
<1>9. Distance(w, r) > 0 => Distance(w, s) = Distance(w, r) - 1
  BY <1>1, <1>3, <1>4, <1>6
<1> QED
  BY <1>7, <1>8, <1>9 DEF v, s

-----------------------------------------------------------------------------

\* A step of the ring, whatever the callback is handed.
AnyStep == (\E b : Callback(b)) \/ Produce \/ Consume \/ Return

LEMMA InitInv == RingInit => IndInv
<1> SUFFICES ASSUME RingInit PROVE IndInv
  OBVIOUS
<1>1. 0 \in Index /\ Distance(0, 0) = 0
  <2>1. 0 \in Index
    BY RingAssumption DEF Index
  <2> QED
    BY <2>1, Advance
<1> QED
  BY <1>1, RingAssumption DEF RingInit, IndInv, Held

\* The callback moves `write' when the distance leaves room, Pop moves `read' when
\* something is there; a step of one side can only help the other.
LEMMA NextInv == IndInv /\ [AnyStep]_ringVars => IndInv'
<1> SUFFICES ASSUME IndInv, [AnyStep]_ringVars PROVE IndInv'
  OBVIOUS
<1>0. /\ NumSlots \in Nat \ {0} /\ Modulus \in Nat /\ NumSlots <= Modulus - 1
      /\ write \in Index /\ read \in Index
  BY RingAssumption DEF IndInv
<1>n. Held \in Nat /\ Distance(write, prod.read) \in Nat /\ Distance(cons.write, read) \in Nat
  <2>1. \A w, r \in Index : Distance(w, r) \in Nat
    BY Advance, <1>0
  <2> QED
    BY <2>1 DEF IndInv, Held
<1>1. ASSUME NEW b, Callback(b) PROVE IndInv'
  BY <1>0, <1>1, <1>n DEF Callback, IndInv, Held
<1>2. CASE DropBuffer
  BY <1>2 DEF DropBuffer, IndInv, Held
<1>3. CASE FillInfo
  BY <1>0, <1>3, <1>n DEF FillInfo, Full, IndInv, Held
<1>4. CASE FillSamples
  BY <1>4 DEF FillSamples, IndInv, Held
<1>5. CASE Publish
  <2>1. Held < NumSlots
    BY <1>5 DEF Publish, IndInv
  <2>2. write' \in Index
    BY <1>0, <1>5, NextIndex DEF Publish
  <2>3. Held' = Held + 1
    <3>1. Held < Modulus - 1
      BY <1>0, <1>n, <2>1
    <3> QED
      BY <1>0, <1>5, <3>1, Advance DEF Publish, Held
  <2>4. /\ prod' = [prod EXCEPT !.pc = "idle"]
        /\ UNCHANGED <<read, cons>>
    BY <1>5 DEF Publish
  <2>5. Distance(cons.write, read) = Distance(cons.write, read)'
    BY <2>4
  <2>6. Held' <= NumSlots /\ Held' > 0
    BY <1>0, <1>n, <2>1, <2>3
  <2>7. cons.pc = "loaded" => Distance(cons.write, read)' <= Held'
    BY <1>n, <2>3, <2>5 DEF IndInv
  <2>8. prod'.pc = "idle" /\ prod'.read = prod.read
    BY <2>4 DEF IndInv
  <2> QED
    BY <2>2, <2>4, <2>6, <2>7, <2>8 DEF IndInv
<1>6. CASE Pop
  <2>1. /\ cons' = [pc |-> "loaded", write |-> write, info |-> cons.info, samples |-> cons.samples]
        /\ UNCHANGED <<write, read, prod>>
    BY <1>6 DEF Pop, IndInv
  <2>2. Distance(cons.write, read)' = Held'
    BY <2>1 DEF Held
  <2>3. Held' = Held /\ Distance(write, prod.read)' = Distance(write, prod.read)
    BY <2>1 DEF Held
  <2>4. Distance(cons.write, read)' <= Held'
    BY <1>n, <2>2, <2>3
  <2>5. cons'.pc = "loaded" /\ cons'.write = write
    BY <2>1
  <2> QED
    BY <1>0, <2>1, <2>3, <2>4, <2>5 DEF IndInv
<1>7. CASE Empty
  BY <1>7 DEF Empty, IndInv, Held
<1>8. CASE CopyInfo
  <2>1. cons.pc = "loaded" /\ cons.write \in Index /\ cons.write # read
    BY <1>8 DEF CopyInfo, IndInv
  <2>2. Held > 0
    <3>1. Distance(cons.write, read) # 0
      BY <1>0, <2>1, Advance
    <3> QED
      BY <1>n, <2>1, <3>1 DEF IndInv
  <2> QED
    BY <1>8, <2>2 DEF CopyInfo, IndInv, Held
<1>9. CASE CopySamples
  BY <1>9 DEF CopySamples, IndInv, Held
<1>10. CASE Release
  <2>1. Held > 0
    BY <1>10 DEF Release, IndInv
  <2>2. read' \in Index
    BY <1>0, <1>10, NextIndex DEF Release
  <2>3. Held' = Held - 1
    BY <1>0, <1>10, <2>1, Advance DEF Release, Held
  <2>4. /\ cons' = [cons EXCEPT !.pc = "popped"]
        /\ UNCHANGED <<write, prod>>
    BY <1>10 DEF Release
  <2>5. Distance(write, prod.read)' = Distance(write, prod.read)
    BY <2>4
  <2>6. Held' <= NumSlots /\ (Held < NumSlots => Held' < NumSlots)
    BY <1>0, <1>n, <2>3 DEF IndInv
  <2>7. prod.pc = "loaded" => Held' <= Distance(write, prod.read)'
    BY <1>n, <2>3, <2>5 DEF IndInv
  <2>8. cons'.pc = "popped" /\ cons'.write = cons.write
    BY <2>4 DEF IndInv
  <2> QED
    BY <2>2, <2>4, <2>6, <2>7, <2>8 DEF IndInv
<1>11. CASE Return
  BY <1>11 DEF Return, IndInv, Held
<1>12. CASE UNCHANGED ringVars
  BY <1>12 DEF ringVars, IndInv, Held
<1> QED
  BY <1>1, <1>2, <1>3, <1>4, <1>5, <1>6, <1>7, <1>8, <1>9, <1>10, <1>11, <1>12
     DEF AnyStep, Produce, Consume

LEMMA InvShares == IndInv => SlotNotShared
<1> SUFFICES ASSUME IndInv, prod.pc \in {"filling", "filled"}, cons.pc \in {"copying", "copied"}
             PROVE  write % NumSlots # read % NumSlots
  BY DEF SlotNotShared
<1>1. write \in Index /\ read \in Index /\ 0 < Held /\ Held < NumSlots
  BY DEF IndInv
<1> QED
  BY <1>1, OtherSlot DEF Held

\* A step of the path is a step of the ring, or leaves it alone.
LEMMA PathStepsRing == [Next]_vars => [AnyStep]_ringVars
<1> SUFFICES ASSUME [Next]_vars PROVE [AnyStep]_ringVars
  OBVIOUS
<1>1. CASE UNCHANGED vars
  BY <1>1 DEF vars
<1>2. ASSUME NEW mapped \in BOOLEAN, Arrive(mapped) PROVE AnyStep
  BY <1>2 DEF Arrive, AnyStep
<1>3. ASSUME NEW n \in 0 .. MaxWindows, Handle(n) PROVE AnyStep
  BY <1>3 DEF Handle, AnyStep
<1>4. CASE Ring
  BY <1>4 DEF Ring, AnyStep
<1>5. CASE LanLoss \/ Pace \/ Write \/ Reconnect \/ Deliver \/ Receive
  BY <1>5 DEF LanLoss, Pace, Write, Reconnect, Deliver, Receive
<1> QED
  BY <1>1, <1>2, <1>3, <1>4, <1>5 DEF Next

-----------------------------------------------------------------------------
(* The ring is a lossy queue *)

\* What is in a slot while it is filled, and what Pop has copied of one.
CopyInv ==
  /\ RingTypeOK
  /\ prod.pc # "idle" => prod.buf \in Buffer
  /\ prod.pc \in {"filling", "filled"} => slots[write % NumSlots].info = prod.buf
  /\ prod.pc = "filled" => slots[write % NumSlots].samples = prod.buf
  /\ cons.pc \in {"copying", "copied"} => cons.info = slots[read % NumSlots].info
  /\ cons.pc = "copied" => cons.samples = slots[read % NumSlots].samples

LEMMA SlotIndex ==
  ASSUME NEW i \in Index
  PROVE  i % NumSlots \in 0..(NumSlots - 1)
  BY RingAssumption DEF Index

\* The k-th index after r, as far as w.
LEMMA AdvanceBy ==
  ASSUME NEW w \in Index, NEW r \in Index, NEW k \in 0..Distance(w, r)
  PROVE  /\ (r + k) % Modulus \in Index
         /\ Distance(w, (r + k) % Modulus) = Distance(w, r) - k
         /\ k = Distance(w, r) => (r + k) % Modulus = w
<1>1. /\ Modulus \in Nat \ {0} /\ w \in 0..(Modulus - 1) /\ r \in 0..(Modulus - 1)
      /\ Distance(w, r) = IF w >= r THEN w - r ELSE w - r + Modulus
  BY RingAssumption, DistanceIs DEF Index
<1> DEFINE v == (r + k) % Modulus
           d == Distance(w, r)
<1>2. k \in Nat /\ k <= d /\ d \in 0..(Modulus - 1)
  BY <1>1
<1>3. v = IF r + k < Modulus THEN r + k ELSE r + k - Modulus
  <2>1. CASE r + k < Modulus
    BY <1>1, <1>2, <2>1
  <2>2. CASE r + k >= Modulus
    <3>1. /\ r + k - Modulus \in 0..(Modulus - 1)
          /\ r + k = (r + k - Modulus) + Modulus
      BY <1>1, <1>2, <2>2
    <3>2. \A x \in 0..(Modulus - 1) : (x + Modulus) % Modulus = x
      BY <1>1
    <3>3. v = r + k - Modulus
      BY <3>1, <3>2
    <3> QED
      BY <1>1, <1>2, <2>2, <3>3
  <2> QED
    BY <1>1, <1>2, <2>1, <2>2
<1> HIDE DEF v
<1>4. v \in Index
  BY <1>1, <1>2, <1>3 DEF Index
<1>5. Distance(w, v) = IF w >= v THEN w - v ELSE w - v + Modulus
  BY <1>4, DistanceIs
<1>6. /\ Distance(w, v) = d - k
      /\ k = d => v = w
  BY <1>1, <1>2, <1>3, <1>5
<1> QED
  BY <1>4, <1>6 DEF v

\* The i-th buffer in the ring: its index, which is not the one filled while the
\* ring has room.
LEMMA Positions ==
  ASSUME write \in Index, read \in Index, NEW i \in 1..Held
  PROVE  /\ (read + i - 1) % Modulus \in Index
         /\ Held < NumSlots => ((read + i - 1) % Modulus) % NumSlots # write % NumSlots
         /\ i = 1 => (read + i - 1) % Modulus = read
<1>1. Held \in Nat /\ i - 1 \in 0..Held /\ read + i - 1 = read + (i - 1)
  BY Advance DEF Held, Index
<1> DEFINE v == (read + (i - 1)) % Modulus
<1>2. v \in Index /\ Distance(write, v) = Held - (i - 1)
  BY <1>1, AdvanceBy DEF Held
<1>3. Held < NumSlots => v % NumSlots # write % NumSlots
  <2>1. Held < NumSlots => 0 < Distance(write, v) /\ Distance(write, v) < NumSlots
    BY <1>1, <1>2, RingAssumption
  <2> HIDE DEF v
  <2> QED
    BY <1>2, <2>1, OtherSlot
<1>4. i = 1 => v = read
  <2>1. read % Modulus = read
    BY RingAssumption DEF Index
  <2> QED
    BY <2>1 DEF Index
<1> QED
  BY <1>1, <1>2, <1>3, <1>4

LEMMA ContentsType ==
  ASSUME RingTypeOK
  PROVE  /\ Held \in Nat /\ Contents \in Seq(Slot) /\ Len(Contents) = Held
         /\ \A i \in 1..Held : Contents[i] = slots[((read + i - 1) % Modulus) % NumSlots]
<1>1. write \in Index /\ read \in Index /\ Held \in Nat
  BY Advance DEF RingTypeOK, Held
<1>2. \A i \in 1..Held : slots[((read + i - 1) % Modulus) % NumSlots] \in Slot
  <2> SUFFICES ASSUME NEW i \in 1..Held
               PROVE  slots[((read + i - 1) % Modulus) % NumSlots] \in Slot
    OBVIOUS
  <2>1. ((read + i - 1) % Modulus) % NumSlots \in 0..(NumSlots - 1)
    BY <1>1, Positions, SlotIndex
  <2> QED
    BY <2>1 DEF RingTypeOK
<1> QED
  BY <1>1, <1>2 DEF Contents, Held

LEMMA InitCopy == RingInit => CopyInv
  BY RingAssumption DEF RingInit, CopyInv, RingTypeOK, Index, Slot, Part

\* The slot that is filled keeps its parts until it is published, the one that is
\* copied until it is released.
LEMMA NextCopy == IndInv /\ CopyInv /\ [RingNext]_ringVars => CopyInv'
<1> SUFFICES ASSUME IndInv, CopyInv, [RingNext]_ringVars PROVE CopyInv'
  OBVIOUS
<1>0. IndInv' /\ SlotNotShared /\ SlotNotShared'
  <2>1. [RingNext]_ringVars => [AnyStep]_ringVars
    BY DEF RingNext, AnyStep
  <2>2. IndInv'
    BY <2>1, NextInv
  <2>3. IndInv' => SlotNotShared'
    BY InvShares, PTL
  <2> QED
    BY <2>2, <2>3, InvShares
<1>t. /\ slots \in [0..(NumSlots - 1) -> Slot]
      /\ write % NumSlots \in 0..(NumSlots - 1) /\ read % NumSlots \in 0..(NumSlots - 1)
      /\ prod.buf \in Part /\ prod.read \in Index /\ cons.write \in Index
      /\ cons.info \in Part /\ cons.samples \in Part
      /\ \A i \in 0..(NumSlots - 1) : slots[i].info \in Part /\ slots[i].samples \in Part
  BY SlotIndex DEF CopyInv, RingTypeOK, Slot
<1>1. ASSUME NEW b \in Buffer, Callback(b) PROVE CopyInv'
  BY <1>1 DEF Callback, CopyInv, RingTypeOK, Part
<1>2. CASE DropBuffer
  BY <1>2 DEF DropBuffer, CopyInv, RingTypeOK
<1>3. CASE FillInfo
  <2> DEFINE j == write % NumSlots
             x == [slots[j] EXCEPT !.info = prod.buf]
  <2>1. /\ slots' = [slots EXCEPT ![j] = x] /\ x \in Slot /\ x.info = prod.buf
        /\ prod' = [prod EXCEPT !.pc = "filling"] /\ prod.pc = "loaded"
        /\ UNCHANGED <<write, read, dropped, cons, got>>
    BY <1>3, <1>t DEF FillInfo, Slot
  <2>2. /\ prod'.pc = "filling" /\ prod'.buf = prod.buf
        /\ prod' \in [pc : {"idle", "loaded", "filling", "filled"}, buf : Part, read : Index]
    BY <2>1 DEF CopyInv, RingTypeOK
  <2>3. cons.pc \in {"copying", "copied"} => j # read % NumSlots
    BY <1>0, <2>1, <2>2 DEF SlotNotShared
  <2>t. j \in 0..(NumSlots - 1)
    BY <1>t
  <2> HIDE DEF j, x
  <2>4. /\ slots' \in [0..(NumSlots - 1) -> Slot] /\ slots'[j].info = prod.buf
        /\ cons.pc \in {"copying", "copied"} => slots'[read % NumSlots] = slots[read % NumSlots]
    BY <1>t, <2>t, <2>1, <2>3
  <2>5. RingTypeOK'
    BY <2>1, <2>2, <2>4 DEF CopyInv, RingTypeOK
  <2>6. slots'[write' % NumSlots].info = prod'.buf
    BY <2>1, <2>2, <2>4 DEF j
  <2>7. prod'.buf \in Buffer
    BY <2>1, <2>2 DEF CopyInv
  <2>8. /\ cons'.pc \in {"copying", "copied"} => cons'.info = slots'[read' % NumSlots].info
        /\ cons'.pc = "copied" => cons'.samples = slots'[read' % NumSlots].samples
    BY <2>1, <2>4 DEF CopyInv
  <2> QED
    BY <2>2, <2>5, <2>6, <2>7, <2>8 DEF CopyInv
<1>4. CASE FillSamples
  <2> DEFINE j == write % NumSlots
             x == [slots[j] EXCEPT !.samples = prod.buf]
  <2>1. /\ slots' = [slots EXCEPT ![j] = x] /\ x \in Slot
        /\ x.info = slots[j].info /\ x.samples = prod.buf
        /\ prod' = [prod EXCEPT !.pc = "filled"] /\ prod.pc = "filling"
        /\ UNCHANGED <<write, read, dropped, cons, got>>
    BY <1>4, <1>t DEF FillSamples, Slot
  <2>2. /\ prod'.pc = "filled" /\ prod'.buf = prod.buf
        /\ prod' \in [pc : {"idle", "loaded", "filling", "filled"}, buf : Part, read : Index]
    BY <2>1 DEF CopyInv, RingTypeOK
  <2>3. cons.pc \in {"copying", "copied"} => j # read % NumSlots
    BY <1>0, <2>1 DEF SlotNotShared
  <2>t. j \in 0..(NumSlots - 1)
    BY <1>t
  <2>u. slots[j].info = prod.buf
    BY <2>1 DEF CopyInv
  <2> HIDE DEF j, x
  <2>4. /\ slots' \in [0..(NumSlots - 1) -> Slot]
        /\ slots'[j].info = prod.buf /\ slots'[j].samples = prod.buf
        /\ cons.pc \in {"copying", "copied"} => slots'[read % NumSlots] = slots[read % NumSlots]
    BY <1>t, <2>t, <2>u, <2>1, <2>3
  <2>5. RingTypeOK'
    BY <2>1, <2>2, <2>4 DEF CopyInv, RingTypeOK
  <2>6. slots'[write' % NumSlots].info = prod'.buf /\ slots'[write' % NumSlots].samples = prod'.buf
    BY <2>1, <2>2, <2>4 DEF j
  <2>7. prod'.buf \in Buffer
    BY <2>1, <2>2 DEF CopyInv
  <2>8. /\ cons'.pc \in {"copying", "copied"} => cons'.info = slots'[read' % NumSlots].info
        /\ cons'.pc = "copied" => cons'.samples = slots'[read' % NumSlots].samples
    BY <2>1, <2>4 DEF CopyInv
  <2> QED
    BY <2>2, <2>5, <2>6, <2>7, <2>8 DEF CopyInv
<1>5. CASE Publish
  BY <1>0, <1>5 DEF Publish, IndInv, CopyInv, RingTypeOK
<1>6. CASE Pop
  BY <1>6 DEF Pop, CopyInv, RingTypeOK
<1>7. CASE Empty
  BY <1>7 DEF Empty, CopyInv, RingTypeOK
<1>8. CASE CopyInfo
  BY <1>8, <1>t DEF CopyInfo, CopyInv, RingTypeOK
<1>9. CASE CopySamples
  BY <1>9, <1>t DEF CopySamples, CopyInv, RingTypeOK
<1>10. CASE Release
  <2>1. got' \in Slot
    BY <1>10, <1>t DEF Release, Slot
  <2> QED
    BY <1>0, <1>10, <2>1 DEF Release, IndInv, CopyInv, RingTypeOK
<1>11. CASE Return
  BY <1>11 DEF Return, CopyInv, RingTypeOK
<1>12. CASE UNCHANGED ringVars
  BY <1>12 DEF ringVars, CopyInv, RingTypeOK
<1> QED
  BY <1>1, <1>2, <1>3, <1>4, <1>5, <1>6, <1>7, <1>8, <1>9, <1>10, <1>11, <1>12
     DEF RingNext, Produce, Consume

\* What a step leaves of the abstract queue.
LEMMA SameContents ==
  ASSUME RingTypeOK, UNCHANGED <<write, read>>,
         slots' = slots \/ (Held < NumSlots /\ \E x : slots' = [slots EXCEPT ![write % NumSlots] = x])
  PROVE  Contents' = Contents
<1>1. write \in Index /\ read \in Index
  BY DEF RingTypeOK
<1>2. \A i \in 1..Held : slots'[((read + i - 1) % Modulus) % NumSlots]
                          = slots[((read + i - 1) % Modulus) % NumSlots]
  <2> SUFFICES ASSUME NEW i \in 1..Held
               PROVE  slots'[((read + i - 1) % Modulus) % NumSlots]
                        = slots[((read + i - 1) % Modulus) % NumSlots]
    OBVIOUS
  <2> DEFINE k == ((read + i - 1) % Modulus) % NumSlots
  <2>1. k \in 0..(NumSlots - 1) /\ (Held < NumSlots => k # write % NumSlots)
    BY <1>1, Positions, SlotIndex
  <2> HIDE DEF k
  <2> QED
    BY <2>1 DEF RingTypeOK, k
<1>3. Distance(write, read)' = Distance(write, read)
  OBVIOUS
<1> QED
  BY <1>2, <1>3 DEF Contents, Held

LEMMA AppendIs ==
  ASSUME NEW S, NEW q \in Seq(S), NEW x \in S, NEW n \in Nat, Len(q) = n,
         NEW r, r = [i \in 1..(n + 1) |-> IF i = n + 1 THEN x ELSE q[i]]
  PROVE  r = Append(q, x)
<1>1. \A i \in 1..(n + 1) : (IF i = n + 1 THEN x ELSE q[i]) \in S
  OBVIOUS
<1>2. r \in Seq(S) /\ Len(r) = n + 1 /\ Append(q, x) \in Seq(S) /\ Len(Append(q, x)) = n + 1
  BY <1>1
<1>3. \A i \in 1..(n + 1) : r[i] = Append(q, x)[i]
  OBVIOUS
<1> QED
  BY <1>2, <1>3, SeqEqual

LEMMA TailIs ==
  ASSUME NEW S, NEW q \in Seq(S), NEW n \in Nat, Len(q) = n, n > 0,
         NEW r, r = [i \in 1..(n - 1) |-> q[i + 1]]
  PROVE  r = Tail(q)
<1>1. \A i \in 1..(n - 1) : q[i + 1] \in S
  OBVIOUS
<1>2. r \in Seq(S) /\ Len(r) = n - 1 /\ Tail(q) \in Seq(S) /\ Len(Tail(q)) = n - 1
  BY <1>1
<1>3. \A i \in 1..(n - 1) : r[i] = Tail(q)[i]
  OBVIOUS
<1> QED
  BY <1>2, <1>3, SeqEqual

\* A buffer is lost when the callback finds the ring full.
LEMMA CallbackStep ==
  ASSUME IndInv, CopyInv, NEW b \in Buffer, Callback(b)
  PROVE  [Queue!Next]_Queue!vars
<1>1. /\ prod.pc = "idle" /\ prod'.pc = "loaded" /\ prod'.read = read
      /\ UNCHANGED <<write, read, slots, dropped, got>>
  BY DEF Callback
<1>2. Contents' = Contents
  BY <1>1, SameContents DEF CopyInv
<1>3. Lost = dropped /\ Lost' = IF Full(write, read) THEN dropped + 1 ELSE dropped
  BY <1>1 DEF Lost, Full, Distance
<1>4. Full(write, read) => Len(Contents) = NumSlots
  <2>1. Held \in Nat /\ Len(Contents) = Held /\ Held <= NumSlots
    BY ContentsType DEF IndInv, CopyInv
  <2> QED
    BY <2>1, RingAssumption DEF Full, Held
<1> QED
  BY <1>1, <1>2, <1>3, <1>4 DEF Queue!Next, Queue!Drop, Queue!vars

LEMMA FillStep ==
  ASSUME IndInv, CopyInv, FillInfo \/ FillSamples
  PROVE  UNCHANGED Queue!vars
<1>1. /\ prod.pc \in {"loaded", "filling"} /\ prod'.pc \in {"filling", "filled"}
      /\ UNCHANGED <<write, read, dropped, got>>
      /\ \E x : slots' = [slots EXCEPT ![write % NumSlots] = x]
      /\ prod.pc = "loaded" => ~Full(write, prod.read)
  <2>1. prod \in [pc : {"idle", "loaded", "filling", "filled"}, buf : Part, read : Index]
    BY DEF CopyInv, RingTypeOK
  <2> QED
    BY <2>1 DEF FillInfo, FillSamples
<1>2. Held < NumSlots
  <2>1. Held \in Nat /\ Distance(write, prod.read) \in Nat /\ NumSlots \in Nat
    BY Advance, RingAssumption DEF IndInv, Held, Index
  <2> QED
    BY <1>1, <2>1 DEF IndInv, Full
<1>3. Contents' = Contents
  BY <1>1, <1>2, SameContents DEF CopyInv
<1>4. Lost' = Lost
  BY <1>1 DEF Lost
<1> QED
  BY <1>1, <1>3, <1>4 DEF Queue!vars

LEMMA PublishStep ==
  ASSUME IndInv, CopyInv, Publish
  PROVE  /\ prod.buf \in Buffer
         /\ Queue!Put([info |-> prod.buf, samples |-> prod.buf])
<1> DEFINE j == write % NumSlots
           x == [info |-> prod.buf, samples |-> prod.buf]
           n == Held
<1>1. /\ write \in Index /\ read \in Index /\ n < NumSlots /\ prod.pc = "filled"
      /\ write' = (write + 1) % Modulus /\ prod'.pc = "idle"
      /\ UNCHANGED <<read, slots, dropped, got>>
  <2>1. prod \in [pc : {"idle", "loaded", "filling", "filled"}, buf : Part, read : Index]
    BY DEF CopyInv, RingTypeOK
  <2> QED
    BY <2>1 DEF Publish, IndInv
<1>2. n \in Nat /\ Contents \in Seq(Slot) /\ Len(Contents) = n
  BY ContentsType DEF CopyInv
<1>3. Distance(write', read') = n + 1
  <2>1. n < Modulus - 1
    BY <1>1, <1>2, RingAssumption
  <2> QED
    BY <1>1, <2>1, Advance DEF Held
<1>4. slots[j] = x
  <2>1. j \in 0..(NumSlots - 1)
    BY <1>1, SlotIndex
  <2>2. slots[j] \in Slot /\ slots[j].info = prod.buf /\ slots[j].samples = prod.buf
    BY <1>1, <2>1 DEF CopyInv, RingTypeOK
  <2> QED
    BY <2>2 DEF Slot
<1>5. (read + (n + 1) - 1) % Modulus = write
  <2>1. (read + n) % Modulus = write
    BY <1>1, <1>2, AdvanceBy DEF Held
  <2>2. read + (n + 1) - 1 = read + n
    BY <1>1, <1>2 DEF Index
  <2> QED
    BY <2>1, <2>2
<1>6. Contents' = [i \in 1..(n + 1) |-> IF i = n + 1 THEN x ELSE Contents[i]]
  <2>1. Contents' = [i \in 1..(n + 1) |-> slots[((read + i - 1) % Modulus) % NumSlots]]
    BY <1>1, <1>3 DEF Contents
  <2>2. \A i \in 1..(n + 1) : slots[((read + i - 1) % Modulus) % NumSlots]
                               = IF i = n + 1 THEN x ELSE Contents[i]
    <3> SUFFICES ASSUME NEW i \in 1..(n + 1)
                 PROVE  slots[((read + i - 1) % Modulus) % NumSlots]
                          = IF i = n + 1 THEN x ELSE Contents[i]
      OBVIOUS
    <3>1. CASE i = n + 1
      BY <1>4, <1>5, <3>1
    <3>2. CASE i # n + 1
      <4>1. i \in 1..n
        BY <1>2, <3>2
      <4> QED
        BY <3>2, <4>1, ContentsType DEF CopyInv
    <3> QED
      BY <3>1, <3>2
  <2> QED
    BY <2>1, <2>2
<1> HIDE DEF x, n
<1>7. Contents' = Append(Contents, x)
  <2>1. x \in Slot
    BY <1>4, <1>1, SlotIndex DEF CopyInv, RingTypeOK
  <2> QED
    BY <1>2, <1>6, <2>1, AppendIs
<1>8. Lost' = Lost
  BY <1>1 DEF Lost
<1>9. Queue!Put(x)
  BY <1>1, <1>2, <1>7, <1>8 DEF Queue!Put
<1> QED
  BY <1>1, <1>9 DEF x, CopyInv

LEMMA ReleaseStep ==
  ASSUME IndInv, CopyInv, Release
  PROVE  Queue!Take
<1> DEFINE n == Held
<1>1. /\ write \in Index /\ read \in Index /\ n > 0
      /\ read' = (read + 1) % Modulus /\ got' = [info |-> cons.info, samples |-> cons.samples]
      /\ cons.pc = "copied"
      /\ UNCHANGED <<write, slots, dropped, prod>>
  BY DEF Release, IndInv
<1>2. n \in Nat /\ Contents \in Seq(Slot) /\ Len(Contents) = n
  BY ContentsType DEF CopyInv
<1>3. Distance(write', read') = n - 1
  BY <1>1, Advance DEF Held
<1>4. got' = Contents[1]
  <2>1. 1 \in 1..n
    BY <1>1, <1>2
  <2>2. Contents[1] = slots[read % NumSlots]
    BY <1>1, <2>1, Positions, ContentsType DEF CopyInv
  <2>3. slots[read % NumSlots] \in Slot
    BY <1>1, SlotIndex DEF CopyInv, RingTypeOK
  <2>4. cons.info = slots[read % NumSlots].info /\ cons.samples = slots[read % NumSlots].samples
    BY <1>1 DEF CopyInv
  <2> QED
    BY <1>1, <2>2, <2>3, <2>4 DEF Slot
<1>5. \A i \in 1..(n - 1) : (read' + i - 1) % Modulus = (read + (i + 1) - 1) % Modulus
  <2> SUFFICES ASSUME NEW i \in 1..(n - 1)
               PROVE  (read' + i - 1) % Modulus = (read + (i + 1) - 1) % Modulus
    OBVIOUS
  <2>1. /\ Modulus \in Nat \ {0} /\ read \in 0..(Modulus - 1) /\ i \in 1..(Modulus - 1)
        /\ read' = IF read = Modulus - 1 THEN 0 ELSE read + 1
    <3>1. n <= Modulus - 1
      BY <1>2, RingAssumption DEF IndInv
    <3> QED
      BY <1>1, <1>2, <3>1, RingAssumption, NextIndex DEF Index
  <2>2. CASE read # Modulus - 1
    <3>1. read' + i - 1 = read + (i + 1) - 1
      BY <2>1, <2>2
    <3> QED
      BY <3>1
  <2>3. CASE read = Modulus - 1
    <3>1. read' + i - 1 = i - 1 /\ read + (i + 1) - 1 = (i - 1) + Modulus
          /\ i - 1 \in 0..(Modulus - 1)
      BY <2>1, <2>3
    <3>2. \A y \in 0..(Modulus - 1) : y % Modulus = y /\ (y + Modulus) % Modulus = y
      BY <2>1
    <3> QED
      BY <3>1, <3>2
  <2> QED
    BY <2>2, <2>3
<1>6. Contents' = [i \in 1..(n - 1) |-> Contents[i + 1]]
  <2>1. Contents' = [i \in 1..(n - 1) |-> slots[((read' + i - 1) % Modulus) % NumSlots]]
    BY <1>1, <1>3 DEF Contents
  <2>2. \A i \in 1..(n - 1) : slots[((read' + i - 1) % Modulus) % NumSlots] = Contents[i + 1]
    <3>1. \A i \in 1..(n - 1) : i + 1 \in 1..n
      BY <1>2
    <3> QED
      BY <1>5, <3>1, ContentsType DEF CopyInv
  <2> QED
    BY <2>1, <2>2
<1> HIDE DEF n
<1>7. Contents' = Tail(Contents) /\ Contents # <<>> /\ Head(Contents) = Contents[1]
  <2>1. Contents' = Tail(Contents)
    BY <1>1, <1>2, <1>6, TailIs
  <2>2. Contents # <<>> /\ Head(Contents) = Contents[1]
    BY <1>1, <1>2
  <2> QED
    BY <2>1, <2>2
<1>8. Lost' = Lost
  BY <1>1 DEF Lost, Full, Distance
<1> QED
  BY <1>4, <1>7, <1>8 DEF Queue!Take

LEMMA QueueInit == RingInit => Queue!Init
<1> SUFFICES ASSUME RingInit PROVE Queue!Init
  OBVIOUS
<1>1. Distance(write, read) = 0 /\ Lost = 0 /\ got = [info |-> Nothing, samples |-> Nothing]
  <2>1. 0 \in Index
    BY RingAssumption DEF Index
  <2> QED
    BY <2>1, Advance DEF RingInit, Lost
<1>2. Contents = <<>>
  BY <1>1 DEF Contents
<1> QED
  BY <1>1, <1>2 DEF Queue!Init

LEMMA QueueNext == IndInv /\ CopyInv /\ [RingNext]_ringVars => [Queue!Next]_Queue!vars
<1> SUFFICES ASSUME IndInv, CopyInv, [RingNext]_ringVars PROVE [Queue!Next]_Queue!vars
  OBVIOUS
<1>1. ASSUME NEW b \in Buffer, Callback(b) PROVE [Queue!Next]_Queue!vars
  BY <1>1, CallbackStep
<1>2. CASE DropBuffer
  <2>1. /\ prod.pc = "loaded" /\ Full(write, prod.read) /\ dropped' = dropped + 1
        /\ prod'.pc = "idle" /\ UNCHANGED <<write, read, slots, got>>
    <3>1. prod \in [pc : {"idle", "loaded", "filling", "filled"}, buf : Part, read : Index]
      BY DEF CopyInv, RingTypeOK
    <3> QED
      BY <1>2, <3>1 DEF DropBuffer
  <2>2. Contents' = Contents /\ Lost' = Lost
    BY <2>1, SameContents DEF CopyInv, Lost
  <2> QED
    BY <2>1, <2>2 DEF Queue!vars
<1>3. CASE FillInfo \/ FillSamples
  BY <1>3, FillStep
<1>4. CASE Publish
  BY <1>4, PublishStep DEF Queue!Next
<1>5. CASE Release
  BY <1>5, ReleaseStep DEF Queue!Next
<1>6. CASE Pop \/ Empty \/ CopyInfo \/ CopySamples \/ Return \/ UNCHANGED ringVars
  <2>1. UNCHANGED <<write, read, slots, dropped, prod, got>>
    BY <1>6 DEF Pop, Empty, CopyInfo, CopySamples, Return, ringVars
  <2>2. Contents' = Contents
    BY <2>1, SameContents DEF CopyInv
  <2>3. Lost' = Lost
    BY <2>1 DEF Lost, Full, Distance
  <2> QED
    BY <2>1, <2>2, <2>3 DEF Queue!vars
<1> QED
  BY <1>1, <1>2, <1>3, <1>4, <1>5, <1>6 DEF RingNext, Produce, Consume

\* The ring on its own: no slot is copied while the callback fills it.
THEOREM RingSlotsAreNotShared == RingSpec => []SlotNotShared
<1>1. [RingNext]_ringVars => [AnyStep]_ringVars
  BY DEF RingNext, AnyStep
<1>2. IndInv /\ [RingNext]_ringVars => IndInv'
  BY <1>1, NextInv
<1> QED
  BY <1>2, InitInv, InvShares, PTL DEF RingSpec

\* On the way of captured audio, no slot of the ring is copied while the callback
\* fills it.
THEOREM SlotsAreNotShared == Spec => []SlotNotShared
<1>1. Init => IndInv
  BY InitInv DEF Init
<1>2. IndInv /\ [Next]_vars => IndInv'
  BY NextInv, PathStepsRing
<1> QED
  BY <1>1, <1>2, InvShares, PTL DEF Spec

\* The ring on its own is a bounded queue: every step of callback and Pop puts,
\* drops or takes one buffer, or shows nothing.
THEOREM RingImplementsQueue == RingSpec => RingIsQueue
<1>1. [RingNext]_ringVars => [AnyStep]_ringVars
  BY DEF RingNext, AnyStep
<1>2. IndInv /\ [RingNext]_ringVars => IndInv'
  BY <1>1, NextInv
<1> QED
  BY <1>2, InitInv, InitCopy, NextCopy, QueueInit, QueueNext, PTL DEF RingSpec, RingIsQueue, Queue!Spec

\* The publisher hands the callback nothing but buffers.
LEMMA PathStepsRingWithBuffers ==
  count \in Nat /\ [Next]_vars => count' \in Nat /\ [RingNext]_ringVars
<1> SUFFICES ASSUME count \in Nat, [Next]_vars PROVE count' \in Nat /\ [RingNext]_ringVars
  OBVIOUS
<1>1. CASE UNCHANGED vars
  BY <1>1 DEF vars, pathVars
<1>2. ASSUME NEW mapped \in BOOLEAN, Arrive(mapped) PROVE count' \in Nat /\ RingNext
  <2>1. [count |-> count, mapped |-> mapped] \in Buffer
    BY <1>2, PathAssumption DEF Arrive
  <2> QED
    BY <1>2, <2>1 DEF Arrive, RingNext
<1>3. ASSUME NEW n \in 0 .. MaxWindows, Handle(n) PROVE count' \in Nat /\ RingNext
  BY <1>3 DEF Handle, RingNext
<1>4. CASE Ring
  BY <1>4 DEF Ring, RingNext, pathVars
<1>5. CASE LanLoss \/ Pace \/ Write \/ Reconnect \/ Deliver \/ Receive
  BY <1>5 DEF LanLoss, Pace, Write, Reconnect, Deliver, Receive
<1> QED
  BY <1>1, <1>2, <1>3, <1>4, <1>5 DEF Next

\* On the way of captured audio, what the drain loop pops is what the callback was
\* handed: whole, once and in order; what is lost found the ring full
\* (capture.c's source callback and pop).
THEOREM RingIsALossyQueue == Spec => RingIsQueue
<1>1. Init => IndInv /\ CopyInv /\ count \in Nat /\ Queue!Init
  BY InitInv, InitCopy, QueueInit DEF Init
<1>2. IndInv /\ CopyInv /\ count \in Nat /\ [Next]_vars
        => IndInv' /\ CopyInv' /\ (count \in Nat)'
  BY NextInv, PathStepsRing, PathStepsRingWithBuffers, NextCopy
<1>3. IndInv /\ CopyInv /\ count \in Nat /\ [Next]_vars => [Queue!Next]_Queue!vars
  BY PathStepsRingWithBuffers, QueueNext
<1> QED
  BY <1>1, <1>2, <1>3, PTL DEF Spec, RingIsQueue, Queue!Spec

-----------------------------------------------------------------------------
(* A lost span reads as silence *)

\* The least count that a buffer on its way can have.
Low == IF cons.pc = "popped" THEN got.info.count + 1 ELSE loss.expected

\* Buffers are counted once and stay in order: behind what the tracker expects come
\* those in the ring, the one the callback has, and those to come.
InOrder ==
  /\ count \in Nat /\ Low <= count
  /\ prod.pc # "idle" => Low <= prod.buf.count /\ prod.buf.count < count
  /\ cons.pc = "popped" => got.info \in Buffer /\ loss.expected <= got.info.count
  /\ \A i \in 1..Held :
       /\ Contents[i].info \in Buffer
       /\ Low <= Contents[i].info.count /\ Contents[i].info.count < count
       /\ prod.pc # "idle" => Contents[i].info.count < prod.buf.count
  /\ \A i, j \in 1..Held : i < j => Contents[i].info.count < Contents[j].info.count

\* An anchored assembler stands right before the buffer that the tracker expects.
Anchor ==
  /\ loss \in [first : BOOLEAN, expected : Nat, lost : Nat]
  /\ placed \in [count : {Nothing} \cup Nat, skipped : Nat, spliced : BOOLEAN]
  /\ anchored \in BOOLEAN
  /\ anchored => /\ loss.first /\ placed.count \in Nat
                 /\ placed.count + placed.skipped + 1 = loss.expected
  /\ ~placed.spliced

LEMMA BufferTypes == \A b \in Buffer : b.count \in Nat /\ b.mapped \in BOOLEAN
  BY PathAssumption

\* The steps that put nothing into the ring and take nothing out of it.
LEMMA QuietContents ==
  ASSUME IndInv, CopyInv,
         \/ \E b : Callback(b)
         \/ DropBuffer \/ FillInfo \/ FillSamples
         \/ Pop \/ Empty \/ CopyInfo \/ CopySamples \/ Return
         \/ UNCHANGED ringVars
  PROVE  Contents' = Contents /\ Held' = Held
<1>1. CASE FillInfo \/ FillSamples
  <2>1. Contents' = Contents
    BY <1>1, FillStep DEF Queue!vars
  <2>2. UNCHANGED <<write, read>>
    BY <1>1 DEF FillInfo, FillSamples
  <2> QED
    BY <2>1, <2>2 DEF Held
<1>2. CASE ~(FillInfo \/ FillSamples)
  <2>1. UNCHANGED <<write, read, slots>>
    BY <1>2 DEF Callback, DropBuffer, Pop, Empty, CopyInfo, CopySamples, Return, ringVars
  <2>2. Contents' = Contents
    BY <2>1, SameContents DEF CopyInv
  <2> QED
    BY <2>1, <2>2 DEF Held
<1> QED
  BY <1>1, <1>2

LEMMA ContentsLength == RingTypeOK => Len(Contents) = Held
  BY ContentsType

LEMMA InitOrder == Init => InOrder /\ Anchor
<1> SUFFICES ASSUME Init PROVE InOrder /\ Anchor
  OBVIOUS
<1>1. Held = 0
  <2>1. 0 \in Index
    BY RingAssumption DEF Index
  <2> QED
    BY <2>1, Advance DEF Init, RingInit, Held
<1>2. /\ prod.pc = "idle" /\ cons.pc = "idle" /\ count = 0 /\ anchored = FALSE
      /\ loss = [first |-> FALSE, expected |-> 0, lost |-> 0]
      /\ placed = [count |-> Nothing, skipped |-> 0, spliced |-> FALSE]
  BY DEF Init, RingInit
<1>3. InOrder
  BY <1>1, <1>2 DEF InOrder, Low
<1>4. Anchor
  BY <1>2 DEF Anchor
<1> QED
  BY <1>3, <1>4

\* The callback is handed a buffer newer than all others.
LEMMA ArriveOrder ==
  ASSUME IndInv, CopyInv, InOrder, Anchor, NEW mapped \in BOOLEAN, Arrive(mapped)
  PROVE  InOrder' /\ Anchor'
<1>1. /\ prod'.pc = "loaded" /\ prod'.buf.count = count /\ count' = count + 1
      /\ UNCHANGED <<cons, got, loss, placed, anchored>>
  BY DEF Arrive, Callback, sendVars
<1>2. Contents' = Contents /\ Held' = Held
  BY QuietContents DEF Arrive
<1>3. Low' = Low
  BY <1>1 DEF Low
<1>4. Low \in Nat /\ \A i \in 1..Held : Contents[i].info.count \in Nat
  BY BufferTypes DEF InOrder, Anchor, Low
<1>5. InOrder'
  BY <1>1, <1>2, <1>3, <1>4 DEF InOrder
<1> QED
  BY <1>1, <1>5 DEF Anchor

LEMMA QuietOrder ==
  ASSUME IndInv, CopyInv, InOrder, Anchor, UNCHANGED <<count, loss, placed, anchored, got>>,
         \/ DropBuffer \/ FillInfo \/ FillSamples
         \/ Pop \/ Empty \/ CopyInfo \/ CopySamples
         \/ UNCHANGED ringVars
  PROVE  InOrder' /\ Anchor'
<1>1. Contents' = Contents /\ Held' = Held
  BY QuietContents
<1>2. /\ prod'.buf = prod.buf /\ (prod.pc = "idle" => prod'.pc = "idle")
      /\ cons'.pc = "popped" <=> cons.pc = "popped"
  BY DEF IndInv, DropBuffer, FillInfo, FillSamples, Pop, Empty, CopyInfo, CopySamples, ringVars
<1>3. Low' = Low
  BY <1>2 DEF Low
<1>4. InOrder'
  BY <1>1, <1>2, <1>3 DEF InOrder
<1> QED
  BY <1>4 DEF Anchor

LEMMA PublishOrder ==
  ASSUME IndInv, CopyInv, InOrder, Anchor, UNCHANGED <<count, loss, placed, anchored>>, Publish
  PROVE  InOrder' /\ Anchor'
<1> DEFINE x == [info |-> prod.buf, samples |-> prod.buf]
           n == Held
<1>1. /\ prod.pc # "idle" /\ prod'.pc = "idle" /\ UNCHANGED <<cons, got>>
  BY DEF Publish, IndInv
<1>2. /\ prod.buf \in Buffer /\ Contents' = Append(Contents, x)
      /\ n \in Nat /\ Contents \in Seq(Slot) /\ Len(Contents) = n
  BY PublishStep, ContentsType DEF CopyInv, Queue!Put
<1>3. x \in Slot /\ x.info = prod.buf
  BY <1>2 DEF Slot, Part
<1> HIDE DEF x
<1>4. Len(Contents') = n + 1 /\ Held' = n + 1
  <2>1. Len(Contents') = n + 1
    BY <1>2, <1>3
  <2>2. RingTypeOK'
    BY NextCopy DEF RingNext, Produce, CopyInv
  <2>3. RingTypeOK' => (Len(Contents) = Held)'
    BY ContentsLength, PTL
  <2> QED
    BY <2>1, <2>2, <2>3
<1>5. /\ \A i \in 1..n : Contents'[i] = Contents[i]
      /\ Contents'[n + 1] = x
  BY <1>2, <1>3
<1>6. Low' = Low
  BY <1>1 DEF Low
<1> HIDE DEF n
<1>7. \A i \in 1..(n + 1) : i \in 1..n \/ i = n + 1
  BY <1>2
<1>8. Low \in Nat /\ prod.buf.count \in Nat /\ \A i \in 1..n : Contents[i].info.count \in Nat
  BY <1>2, BufferTypes DEF InOrder, Anchor, Low, n
<1>9. \A i \in 1..(n + 1) : /\ Contents'[i].info \in Buffer
                            /\ Low <= Contents'[i].info.count /\ Contents'[i].info.count < count
  BY <1>1, <1>2, <1>3, <1>5, <1>7 DEF InOrder, n
<1>10. \A i, j \in 1..(n + 1) : i < j => Contents'[i].info.count < Contents'[j].info.count
  <2> SUFFICES ASSUME NEW i \in 1..(n + 1), NEW j \in 1..(n + 1), i < j
               PROVE  Contents'[i].info.count < Contents'[j].info.count
    OBVIOUS
  <2>1. i \in 1..n
    BY <1>2
  <2>2. CASE j \in 1..n
    BY <1>5, <2>1, <2>2 DEF InOrder, n
  <2>3. CASE j = n + 1
    BY <1>1, <1>3, <1>5, <2>1, <2>3 DEF InOrder, n
  <2> QED
    BY <1>7, <2>2, <2>3
<1>11. InOrder'
  BY <1>1, <1>4, <1>6, <1>9, <1>10 DEF InOrder
<1> QED
  BY <1>1, <1>11 DEF Anchor

\* Pop takes the oldest: what is left is newer.
LEMMA ReleaseOrder ==
  ASSUME IndInv, CopyInv, InOrder, Anchor, UNCHANGED <<count, loss, placed, anchored>>, Release
  PROVE  InOrder' /\ Anchor'
<1> DEFINE n == Held
<1>1. /\ cons.pc = "copied" /\ cons'.pc = "popped" /\ prod' = prod /\ n > 0
  BY DEF Release, IndInv
<1>2. /\ Contents' = Tail(Contents) /\ got' = Head(Contents)
      /\ n \in Nat /\ Contents \in Seq(Slot) /\ Len(Contents) = n
  BY ReleaseStep, ContentsType DEF CopyInv, Queue!Take
<1>3. Len(Contents') = n - 1 /\ Held' = n - 1
  <2>1. Len(Contents') = n - 1
    BY <1>1, <1>2
  <2>2. RingTypeOK'
    BY NextCopy DEF RingNext, Consume, CopyInv
  <2>3. RingTypeOK' => (Len(Contents) = Held)'
    BY ContentsLength, PTL
  <2> QED
    BY <2>1, <2>2, <2>3
<1>4. got' = Contents[1] /\ \A i \in 1..(n - 1) : Contents'[i] = Contents[i + 1] /\ i + 1 \in 1..n
  BY <1>1, <1>2
<1>5. Low = loss.expected /\ Low' = got'.info.count + 1 /\ 1 \in 1..n
  BY <1>1, <1>2 DEF Low
<1> HIDE DEF n
<1>6. /\ loss.expected \in Nat /\ \A i \in 1..n : Contents[i].info \in Buffer /\ Contents[i].info.count \in Nat
      /\ count \in Nat /\ prod.pc # "idle" => prod.buf.count \in Nat
  BY BufferTypes DEF InOrder, Anchor, n, CopyInv
<1>7. \A i \in 1..(n - 1) : /\ Contents'[i].info \in Buffer
                            /\ got'.info.count + 1 <= Contents'[i].info.count
                            /\ Contents'[i].info.count < count
                            /\ prod.pc # "idle" => Contents'[i].info.count < prod.buf.count
  <2> SUFFICES ASSUME NEW i \in 1..(n - 1)
               PROVE  /\ Contents'[i].info \in Buffer
                      /\ got'.info.count + 1 <= Contents'[i].info.count
                      /\ Contents'[i].info.count < count
                      /\ prod.pc # "idle" => Contents'[i].info.count < prod.buf.count
    OBVIOUS
  <2>1. i + 1 \in 1..n /\ 1 < i + 1 /\ Contents'[i] = Contents[i + 1]
    BY <1>2, <1>4
  <2>2. Contents[1].info.count < Contents[i + 1].info.count
    BY <1>5, <2>1 DEF InOrder, n
  <2> QED
    BY <1>4, <1>5, <1>6, <2>1, <2>2 DEF InOrder, n
<1>8. \A i, j \in 1..(n - 1) : i < j => Contents'[i].info.count < Contents'[j].info.count
  <2> SUFFICES ASSUME NEW i \in 1..(n - 1), NEW j \in 1..(n - 1), i < j
               PROVE  Contents'[i].info.count < Contents'[j].info.count
    OBVIOUS
  <2>1. i + 1 \in 1..n /\ j + 1 \in 1..n /\ i + 1 < j + 1
    BY <1>2, <1>4
  <2>2. Contents[i + 1].info.count < Contents[j + 1].info.count
    BY <2>1 DEF InOrder, n
  <2> QED
    BY <1>4, <2>2
<1>9. /\ got'.info \in Buffer /\ loss.expected <= got'.info.count
      /\ got'.info.count + 1 <= count
      /\ prod.pc # "idle" => got'.info.count + 1 <= prod.buf.count
  BY <1>4, <1>5, <1>6 DEF InOrder, n
<1>10. InOrder'
  BY <1>1, <1>3, <1>5, <1>7, <1>8, <1>9 DEF InOrder
<1> QED
  BY <1>10 DEF Anchor

\* A buffer behind a loss finds the cursor gone; any other is the one expected.
LEMMA HandleOrder ==
  ASSUME IndInv, CopyInv, InOrder, Anchor, NEW n \in 0..MaxWindows, Handle(n)
  PROVE  InOrder' /\ Anchor'
<1> DEFINE b == got.info
           c == b.count
<1>1. /\ cons.pc = "popped" /\ cons'.pc = "idle" /\ UNCHANGED <<count, prod>>
      /\ loss' = Observe(loss, c) /\ Place(b)
  BY DEF Handle, Return, IndInv
<1>2. Contents' = Contents /\ Held' = Held
  BY QuietContents DEF Handle
<1>3. b \in Buffer /\ c \in Nat /\ b.mapped \in BOOLEAN /\ loss.expected <= c /\ loss.expected \in Nat
  BY <1>1, BufferTypes DEF InOrder, Anchor
<1> HIDE DEF b, c
<1>4. /\ loss' \in [first : BOOLEAN, expected : Nat, lost : Nat]
      /\ loss'.first /\ loss'.expected = c + 1
  <2> DEFINE l == loss.lost + (c - loss.expected)
  <2>1. l \in Nat
    BY <1>3 DEF Anchor
  <2>2. loss' = IF ~loss.first THEN [loss EXCEPT !.first = TRUE, !.expected = c + 1]
                ELSE [loss EXCEPT !.expected = c + 1, !.lost = l]
    BY <1>1, <1>3 DEF Observe, Anchor
  <2> HIDE DEF l
  <2>3. \A e, m \in Nat :
          /\ LET x == [loss EXCEPT !.first = TRUE, !.expected = e]
             IN  x \in [first : BOOLEAN, expected : Nat, lost : Nat] /\ x.first /\ x.expected = e
          /\ LET x == [loss EXCEPT !.expected = e, !.lost = m]
             IN  /\ x \in [first : BOOLEAN, expected : Nat, lost : Nat]
                 /\ x.first = loss.first /\ x.expected = e
    BY DEF Anchor
  <2>4. c + 1 \in Nat
    BY <1>3
  <2> QED
    BY <2>1, <2>2, <2>3, <2>4
<1>5. Low = c + 1 /\ Low' = c + 1
  BY <1>1, <1>4 DEF Low, c, b
<1>6. InOrder'
  BY <1>1, <1>2, <1>5 DEF InOrder
<1>7. AnchoredFor(b) => placed.count \in Nat /\ placed.count + placed.skipped + 1 = c
  BY <1>3 DEF AnchoredFor, Gap, Anchor, c
<1>8. CASE b.mapped
  <2>1. placed' = [count |-> c, skipped |-> 0, spliced |-> FALSE] /\ anchored' = TRUE
    BY <1>1, <1>3, <1>7, <1>8 DEF Place, c
  <2> QED
    BY <1>3, <1>4, <1>6, <2>1 DEF Anchor
<1>9. CASE ~b.mapped
  <2>1. placed' = [placed EXCEPT !.skipped = placed.skipped + 1, !.spliced = FALSE]
        /\ anchored' = AnchoredFor(b)
    BY <1>1, <1>3, <1>9 DEF Place, Anchor, AnchoredFor
  <2>2. placed' \in [count : {Nothing} \cup Nat, skipped : Nat, spliced : BOOLEAN]
        /\ placed'.count = placed.count /\ placed'.skipped = placed.skipped + 1 /\ ~placed'.spliced
    <3>1. \A m \in Nat : LET x == [placed EXCEPT !.skipped = m, !.spliced = FALSE]
                         IN  /\ x \in [count : {Nothing} \cup Nat, skipped : Nat, spliced : BOOLEAN]
                             /\ x.count = placed.count /\ x.skipped = m /\ ~x.spliced
      BY DEF Anchor
    <3>2. placed.skipped + 1 \in Nat
      BY DEF Anchor
    <3> QED
      BY <2>1, <3>1, <3>2
  <2>3. anchored' \in BOOLEAN
    BY <2>1 DEF Anchor, AnchoredFor, Gap
  <2>4. placed.skipped \in Nat
    BY DEF Anchor
  <2>5. anchored' => placed'.count \in Nat /\ placed'.count + placed'.skipped + 1 = loss'.expected
    BY <1>3, <1>4, <1>7, <2>1, <2>2, <2>4
  <2> QED
    BY <1>4, <1>6, <2>2, <2>3, <2>5 DEF Anchor
<1> QED
  BY <1>3, <1>8, <1>9

LEMMA NextOrder ==
  IndInv /\ CopyInv /\ InOrder /\ Anchor /\ [Next]_vars => InOrder' /\ Anchor'
<1> SUFFICES ASSUME IndInv, CopyInv, InOrder, Anchor, [Next]_vars PROVE InOrder' /\ Anchor'
  OBVIOUS
<1>1. CASE LanLoss
  <2>1. UNCHANGED <<ringVars, loss, placed, anchored>> /\ count' = count + 1
    BY <1>1 DEF LanLoss, sendVars
  <2>2. Contents' = Contents /\ Held' = Held
    BY <2>1, QuietContents
  <2>3. UNCHANGED <<prod, cons, got, Low>>
    BY <2>1 DEF ringVars, Low
  <2>4. Low \in Nat /\ (prod.pc # "idle" => prod.buf.count \in Nat)
        /\ \A i \in 1..Held : Contents[i].info.count \in Nat
    BY BufferTypes DEF InOrder, Anchor, Low, CopyInv
  <2>5. InOrder'
    BY <2>1, <2>2, <2>3, <2>4 DEF InOrder
  <2> QED
    BY <2>1, <2>5 DEF Anchor
<1>2. ASSUME NEW mapped \in BOOLEAN, Arrive(mapped) PROVE InOrder' /\ Anchor'
  BY <1>2, ArriveOrder
<1>3. CASE Ring
  <2>1. UNCHANGED <<count, loss, placed, anchored>> /\ (Produce \/ Consume)
    BY <1>3 DEF Ring, pathVars, sendVars
  <2>2. CASE Publish
    BY <2>1, <2>2, PublishOrder
  <2>3. CASE Release
    BY <2>1, <2>3, ReleaseOrder
  <2>4. CASE \/ DropBuffer \/ FillInfo \/ FillSamples
             \/ Pop \/ Empty \/ CopyInfo \/ CopySamples
    <3>1. UNCHANGED got
      BY <2>4 DEF DropBuffer, FillInfo, FillSamples, Pop, Empty, CopyInfo, CopySamples
    <3> QED
      BY <2>1, <2>4, <3>1, QuietOrder
  <2> QED
    BY <2>1, <2>2, <2>3, <2>4 DEF Produce, Consume
<1>4. ASSUME NEW n \in 0 .. MaxWindows, Handle(n) PROVE InOrder' /\ Anchor'
  BY <1>4, HandleOrder
<1>5. CASE Pace \/ Write \/ Reconnect \/ Deliver \/ Receive \/ UNCHANGED vars
  <2>1. UNCHANGED <<ringVars, count, loss, placed, anchored>>
    BY <1>5 DEF Pace, Write, Reconnect, Deliver, Receive, vars, pathVars, sendVars
  <2>2. UNCHANGED got
    BY <2>1 DEF ringVars
  <2> QED
    BY <2>1, <2>2, QuietOrder
<1> QED
  BY <1>1, <1>2, <1>3, <1>4, <1>5 DEF Next

\* Audio follows the audio before it directly only where nothing between the two
\* was lost, on the LAN or in the ring (linkaudio.go's drain loop, Reanchor).
THEOREM LostSpansAreSilent == Spec => []LostSpanIsSilence
<1>1. Init => IndInv /\ CopyInv /\ count \in Nat /\ InOrder /\ Anchor
  BY InitInv, InitCopy, InitOrder DEF Init
<1>2. IndInv /\ CopyInv /\ count \in Nat /\ [Next]_vars
        => IndInv' /\ CopyInv' /\ (count \in Nat)'
  BY NextInv, PathStepsRing, PathStepsRingWithBuffers, NextCopy
<1>3. Anchor => LostSpanIsSilence
  BY DEF Anchor, LostSpanIsSilence
<1> QED
  BY <1>1, <1>2, <1>3, NextOrder, PTL DEF Spec

-----------------------------------------------------------------------------
(* What the receiver missed is what it counted *)

\* A hop's queue: frames from lo on and before hi, in order.
Row(q, lo, hi) ==
  /\ q \in Seq(Nat)
  /\ \A i \in 1..Len(q) : lo <= q[i] /\ q[i] < hi
  /\ \A i, j \in 1..Len(q) : i < j => q[i] < q[j]

\* No hop overtakes another: what the receiver heard comes before what is queued
\* for it, that before what the relay holds, and so on up to the encoder.
WayInv ==
  /\ sent \in 0..MaxFrames /\ Len(pace) <= PaceDepth
  /\ \E a, b, c, d \in 0..sent :
       /\ a <= b /\ b <= c /\ c <= d
       /\ heard \subseteq 0..(a - 1)
       /\ Row(inbox, a, b) /\ Row(relay, b, c) /\ Row(out, c, d) /\ Row(pace, d, sent)

\* The receiver's counters, by the first and the last frame it heard.
TrackInv ==
  /\ track \in [has : BOOLEAN, next : Int, lost : Nat, reorders : {0}]
  /\ heard = {} => ~track.has /\ track.lost = 0
  /\ heard # {} =>
       \E f, l \in heard :
         /\ \A g \in heard : f <= g /\ g <= l
         /\ track.has /\ track.next = (((FirstSeq + l) % SeqModulus) + 1) % SeqModulus
         /\ track.lost = Cardinality((f..l) \ heard)

LEMMA EmptyRow ==
  ASSUME NEW lo, NEW hi
  PROVE  Row(<<>>, lo, hi)
  BY DEF Row

LEMMA RowTail ==
  ASSUME NEW lo \in Nat, NEW hi \in Nat, NEW q, Row(q, lo, hi), q # <<>>
  PROVE  /\ Row(Tail(q), Head(q) + 1, hi)
         /\ Head(q) \in Nat /\ lo <= Head(q) /\ Head(q) < hi
         /\ Len(Tail(q)) = Len(q) - 1
<1>1. q \in Seq(Nat) /\ Len(q) \in Nat /\ Len(q) > 0
  BY DEF Row
<1>2. /\ Tail(q) \in Seq(Nat) /\ Len(Tail(q)) = Len(q) - 1 /\ Head(q) = q[1]
      /\ \A i \in 1..(Len(q) - 1) : Tail(q)[i] = q[i + 1] /\ i + 1 \in 1..Len(q) /\ q[i + 1] \in Nat
  BY <1>1
<1>3. q[1] \in Nat /\ lo <= q[1] /\ q[1] < hi /\ 1 \in 1..Len(q)
  BY <1>1 DEF Row
<1>4. \A i \in 1..(Len(q) - 1) : q[1] + 1 <= Tail(q)[i] /\ Tail(q)[i] < hi
  <2> SUFFICES ASSUME NEW i \in 1..(Len(q) - 1)
               PROVE  q[1] + 1 <= Tail(q)[i] /\ Tail(q)[i] < hi
    OBVIOUS
  <2>1. i + 1 \in 1..Len(q) /\ 1 < i + 1 /\ Tail(q)[i] = q[i + 1] /\ q[i + 1] \in Nat
    BY <1>1, <1>2
  <2>2. q[1] < q[i + 1] /\ q[i + 1] < hi
    BY <1>3, <2>1 DEF Row
  <2> QED
    BY <1>3, <2>1, <2>2
<1>5. \A i, j \in 1..(Len(q) - 1) : i < j => Tail(q)[i] < Tail(q)[j]
  <2> SUFFICES ASSUME NEW i \in 1..(Len(q) - 1), NEW j \in 1..(Len(q) - 1), i < j
               PROVE  Tail(q)[i] < Tail(q)[j]
    OBVIOUS
  <2>1. i + 1 \in 1..Len(q) /\ j + 1 \in 1..Len(q) /\ i + 1 < j + 1
    BY <1>1, <1>2
  <2>2. q[i + 1] < q[j + 1]
    BY <2>1 DEF Row
  <2> QED
    BY <1>2, <2>2
<1> QED
  BY <1>2, <1>3, <1>4, <1>5 DEF Row

\* A queue may be given room above, and takes the next frame or drops it.
LEMMA RowOffer ==
  ASSUME NEW lo \in Nat, NEW hi \in Nat, NEW q, Row(q, lo, hi), lo <= hi,
         NEW x \in Nat, hi <= x, NEW depth
  PROVE  Row(q, lo, x + 1) /\ Row(Offer(q, x, depth), lo, x + 1)
<1>1. q \in Seq(Nat) /\ Len(q) \in Nat
  BY DEF Row
<1>2. \A i \in 1..Len(q) : q[i] \in Nat /\ lo <= q[i] /\ q[i] < hi
  BY <1>1 DEF Row
<1>3. Row(q, lo, x + 1)
  BY <1>2 DEF Row
<1>4. Row(Append(q, x), lo, x + 1)
  <2> DEFINE r == Append(q, x)
  <2>1. /\ r \in Seq(Nat) /\ Len(r) = Len(q) + 1 /\ r[Len(q) + 1] = x
        /\ \A i \in 1..Len(q) : r[i] = q[i]
    BY <1>1
  <2>2. \A i \in 1..Len(r) : i \in 1..Len(q) \/ i = Len(q) + 1
    BY <1>1, <2>1
  <2> HIDE DEF r
  <2>3. \A i \in 1..Len(r) : lo <= r[i] /\ r[i] < x + 1
    BY <1>2, <2>1, <2>2
  <2>4. \A i, j \in 1..Len(r) : i < j => r[i] < r[j]
    <3> SUFFICES ASSUME NEW i \in 1..Len(r), NEW j \in 1..Len(r), i < j PROVE r[i] < r[j]
      OBVIOUS
    <3>1. i \in 1..Len(q)
      BY <1>1, <2>1
    <3>2. CASE j \in 1..Len(q)
      BY <2>1, <3>1, <3>2 DEF Row
    <3>3. CASE j = Len(q) + 1
      BY <1>2, <2>1, <3>1, <3>3
    <3> QED
      BY <2>2, <3>2, <3>3
  <2> QED
    BY <2>1, <2>3, <2>4 DEF Row, r
<1> QED
  BY <1>3, <1>4 DEF Offer

Frames(first, n) == [i \in 1..n |-> first + i - 1]

Extended(q, first, n) == q \o Frames(first, n)

\* The frames of new windows go behind the row, as many as fit.
LEMMA RowExtend ==
  ASSUME NEW lo \in Nat, NEW hi \in Nat, NEW q, Row(q, lo, hi), lo <= hi,
         NEW m \in Nat, NEW top \in Nat, hi + m <= top
  PROVE  /\ Row(Extended(q, hi, m), lo, top)
         /\ Len(Extended(q, hi, m)) = Len(q) + m
<1> DEFINE e == Frames(hi, m)
           r == Extended(q, hi, m)
<1>1. q \in Seq(Nat) /\ Len(q) \in Nat
  BY DEF Row
<1>2. e \in Seq(Nat) /\ Len(e) = m /\ \A i \in 1..m : e[i] = hi + i - 1
  BY DEF Frames
<1>0. r = q \o e
  BY DEF Extended
<1> HIDE DEF e, r
<1>3. /\ r \in Seq(Nat) /\ Len(r) = Len(q) + m
      /\ \A i \in 1..(Len(q) + m) : r[i] = IF i <= Len(q) THEN q[i] ELSE e[i - Len(q)]
  <2>1. /\ q \o e \in Seq(Nat) /\ Len(q \o e) = Len(q) + Len(e)
        /\ \A i \in 1..(Len(q) + Len(e)) : (q \o e)[i] = IF i <= Len(q) THEN q[i] ELSE e[i - Len(q)]
    BY <1>1, <1>2, ConcatProperties
  <2> QED
    BY <1>0, <1>2, <2>1
<1>4. \A i \in 1..Len(r) : \/ i \in 1..Len(q) /\ r[i] = q[i]
                           \/ i > Len(q) /\ r[i] = hi + (i - Len(q)) - 1 /\ i - Len(q) \in 1..m
  BY <1>1, <1>2, <1>3
<1>5. \A i \in 1..Len(q) : q[i] \in Nat /\ lo <= q[i] /\ q[i] < hi
  BY <1>1 DEF Row
<1>6. \A i \in 1..Len(r) : lo <= r[i] /\ r[i] < top
  BY <1>1, <1>4, <1>5
<1>7. \A i, j \in 1..Len(r) : i < j => r[i] < r[j]
  <2> SUFFICES ASSUME NEW i \in 1..Len(r), NEW j \in 1..Len(r), i < j PROVE r[i] < r[j]
    OBVIOUS
  <2>1. CASE j \in 1..Len(q) /\ r[j] = q[j]
    <3>1. i \in 1..Len(q) /\ r[i] = q[i]
      BY <1>1, <1>4, <2>1
    <3> QED
      BY <2>1, <3>1 DEF Row
  <2>2. CASE j > Len(q) /\ r[j] = hi + (j - Len(q)) - 1
    <3>1. CASE i \in 1..Len(q) /\ r[i] = q[i]
      <4>1. r[i] < hi /\ r[i] \in Nat
        BY <1>5, <3>1
      <4>2. j - Len(q) \in Nat /\ j - Len(q) >= 1
        BY <1>1, <1>3, <2>2
      <4> QED
        BY <2>2, <4>1, <4>2
    <3>2. CASE i > Len(q) /\ r[i] = hi + (i - Len(q)) - 1
      BY <1>1, <1>3, <2>2, <3>2
    <3> QED
      BY <1>4, <3>1, <3>2
  <2> QED
    BY <1>4, <2>1, <2>2
<1> QED
  BY <1>3, <1>6, <1>7 DEF Row, r

\* The difference of two wrapped numbers, wrapped.
LEMMA SeqGap ==
  ASSUME NEW m \in Nat \ {0}, NEW x \in Nat, NEW d \in Nat, d < m
  PROVE  (((x + 1 + d) % m) - (((x % m) + 1) % m)) % m = d
<1> DEFINE y  == x + 1 + d
           r1 == x % m
           k1 == x \div m
           z  == r1 + 1
           r2 == z % m
           k2 == z \div m
           r3 == y % m
           k3 == y \div m
<1>1. k1 \in Int /\ r1 \in Int /\ x = m * k1 + r1
  BY Division
<1> HIDE DEF r1, k1
<1>2. k2 \in Int /\ r2 \in 0..(m - 1) /\ z = m * k2 + r2
  <2>1. z \in Int
    BY <1>1
  <2> HIDE DEF z
  <2> QED
    BY <2>1, Division
<1>3. k3 \in Int /\ r3 \in 0..(m - 1) /\ y = m * k3 + r3
  <2>1. y \in Int
    OBVIOUS
  <2> HIDE DEF y
  <2> QED
    BY <2>1, Division
<1> HIDE DEF r2, k2, r3, k3
<1>4. r3 - r2 = d + m * (k1 + k2 - k3)
  BY <1>1, <1>2, <1>3
<1> DEFINE k == k1 + k2 - k3
<1>5. k \in Int /\ r3 - r2 = d + m * k
  BY <1>1, <1>2, <1>3, <1>4
<1> HIDE DEF k
<1>6. r3 - r2 \in -(m - 1)..(m - 1)
  BY <1>2, <1>3
<1>7. k = 0 \/ k = -1
  <2>1. k >= 1 => m * k >= m
    BY <1>5
  <2>2. k <= -2 => m * k <= -2 * m
    BY <1>5
  <2>3. m * k \in Int
    BY <1>5
  <2> HIDE DEF r2, r3
  <2> QED
    BY <1>5, <1>6, <2>1, <2>2, <2>3
<1>8. r3 - r2 = d \/ r3 - r2 = d - m
  BY <1>5, <1>7
<1>9. d % m = d /\ (d - m) % m = d
  OBVIOUS
<1> QED
  BY <1>8, <1>9 DEF r3, r2, z, y, r1

LEMMA InitWay == Init => WayInv /\ TrackInv
<1> SUFFICES ASSUME Init PROVE WayInv /\ TrackInv
  OBVIOUS
<1>1. /\ sent = 0 /\ pace = <<>> /\ out = <<>> /\ relay = <<>> /\ inbox = <<>> /\ heard = {}
      /\ track = [has |-> FALSE, next |-> 0, lost |-> 0, reorders |-> 0]
      /\ MaxFrames \in Nat /\ PaceDepth \in Nat /\ Len(pace) = 0
  BY PathAssumption DEF Init
<1>2. WayInv
  <2>1. 0 \in 0..sent /\ heard \subseteq 0..(0 - 1)
    BY <1>1
  <2>2. /\ Row(inbox, 0, 0) /\ Row(relay, 0, 0) /\ Row(out, 0, 0) /\ Row(pace, 0, sent)
    BY <1>1, EmptyRow
  <2> QED
    BY <1>1, <2>1, <2>2 DEF WayInv
<1>3. TrackInv
  BY <1>1 DEF TrackInv
<1> QED
  BY <1>2, <1>3

\* Frames go from hop to hop, or are dropped on the way: none is overtaken.
LEMMA HopWay ==
  ASSUME WayInv, Pace \/ Write \/ Reconnect \/ Deliver
  PROVE  WayInv'
<1>1. PICK a, b, c, d \in 0..sent :
        /\ a <= b /\ b <= c /\ c <= d
        /\ heard \subseteq 0..(a - 1)
        /\ Row(inbox, a, b) /\ Row(relay, b, c) /\ Row(out, c, d) /\ Row(pace, d, sent)
  BY DEF WayInv
<1>2. /\ sent \in Nat /\ a \in Nat /\ b \in Nat /\ c \in Nat /\ d \in Nat
      /\ a <= sent /\ b <= sent /\ c <= sent /\ d <= sent
      /\ sent \in 0..MaxFrames /\ MaxFrames \in Nat /\ PaceDepth \in Nat /\ Len(pace) <= PaceDepth
      /\ pace \in Seq(Nat)
  BY <1>1, PathAssumption DEF WayInv, Row
<1>3. UNCHANGED <<heard, sent>>
  BY DEF Pace, Write, Reconnect, Deliver, sendVars, recvVars
<1>4. CASE Pace
  <2> DEFINE h == Head(pace)
  <2>1. /\ pace # <<>> /\ pace' = Tail(pace) /\ out' = Offer(out, h, OutDepth)
        /\ UNCHANGED <<inbox, relay>>
    BY <1>4 DEF Pace
  <2>2. /\ Row(pace', h + 1, sent) /\ h \in Nat /\ d <= h /\ h < sent
        /\ Len(pace') <= PaceDepth
    <3>1. /\ Row(Tail(pace), h + 1, sent) /\ h \in Nat /\ d <= h /\ h < sent
          /\ Len(Tail(pace)) = Len(pace) - 1
      BY <1>1, <1>2, <2>1, RowTail
    <3> QED
      BY <1>2, <2>1, <3>1
  <2> HIDE DEF h
  <2>3. Row(out', c, h + 1)
    BY <1>1, <1>2, <2>1, <2>2, RowOffer
  <2>4. h + 1 \in 0..sent /\ c <= h + 1
    BY <1>1, <1>2, <2>2
  <2> QED
    BY <1>1, <1>2, <1>3, <2>1, <2>2, <2>3, <2>4 DEF WayInv
<1>5. CASE Write
  <2> DEFINE h == Head(out)
  <2>1. /\ out # <<>> /\ out' = Tail(out) /\ relay' \in {relay, Offer(relay, h, RelayDepth)}
        /\ UNCHANGED <<inbox, pace>>
    BY <1>5 DEF Write
  <2>2. Row(out', h + 1, d) /\ h \in Nat /\ c <= h /\ h < d
    BY <1>1, <1>2, <2>1, RowTail
  <2> HIDE DEF h
  <2>3. Row(relay', b, h + 1)
    BY <1>1, <1>2, <2>1, <2>2, RowOffer
  <2>4. h + 1 \in 0..sent /\ b <= h + 1 /\ h + 1 <= d
    BY <1>1, <1>2, <2>2
  <2> QED
    BY <1>1, <1>2, <1>3, <2>1, <2>2, <2>3, <2>4 DEF WayInv
<1>6. CASE Reconnect
  <2>1. out' = <<>> /\ UNCHANGED <<inbox, relay, pace>>
    BY <1>6 DEF Reconnect
  <2>2. Row(out', c, d)
    BY <2>1, EmptyRow
  <2> QED
    BY <1>1, <1>2, <1>3, <2>1, <2>2 DEF WayInv
<1>7. CASE Deliver
  <2> DEFINE h == Head(relay)
  <2>1. /\ relay # <<>> /\ relay' = Tail(relay) /\ inbox' = Offer(inbox, h, InDepth)
        /\ UNCHANGED <<out, pace>>
    BY <1>7 DEF Deliver
  <2>2. Row(relay', h + 1, c) /\ h \in Nat /\ b <= h /\ h < c
    BY <1>1, <1>2, <2>1, RowTail
  <2> HIDE DEF h
  <2>3. Row(inbox', a, h + 1)
    BY <1>1, <1>2, <2>1, <2>2, RowOffer
  <2>4. h + 1 \in 0..sent /\ a <= h + 1 /\ h + 1 <= c
    BY <1>1, <1>2, <2>2
  <2> QED
    BY <1>1, <1>2, <1>3, <2>1, <2>2, <2>3, <2>4 DEF WayInv
<1> QED
  BY <1>4, <1>5, <1>6, <1>7

LEMMA HandleWay ==
  ASSUME WayInv, NEW n \in 0..MaxWindows, Handle(n)
  PROVE  WayInv'
<1>1. PICK a, b, c, d \in 0..sent :
        /\ a <= b /\ b <= c /\ c <= d
        /\ heard \subseteq 0..(a - 1)
        /\ Row(inbox, a, b) /\ Row(relay, b, c) /\ Row(out, c, d) /\ Row(pace, d, sent)
  BY DEF WayInv
<1>2. /\ sent \in Nat /\ d \in Nat /\ d <= sent /\ n \in Nat
      /\ sent \in 0..MaxFrames /\ MaxFrames \in Nat /\ PaceDepth \in Nat /\ Len(pace) <= PaceDepth
      /\ pace \in Seq(Nat) /\ Len(pace) \in Nat
  BY <1>1, PathAssumption DEF WayInv, Row
<1>3. UNCHANGED <<heard, inbox, relay, out>>
  BY DEF Handle, recvVars
<1>4. /\ sent' \in sent..MaxFrames /\ Row(pace', d, sent') /\ Len(pace') <= PaceDepth
  <2>1. CASE UNCHANGED <<sent, pace>>
    BY <1>1, <1>2, <2>1
  <2>2. CASE Emit(n)
    <3>1. PICK m \in Nat : /\ sent + n <= MaxFrames /\ sent' = sent + n
                           /\ pace' = Extended(pace, sent, m)
                           /\ m <= n /\ Len(pace) + m <= PaceDepth
      <4> DEFINE space == PaceDepth - Len(pace)
                 fit == IF n <= space THEN n ELSE space
      <4>1. /\ sent + n <= MaxFrames /\ sent' = sent + n
            /\ pace' = Extended(pace, sent, fit)
        BY <2>2 DEF Emit, Frames, Extended
      <4>2. fit \in Nat /\ fit <= n /\ Len(pace) + fit <= PaceDepth
        BY <1>2
      <4> HIDE DEF fit
      <4> QED
        BY <4>1, <4>2
    <3>2. Row(pace, d, sent)
      BY <1>1
    <3>3. Row(pace', d, sent') /\ Len(pace') = Len(pace) + m
      <4>1. sent' \in Nat /\ sent + m <= sent'
        BY <1>2, <3>1
      <4>2. /\ Row(Extended(pace, sent, m), d, sent')
            /\ Len(Extended(pace, sent, m)) = Len(pace) + m
        <5>1. /\ d \in Nat /\ sent \in Nat /\ m \in Nat /\ sent' \in Nat
              /\ Row(pace, d, sent) /\ d <= sent /\ sent + m <= sent'
          BY <1>2, <3>2, <4>1
        <5>2. \A lo, hi, k, top \in Nat : \A q :
                 Row(q, lo, hi) /\ lo <= hi /\ hi + k <= top
                    => /\ Row(Extended(q, hi, k), lo, top)
                       /\ Len(Extended(q, hi, k)) = Len(q) + k
          BY RowExtend
        <5> QED
          BY <5>1, <5>2
      <4> QED
        BY <3>1, <4>2
    <3> QED
      BY <1>2, <3>1, <3>3
  <2> QED
    BY <2>1, <2>2 DEF Handle
<1>5. sent' \in 0..MaxFrames /\ \A x \in 0..sent : x \in 0..sent'
  BY <1>2, <1>4
<1> QED
  BY <1>1, <1>3, <1>4, <1>5 DEF WayInv

LEMMA ReceiveWay ==
  ASSUME WayInv, TrackInv, Receive
  PROVE  WayInv' /\ TrackInv'
<1>1. PICK a, b, c, d \in 0..sent :
        /\ a <= b /\ b <= c /\ c <= d
        /\ heard \subseteq 0..(a - 1)
        /\ Row(inbox, a, b) /\ Row(relay, b, c) /\ Row(out, c, d) /\ Row(pace, d, sent)
  BY DEF WayInv
<1> DEFINE s == Head(inbox)
           M == SeqModulus
           n == (FirstSeq + s) % M
<1>2. /\ sent \in Nat /\ a \in Nat /\ b \in Nat /\ c \in Nat /\ d \in Nat
      /\ a <= sent /\ b <= sent /\ c <= sent /\ d <= sent
      /\ sent \in 0..MaxFrames /\ MaxFrames \in Nat /\ M \in Nat /\ FirstSeq \in Nat
      /\ MaxFrames <= M \div 2
  BY <1>1, PathAssumption DEF WayInv
<1>3. /\ inbox # <<>> /\ inbox' = Tail(inbox)
      /\ track' = Record(track, n) /\ heard' = heard \cup {s}
      /\ UNCHANGED <<sent, pace, out, relay>>
  BY DEF Receive, sendVars
<1>4. Row(inbox', s + 1, b) /\ s \in Nat /\ a <= s /\ s < b
  BY <1>1, <1>2, <1>3, RowTail
<1> HIDE DEF s
<1>5. WayInv'
  <2>1. s + 1 \in 0..sent /\ s + 1 <= b /\ heard' \subseteq 0..((s + 1) - 1)
    BY <1>1, <1>2, <1>3, <1>4
  <2>2. Len(pace') <= PaceDepth /\ sent' \in 0..MaxFrames
    BY <1>3 DEF WayInv
  <2> QED
    BY <1>1, <1>2, <1>3, <1>4, <2>1, <2>2 DEF WayInv
<1>6. \A g \in heard : g \in Nat /\ g < s
  BY <1>1, <1>2, <1>4
<1>7. M \in Nat \ {0} /\ n \in Int /\ (n + 1) % M \in Int /\ s < M \div 2 /\ M \div 2 \in Nat /\ M \div 2 <= M
  <2>1. M \in Nat \ {0} /\ s < M \div 2 /\ M \div 2 \in Nat /\ M \div 2 <= M
    BY <1>2, <1>4
  <2>2. n \in Int
    <3>1. FirstSeq + s \in Int
      BY <1>2, <1>4
    <3> QED
      BY <2>1, <3>1, Division
  <2>3. (n + 1) % M \in Int
    <3>1. n + 1 \in Int
      BY <2>2
    <3> HIDE DEF n
    <3> QED
      BY <2>1, <3>1, Division
  <2> QED
    BY <2>1, <2>2, <2>3
<1> DEFINE m == (n + 1) % M
<1>8. m \in Int /\ m = (((FirstSeq + s) % SeqModulus) + 1) % SeqModulus
  BY <1>7
<1> HIDE DEF m
<1>9. CASE heard = {}
  <2>1. ~track.has /\ track.lost = 0
    BY <1>9 DEF TrackInv
  <2>2. track' = [track EXCEPT !.has = TRUE, !.next = m]
    BY <1>3, <2>1 DEF Record, m
  <2>3. track' \in [has : BOOLEAN, next : Int, lost : Nat, reorders : {0}]
        /\ track'.has /\ track'.next = m /\ track'.lost = 0
    BY <1>8, <2>1, <2>2 DEF TrackInv
  <2>4. heard' = {s} /\ Cardinality((s..s) \ heard') = 0
    <3>1. heard' = {s} /\ (s..s) \ {s} = {}
      BY <1>3, <1>4, <1>9
    <3> QED
      BY <3>1, FS_EmptySet
  <2>5. \A g \in heard' : s <= g /\ g <= s
    BY <1>4, <2>4
  <2> QED
    BY <1>5, <1>8, <2>3, <2>4, <2>5 DEF TrackInv
<1>10. CASE heard # {}
  <2>1. PICK f, l \in heard :
          /\ \A g \in heard : f <= g /\ g <= l
          /\ track.has /\ track.next = (((FirstSeq + l) % SeqModulus) + 1) % SeqModulus
          /\ track.lost = Cardinality((f..l) \ heard)
    BY <1>10 DEF TrackInv
  <2>2. f \in Nat /\ l \in Nat /\ f <= l /\ l < s
    BY <1>6, <2>1
  <2> DEFINE e == s - l - 1
  <2>3. e \in Nat /\ e < M \div 2 /\ e < M
    BY <1>4, <1>7, <2>2
  <2>4. (n - track.next) % M = e
    <3>1. FirstSeq + l \in Nat /\ (FirstSeq + l) + 1 + e = FirstSeq + s
      BY <1>2, <1>4, <2>2
    <3> HIDE DEF e
    <3> QED
      BY <1>7, <2>1, <2>3, <3>1, SeqGap
  <2>5. ~SeqLess(n, track.next)
    BY <1>7, <2>3, <2>4 DEF SeqLess
  <2>6. track' = [track EXCEPT !.next = m, !.lost = track.lost + e]
    BY <1>3, <2>1, <2>4, <2>5 DEF Record, TrackInv, m
  <2>7. track' \in [has : BOOLEAN, next : Int, lost : Nat, reorders : {0}]
        /\ track'.has /\ track'.next = m /\ track'.lost = track.lost + e
    <3>1. \A x \in Int, y \in Nat :
            LET t == [track EXCEPT !.next = x, !.lost = y]
            IN  /\ t \in [has : BOOLEAN, next : Int, lost : Nat, reorders : {0}]
                /\ t.has = track.has /\ t.next = x /\ t.lost = y
      BY DEF TrackInv
    <3>2. track.lost + e \in Nat
      BY <2>3 DEF TrackInv
    <3> QED
      BY <1>8, <2>1, <2>6, <3>1, <3>2
  <2> DEFINE A == (f..l) \ heard
             B == (l + 1)..(s - 1)
  <2>8. (f..s) \ heard' = A \cup B /\ A \cap B = {}
    BY <1>3, <1>4, <1>6, <2>1, <2>2
  <2>9. /\ IsFiniteSet(A) /\ IsFiniteSet(B) /\ Cardinality(B) = e
    <3>1. IsFiniteSet(f..l) /\ A \subseteq f..l
      BY <2>2, FS_Interval
    <3>2. IsFiniteSet(A)
      BY <3>1, FS_Subset
    <3>3. l + 1 \in Int /\ s - 1 \in Int /\ (s - 1) - (l + 1) + 1 = e /\ (l + 1 > s - 1 => e = 0)
      BY <1>4, <2>2
    <3>4. IsFiniteSet(B) /\ Cardinality(B) = IF l + 1 > s - 1 THEN 0 ELSE (s - 1) - (l + 1) + 1
      BY <3>3, FS_Interval
    <3> QED
      BY <3>2, <3>3, <3>4
  <2> HIDE DEF e
  <2>10. Cardinality((f..s) \ heard') = track'.lost
    <3> HIDE DEF A, B
    <3>1. Cardinality(A \cup B) = Cardinality(A) + Cardinality(B)
      <4>1. Cardinality(A \cup B) = Cardinality(A) + Cardinality(B) - Cardinality(A \cap B)
        BY <2>9, FS_Union
      <4>2. Cardinality(A \cap B) = 0 /\ Cardinality(A) \in Nat /\ Cardinality(B) \in Nat
        BY <2>8, <2>9, FS_EmptySet, FS_CardinalityType
      <4> QED
        BY <4>1, <4>2
    <3> QED
      BY <2>1, <2>7, <2>8, <2>9, <3>1 DEF A
  <2>11. f \in heard' /\ s \in heard' /\ \A g \in heard' : f <= g /\ g <= s
    BY <1>3, <1>4, <1>6, <2>1, <2>2
  <2> QED
    BY <1>5, <1>8, <2>7, <2>10, <2>11 DEF TrackInv
<1> QED
  BY <1>9, <1>10

LEMMA NextWay == WayInv /\ TrackInv /\ [Next]_vars => WayInv' /\ TrackInv'
<1> SUFFICES ASSUME WayInv, TrackInv, [Next]_vars PROVE WayInv' /\ TrackInv'
  OBVIOUS
<1>1. CASE Receive
  BY <1>1, ReceiveWay
<1>2. CASE ~Receive
  <2>1. UNCHANGED <<track, heard>>
    BY <1>2 DEF Next, LanLoss, Arrive, Ring, Handle, Pace, Write, Reconnect, Deliver, vars,
       pathVars, recvVars
  <2>2. TrackInv'
    BY <2>1 DEF TrackInv
  <2>3. CASE Pace \/ Write \/ Reconnect \/ Deliver
    BY <2>2, <2>3, HopWay
  <2>4. ASSUME NEW n \in 0..MaxWindows, Handle(n) PROVE WayInv' /\ TrackInv'
    BY <2>2, <2>4, HandleWay
  <2>5. CASE LanLoss \/ (\E mapped \in BOOLEAN : Arrive(mapped)) \/ Ring \/ UNCHANGED vars
    <3>1. UNCHANGED <<sent, pace, out, relay, inbox>>
      BY <2>5 DEF LanLoss, Arrive, Ring, vars, pathVars, sendVars, wireVars
    <3> QED
      BY <2>1, <2>2, <3>1 DEF WayInv
  <2> QED
    BY <1>2, <2>3, <2>4, <2>5 DEF Next
<1> QED
  BY <1>1, <1>2

\* The receiver's packet loss is the frames it has missed between the first and
\* the last it heard, whichever hop dropped them, across the wrap of the sequence
\* numbers, and nothing reads as reordered (recordFrame of audio_stats).
THEOREM LossCountsAreExact == Spec => []LossIsExact
<1>1. ASSUME TrackInv, WayInv PROVE LossIsExact
  <2> SUFFICES ASSUME heard # {}
               PROVE  LET first == CHOOSE f \in heard : \A g \in heard : f <= g
                          last  == CHOOSE f \in heard : \A g \in heard : f >= g
                      IN  /\ track.lost = Cardinality((first..last) \ heard)
                          /\ track.reorders = 0
    BY DEF LossIsExact
  <2>1. PICK f, l \in heard :
          /\ \A g \in heard : f <= g /\ g <= l
          /\ track.lost = Cardinality((f..l) \ heard)
    BY <1>1 DEF TrackInv
  <2>2. heard \subseteq Nat
    BY <1>1 DEF WayInv
  <2>3. (CHOOSE x \in heard : \A g \in heard : x <= g) = f
    <3>1. \A x \in heard : (\A g \in heard : x <= g) <=> x = f
      BY <2>1, <2>2
    <3> QED
      BY <3>1
  <2>4. (CHOOSE x \in heard : \A g \in heard : x >= g) = l
    <3>1. \A x \in heard : (\A g \in heard : x >= g) <=> x = l
      BY <2>1, <2>2
    <3> QED
      BY <3>1
  <2>5. track.reorders = 0
    BY <1>1 DEF TrackInv
  <2> QED
    BY <2>1, <2>3, <2>4, <2>5
<1> QED
  BY <1>1, InitWay, NextWay, PTL DEF Spec
=============================================================================
