---------------------------- MODULE CaptureRing ----------------------------
(***************************************************************************)
(* The single-producer single-consumer ring between Link's audio thread    *)
(* and the goroutine that drains a captured channel                        *)
(* (wail-app/internal/abllink/capture.c, source.go).                       *)
(*                                                                         *)
(* The producer is the source callback: it may neither wait nor allocate.  *)
(* It loads both indices, and either drops the buffer or fills the slot    *)
(* and publishes it by advancing `write'.  The consumer is Pop: it loads   *)
(* both indices, copies the slot out and gives it back by advancing        *)
(* `read'.  Filling and copying are not atomic; a slot's info and its      *)
(* samples are written, and read, one after the other.  The acquire and    *)
(* release orders of the atomics make the interleavings below all there    *)
(* are.  The counters are unsigned and wrap.                               *)
(***************************************************************************)
EXTENDS Integers

CONSTANTS
  NumSlots, \* ringSlots
  Modulus,  \* 2^w, for a size_t of w bits
  Buffer,   \* what the callback is handed
  Nothing   \* a slot never filled, no buffer popped yet

ASSUME RingAssumption ==
  /\ NumSlots \in Nat \ {0}
  /\ Modulus \in Nat
  /\ NumSlots < Modulus
  /\ \E k \in 0..Modulus : Modulus = k * NumSlots
  /\ Nothing \notin Buffer

VARIABLES
  write, read, \* the two atomics
  slots,       \* infos and nsamples, samples: one entry each per slot
  dropped,     \* the third atomic
  prod,        \* the callback: [pc, buf, read]; read is what it loaded
  cons,        \* Pop: [pc, write, info, samples]; write is what it loaded
  got          \* what Pop last returned

ringVars == <<write, read, slots, dropped, prod, cons, got>>

Index == 0..(Modulus - 1)
Part  == Buffer \cup {Nothing}
Slot  == [info : Part, samples : Part]

Distance(w, r) == (w - r) % Modulus

\* Every variable keeps its type.
RingTypeOK ==
  /\ write \in Index /\ read \in Index
  /\ slots \in [0..(NumSlots - 1) -> Slot]
  /\ dropped \in Nat
  /\ prod \in [pc : {"idle", "loaded", "filling", "filled"}, buf : Part, read : Index]
  /\ cons \in [pc : {"idle", "loaded", "copying", "copied", "popped"},
               write : Index, info : Part, samples : Part]
  /\ got \in Slot

RingInit ==
  /\ write = 0 /\ read = 0 /\ dropped = 0
  /\ slots = [i \in 0..(NumSlots - 1) |-> [info |-> Nothing, samples |-> Nothing]]
  /\ prod = [pc |-> "idle", buf |-> Nothing, read |-> 0]
  /\ cons = [pc |-> "idle", write |-> 0, info |-> Nothing, samples |-> Nothing]
  /\ got = [info |-> Nothing, samples |-> Nothing]

-----------------------------------------------------------------------------
(* wail_capture_source_callback *)

\* Mutant: the index that Pop advances is not loaded again.
CallbackCached(b) ==
  /\ prod.pc = "idle"
  /\ prod' = [prod EXCEPT !.pc = "loaded", !.buf = b]
  /\ UNCHANGED <<write, read, slots, dropped, cons, got>>

Callback(b) ==
  /\ prod.pc = "idle"
  /\ prod' = [pc |-> "loaded", buf |-> b, read |-> read]
  /\ UNCHANGED <<write, read, slots, dropped, cons, got>>

\* Mutant: one slot more than there are.
FullBeyond(w, r) == Distance(w, r) > NumSlots

Full(w, r) == Distance(w, r) >= NumSlots

\* The drainer fell behind.
DropBuffer ==
  /\ prod.pc = "loaded" /\ Full(write, prod.read)
  /\ dropped' = dropped + 1
  /\ prod' = [prod EXCEPT !.pc = "idle"]
  /\ UNCHANGED <<write, read, slots, cons, got>>

FillInfo ==
  /\ prod.pc = "loaded" /\ ~Full(write, prod.read)
  /\ slots' = [slots EXCEPT ![write % NumSlots].info = prod.buf]
  /\ prod' = [prod EXCEPT !.pc = "filling"]
  /\ UNCHANGED <<write, read, dropped, cons, got>>

FillSamples ==
  /\ prod.pc = "filling"
  /\ slots' = [slots EXCEPT ![write % NumSlots].samples = prod.buf]
  /\ prod' = [prod EXCEPT !.pc = "filled"]
  /\ UNCHANGED <<write, read, dropped, cons, got>>

Publish ==
  /\ prod.pc = "filled"
  /\ write' = (write + 1) % Modulus
  /\ prod' = [prod EXCEPT !.pc = "idle"]
  /\ UNCHANGED <<read, slots, dropped, cons, got>>

-----------------------------------------------------------------------------
(* wail_capture_ring_pop *)

Pop ==
  /\ cons.pc = "idle"
  /\ cons' = [cons EXCEPT !.pc = "loaded", !.write = write]
  /\ UNCHANGED <<write, read, slots, dropped, prod, got>>

Empty ==
  /\ cons.pc = "loaded" /\ read = cons.write
  /\ cons' = [cons EXCEPT !.pc = "idle"]
  /\ UNCHANGED <<write, read, slots, dropped, prod, got>>

CopyInfo ==
  /\ cons.pc = "loaded" /\ read # cons.write
  /\ cons' = [cons EXCEPT !.pc = "copying", !.info = slots[read % NumSlots].info]
  /\ UNCHANGED <<write, read, slots, dropped, prod, got>>

CopySamples ==
  /\ cons.pc = "copying"
  /\ cons' = [cons EXCEPT !.pc = "copied", !.samples = slots[read % NumSlots].samples]
  /\ UNCHANGED <<write, read, slots, dropped, prod, got>>

Release ==
  /\ cons.pc = "copied"
  /\ read' = (read + 1) % Modulus
  /\ got' = [info |-> cons.info, samples |-> cons.samples]
  /\ cons' = [cons EXCEPT !.pc = "popped"]
  /\ UNCHANGED <<write, slots, dropped, prod>>

\* The drain loop is done with the buffer, and pops again.
Return ==
  /\ cons.pc = "popped"
  /\ cons' = [cons EXCEPT !.pc = "idle"]
  /\ UNCHANGED <<write, read, slots, dropped, prod, got>>

-----------------------------------------------------------------------------

Produce == DropBuffer \/ FillInfo \/ FillSamples \/ Publish
Consume == Pop \/ Empty \/ CopyInfo \/ CopySamples \/ Release

RingNext == (\E b \in Buffer : Callback(b)) \/ Produce \/ Consume \/ Return

RingSpec == RingInit /\ [][RingNext]_ringVars

-----------------------------------------------------------------------------
(* Properties *)

\* The callback never fills the slot Pop copies, whatever the counters wrapped to.
SlotNotShared ==
  prod.pc \in {"filling", "filled"} /\ cons.pc \in {"copying", "copied"}
    => write % NumSlots # read % NumSlots

\* The ring, read from the oldest buffer on.  A buffer is in it once published,
\* and out of it once released.
Contents == [i \in 1..Distance(write, read) |-> slots[((read + i - 1) % Modulus) % NumSlots]]

\* A buffer that is lost is lost when the callback loaded the indices, since Pop
\* may make room before it is counted.
Lost == IF prod.pc = "loaded" /\ Full(write, prod.read) THEN dropped + 1 ELSE dropped

Queue == INSTANCE LossyQueue WITH
  Item     <- {[info |-> b, samples |-> b] : b \in Buffer},
  Capacity <- NumSlots,
  Nothing  <- [info |-> Nothing, samples |-> Nothing],
  queue    <- Contents,
  dropped  <- Lost,
  taken    <- got

\* The ring is a bounded queue that loses only what finds it full.
RingIsQueue == Queue!Spec
=============================================================================
