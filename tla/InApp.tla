------------------------------- MODULE InApp -------------------------------
(***************************************************************************)
(* The in-app senders of a session: the test tone, the WAV file and the    *)
(* metronome broadcast (test_tone.go, wav_sender.go, metronome_sender.go). *)
(* Each is a goroutine with a channel of its own for interval boundaries;  *)
(* the session loop starts and cancels it by command, tells it every new   *)
(* local interval, and forwards the frames it pushes into localWaifCh.     *)
(*                                                                         *)
(* A frame is its task, round, number and IsFinal mark; its audio is left  *)
(* out.  The 20 ms cadence is left out too: a frame that is not yet due is *)
(* a step of the task that sends nothing.                                  *)
(***************************************************************************)
EXTENDS Integers, Sequences, FiniteSets

CONSTANTS
  Bpis,        \* beats an interval may have
  FramesIn,    \* frames of 20 ms in an interval of so many beats
  BoundaryCap, \* capacity of a boundary channel, 4 in the code
  WaifCap,     \* capacity of localWaifCh, 64 in the code
  MaxBeat,     \* bound: the Link beats of a behaviour
  MaxTasks     \* bound: how often a sender is started

ASSUME InAppAssumption ==
  /\ Bpis \subseteq Nat \ {0} /\ Bpis # {}
  /\ FramesIn \in [Bpis -> Nat \ {0}]
  /\ BoundaryCap \in Nat \ {0} /\ WaifCap \in Nat \ {0}
  /\ MaxBeat \in Nat /\ MaxTasks \in Nat

Kinds   == {"tone", "wav", "metronome"}
Tasks   == 1 .. MaxTasks
NoTask  == 0
NoIndex == -1

VARIABLES
  beat, bpi,   \* the local Link beat and intervalCfg
  last,        \* lastIntervalIndex
  sender,      \* the task each command started last: its cancel function and channel
  task,        \* the goroutines
  inbox,       \* their boundary channels
  waif,        \* localWaifCh
  heard,       \* of each task, the newest round the session forwarded frames of
  lost         \* of each task, rounds that lost a frame to a full localWaifCh or the encoder

boundaryVars == <<beat, bpi, last, sender>>
senderVars == <<boundaryVars, task, inbox, waif, heard, lost>>

Boundary == [index: Nat, total: {FramesIn[b] : b \in Bpis}]
Frames   == [task: Tasks, index: Nat, num: Nat, final: BOOLEAN]

\* A goroutine's locals before its first boundary.
NewTask(k) == [kind |-> k, at |-> "begin", cancelled |-> FALSE,
               index |-> NoIndex, next |-> 0, total |-> 0]
Unused  == [NewTask("tone") EXCEPT !.at = "unused"]
Silence == [index |-> NoIndex, nums |-> <<>>, final |-> FALSE]

SendersInit ==
  /\ beat = 0 /\ bpi \in Bpis /\ last = NoIndex
  /\ sender = [k \in Kinds |-> NoTask]
  /\ task = [t \in Tasks |-> Unused]
  /\ inbox = [t \in Tasks |-> <<>>]
  /\ waif = <<>>
  /\ heard = [t \in Tasks |-> Silence]
  /\ lost = [t \in Tasks |-> {}]

----------------------------------------------------------------------------
(* The session loop *)

IndexAtBeat(b) == b \div bpi
FramesPerInterval == FramesIn[bpi]

\* The head stays in inbox while a metronome flushes, and is out of the channel.
Waiting(t) == Len(inbox[t]) - (IF task[t].at = "flush" THEN 1 ELSE 0)

\* A boundary goes to every running sender; a full channel drops it.
Posted(b) ==
  [t \in Tasks |->
     IF (\E k \in Kinds : sender[k] = t) /\ Waiting(t) < BoundaryCap
     THEN Append(inbox[t], b) ELSE inbox[t]]

handleBoundary(i) ==
  IF i <= last THEN UNCHANGED <<last, inbox>>
  ELSE /\ last' = i
       /\ inbox' = Posted([index |-> i, total |-> FramesPerInterval])

\* A StateUpdate or TempoChanged of the Link poller carries the beat.
LinkEvent ==
  \E b \in {beat, beat + 1} :
    /\ b <= MaxBeat
    /\ beat' = b
    /\ handleBoundary(IndexAtBeat(b))
    /\ UNCHANGED <<bpi, sender, task, waif, heard, lost>>

\* SetInterval, or an IntervalConfig of a peer.
ChangeInterval ==
  \E b \in Bpis \ {bpi} :
    /\ bpi' = b
    /\ UNCHANGED <<beat, last, sender, task, inbox, waif, heard, lost>>

\* Mutant: a stop or a restart keeps the old goroutine.
CancelledNot(k) == task

Cancelled(k) ==
  [t \in Tasks |-> IF t = sender[k] THEN [task[t] EXCEPT !.cancelled = TRUE] ELSE task[t]]

\* A task id that was never started.
Fresh == {t \in Tasks : task[t] = Unused /\ \A u \in 1 .. (t - 1) : task[u] # Unused}

\* Every Set command stops what runs and starts a new goroutine if it is on.
SetSender(k, on) ==
  /\ IF on
     THEN \E t \in Fresh :
            /\ sender' = [sender EXCEPT ![k] = t]
            /\ task' = [Cancelled(k) EXCEPT ![t] = NewTask(k)]
     ELSE /\ sender[k] # NoTask
          /\ sender' = [sender EXCEPT ![k] = NoTask]
          /\ task' = Cancelled(k)
  /\ UNCHANGED <<beat, bpi, last, inbox, waif, heard, lost>>

SetTestTone           == \E on \in BOOLEAN : SetSender("tone", on)
SetWavSender          == \E on \in BOOLEAN : SetSender("wav", on)
SetMetronomeBroadcast == \E on \in BOOLEAN : SetSender("metronome", on)

\* What a peer of the room can tell of a task after one more frame.
Hearing(h, f) ==
  IF f.index = h.index
  THEN [h EXCEPT !.nums = Append(@, f.num), !.final = @ \/ f.final]
  ELSE [index |-> f.index, nums |-> <<f.num>>, final |-> f.final]

\* The session takes the oldest frame and broadcasts it.
Forward ==
  /\ waif # <<>>
  /\ waif' = Tail(waif)
  /\ LET f == Head(waif) IN heard' = [heard EXCEPT ![f.task] = Hearing(@, f)]
  /\ UNCHANGED <<boundaryVars, task, inbox, lost>>

----------------------------------------------------------------------------
(* The goroutines *)

\* IsFinal marks the last number of the round.
IsFinal(t, n) == n = task[t].total - 1

Frame(t, n) == [task |-> t, index |-> task[t].index, num |-> n, final |-> IsFinal(t, n)]

\* sendWaif drops what does not fit.
sendWaif(f) ==
  IF Len(waif) < WaifCap
  THEN waif' = Append(waif, f) /\ UNCHANGED lost
  ELSE lost' = [lost EXCEPT ![f.task] = @ \cup {f.index}] /\ UNCHANGED waif

SendsNothing == UNCHANGED <<waif, lost>>

\* A frame the encoder refuses is not sent.
Encodes(f) ==
  \/ sendWaif(f)
  \/ lost' = [lost EXCEPT ![f.task] = @ \cup {f.index}] /\ UNCHANGED waif

\* The task's locals after it takes a boundary.
Started(t, b) == [task[t] EXCEPT !.index = b.index, !.next = 0, !.total = b.total, !.at = "pace"]

\* A WAV that does not load, or an encoder that does not open, ends the task at once.
Begin(t) ==
  /\ task[t].at = "begin"
  /\ \E at \in {"select", "ended"} : task' = [task EXCEPT ![t].at = at]
  /\ UNCHANGED <<boundaryVars, inbox, waif, heard, lost>>

End(t) ==
  /\ task[t].at = "select" /\ task[t].cancelled
  /\ task' = [task EXCEPT ![t].at = "ended"]
  /\ UNCHANGED <<boundaryVars, inbox, waif, heard, lost>>

\* Mutant: an incomplete round is not closed.
IncompleteNever(t) == FALSE
Incomplete(t) == task[t].index >= 0 /\ 0 < task[t].next /\ task[t].next < task[t].total

\* Tone and WAV: the final frame of an incomplete round is forced out first.
TakeBoundary(t) ==
  /\ task[t].at = "select" /\ inbox[t] # <<>>
  /\ inbox' = [inbox EXCEPT ![t] = Tail(@)]
  /\ task' = [task EXCEPT ![t] = Started(t, Head(inbox[t]))]
  /\ IF Incomplete(t) THEN Encodes(Frame(t, task[t].total - 1)) ELSE SendsNothing
  /\ UNCHANGED <<boundaryVars, heard>>

\* The select's default branch: neither a boundary nor a cancel waits.
NoBoundary(t) ==
  /\ task[t].at = "select" /\ inbox[t] = <<>> /\ ~task[t].cancelled
  /\ task[t].next < task[t].total
  /\ task' = [task EXCEPT ![t].at = "pace"]
  /\ UNCHANGED <<boundaryVars, inbox, waif, heard, lost>>

\* The next frame, if it is due and the encoder takes it.
Pace(t) ==
  /\ task[t].at = "pace"
  /\ \/ task' = [task EXCEPT ![t].at = "select"] /\ SendsNothing
     \/ /\ task[t].next < task[t].total
        /\ sendWaif(Frame(t, task[t].next))
        /\ task' = [task EXCEPT ![t].at = "select", ![t].next = @ + 1]
  /\ UNCHANGED <<boundaryVars, inbox, heard>>

TestToneTask(t) ==
  task[t].kind = "tone" /\ (Begin(t) \/ End(t) \/ TakeBoundary(t) \/ NoBoundary(t) \/ Pace(t))

\* Structurally parallel to the test tone.
WavSenderTask(t) ==
  task[t].kind = "wav" /\ (Begin(t) \/ End(t) \/ TakeBoundary(t) \/ NoBoundary(t) \/ Pace(t))

Remaining(t) == task[t].next < task[t].total
SendNext(t)  == sendWaif(Frame(t, task[t].next))

\* The metronome takes a boundary, then flushes what its round has left.
MetronomeBoundary(t) ==
  /\ task[t].at = "select" /\ inbox[t] # <<>>
  /\ task' = [task EXCEPT ![t].at = "flush"]
  /\ UNCHANGED <<boundaryVars, inbox, waif, heard, lost>>

flushRemaining(t) ==
  /\ task[t].at = "flush" /\ Remaining(t)
  /\ SendNext(t)
  /\ task' = [task EXCEPT ![t].next = @ + 1]
  /\ UNCHANGED <<boundaryVars, inbox, heard>>

Flushed(t) == ~Remaining(t)

\* The whole round is rendered and encoded; an encoder error leaves no frames.
Render(t) ==
  /\ task[t].at = "flush" /\ Flushed(t)
  /\ inbox' = [inbox EXCEPT ![t] = Tail(@)]
  /\ \E ok \in BOOLEAN :
       task' = [task EXCEPT ![t] =
                  LET b == Head(inbox[t])
                  IN [Started(t, b) EXCEPT !.at = "select", !.total = IF ok THEN @ ELSE 0]]
  /\ UNCHANGED <<boundaryVars, waif, heard, lost>>

\* The ticker drips the frames that are due.
Drip(t) ==
  /\ task[t].at = "select" /\ Remaining(t)
  /\ SendNext(t)
  /\ task' = [task EXCEPT ![t].next = @ + 1]
  /\ UNCHANGED <<boundaryVars, inbox, heard>>

MetronomeSenderTask(t) ==
  /\ task[t].kind = "metronome"
  /\ Begin(t) \/ End(t) \/ MetronomeBoundary(t) \/ flushRemaining(t) \/ Render(t) \/ Drip(t)

TaskStep(t) == TestToneTask(t) \/ WavSenderTask(t) \/ MetronomeSenderTask(t)

SendersNext ==
  \/ LinkEvent \/ ChangeInterval
  \/ SetTestTone \/ SetWavSender \/ SetMetronomeBroadcast
  \/ Forward
  \/ \E t \in Tasks : TaskStep(t)

(***************************************************************************)
(* Goroutines are scheduled.  Once a task is cancelled its Done case stays *)
(* ready, and a select chooses among ready cases at random.                *)
(***************************************************************************)
SendersSpec ==
  /\ SendersInit /\ [][SendersNext]_senderVars
  /\ \A t \in Tasks : WF_senderVars(TaskStep(t)) /\ WF_senderVars(End(t))

----------------------------------------------------------------------------
(* Properties *)

\* Every variable has its type; a task that was never started has nothing.
SendersTypeOK ==
  /\ beat \in Nat /\ bpi \in Bpis /\ last \in Nat \cup {NoIndex}
  /\ sender \in [Kinds -> Tasks \cup {NoTask}]
  /\ task \in [Tasks ->
       [kind : Kinds, at : {"unused", "begin", "select", "pace", "flush", "ended"},
        cancelled : BOOLEAN, index : Nat \cup {NoIndex}, next : Nat, total : Nat]]
  /\ inbox \in [Tasks -> Seq(Boundary)]
  /\ waif \in Seq(Frames)
  /\ heard \in [Tasks -> [index : Nat \cup {NoIndex}, nums : Seq(Nat), final : BOOLEAN]]
  /\ lost \in [Tasks -> SUBSET Nat]
  /\ \A t \in Tasks : task[t].at = "unused" => task[t] = Unused /\ inbox[t] = <<>>

Grows(s) == \A i \in 1 .. Len(s) - 1 : s[i] < s[i + 1]

(***************************************************************************)
(* The room hears the rounds of a task one after another, each with its    *)
(* numbers in order and nothing after its final frame, which carries the   *)
(* round's frame count: a round is not left for the next one without it    *)
(* ("mirrors the test tone's force-send-final-frame guard"), and a closed  *)
(* metronome round has no gap, however late its frames were, since what    *)
(* the cadence has not sent is flushed; unless a full localWaifCh or the   *)
(* encoder took a frame of the round.                                      *)
(***************************************************************************)
RoundsAreClosed ==
  [][\A t \in Tasks :
       LET h == heard[t]  g == heard'[t]
       IN h # g =>
            /\ Grows(g.nums)
            /\ g.index = h.index => ~h.final
            /\ g.index # h.index =>
                 g.index > h.index /\ (h = Silence \/ h.final \/ h.index \in lost[t])
            /\ g.final /\ task[t].kind = "metronome" /\ g.index \notin lost[t]
               => g.nums = [i \in 1 .. Len(g.nums) |-> i - 1]]_senderVars

\* A sender that was switched off or started anew falls silent: the goroutine its command
\* let go of ends, also while boundaries wait for it, so no two stay on one stream.
StoppedTasksEnd ==
  \A t \in Tasks :
    (task[t].at # "unused" /\ \A k \in Kinds : sender[k] # t) ~> (task[t].at = "ended")

(***************************************************************************)
(* The comment of handleBoundary says what it does when "the given beat    *)
(* crossed into a new local interval".  After a change to longer intervals *)
(* the indices start below the last one and every crossing is passed over  *)
(* until they reach it: this does not hold (in_app_freeze.cfg).            *)
(***************************************************************************)
CrossingsAreTold ==
  [][IndexAtBeat(beat') > IndexAtBeat(beat) => last' = IndexAtBeat(beat')]_senderVars

\* "this guarantees the receiver learns the interval's TotalFrames before the next
\* interval starts" (metronome_sender.go:52): a burst longer than localWaifCh loses its
\* newest frame, the final one: this does not hold (in_app_flush.cfg).
FlushClosesTheRound ==
  [][\A t \in Tasks :
       task[t].kind = "metronome" /\ heard'[t].index # heard[t].index
       => heard[t] = Silence \/ heard[t].final]_senderVars
============================================================================
