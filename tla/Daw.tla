--------------------------------- MODULE Daw ---------------------------------
(***************************************************************************)
(* A room's tempo together with the DAWs that follow it: module Tempo with *)
(* the Ableton Link bridge of each session (wail-app/link_types.go,        *)
(* link_real.go).  The bridge's poller applies the tempos the session      *)
(* commands, reads Link's tempo at every poll, and has a detector tell a   *)
(* musician's change from the bridge's own writes and from noise: an echo  *)
(* guard after each write, a running mean for small divergences, and a     *)
(* hold-down before a change is reported.                                  *)
(*                                                                         *)
(* Tempos are whole multiples of the unit Bar, Band, Regime and Snap are   *)
(* given in.  A poll of the model stands for many: Window, Hold and Guard  *)
(* are counted in it.  Link is taken to do what it is told.                *)
(***************************************************************************)
EXTENDS Tempo, SequencesExt

CONSTANTS
  Daws,     \* the sessions that share Link with a DAW
  Band,     \* tempoSteadyBand
  Regime,   \* tempoMeanRegime
  Snap,     \* tempoIntegerSnap
  Whole,    \* one BPM
  Floor,    \* tempoReportFloor
  Window,   \* tempoMeanWindow, in polls
  Hold,     \* tempoHoldDown, in polls
  Guard,    \* echoGuardDuration, in polls
  Depth,    \* what the event channel holds
  MaxTurns  \* bound on the changes of tempo in a DAW

ASSUME DawAssumption ==
  /\ Daws \subseteq Peer
  /\ {Band, Regime, Snap, Floor, Guard, MaxTurns} \subseteq Nat
  /\ {Whole, Window, Hold, Depth} \subseteq Nat \ {0}

VARIABLES
  daw,   \* daw[p]: the tempo of p's Link session
  det,   \* det[p]: p's TempoChangeDetector
  cmds,  \* cmds[p]: SetTempo commands to p's poller
  evs,   \* evs[p]: TempoChanged events from it
  mine,  \* mine[p]: has the DAW changed its tempo since WAIL last set it?
  turns

bridgeVars == <<daw, det, cmds, evs, mine, turns>>
dawVars == <<vars, bridgeVars>>

\* A mean is kept as a sum and how many readings it is of.
Mean(q) == [sum |-> FoldSeq(+, 0, q), of |-> Len(q)]
NoCandidate == [sum |-> 0, of |-> 0]

Abs(x) == IF x < 0 THEN -x ELSE x
Apart(m, n, d) == Abs(m.sum * n.of - n.sum * m.of) > d * m.of * n.of
Exactly(b) == [sum |-> b, of |-> 1]

DawTypeOK ==
  /\ TypeOK
  /\ daw \in [Daws -> Bpm]
  /\ \A p \in Daws :
       /\ det[p].last \in Nat /\ det[p].guard \in 0..Guard
       /\ det[p].samples \in UNION {[1..n -> Bpm] : n \in 0..Window}
       /\ det[p].held \in 0..Hold
       /\ cmds[p] \in Seq(Bpm) /\ Len(evs[p]) <= Depth
  /\ mine \in [Daws -> BOOLEAN]
  /\ turns \in 0..MaxTurns

DawInit ==
  /\ Init
  /\ daw = [p \in Daws |-> JoinBpm[p]]
  /\ det = [p \in Daws |-> [last |-> JoinBpm[p], guard |-> 0, samples |-> <<>>,
                            candidate |-> NoCandidate, held |-> 0]]
  /\ cmds = [p \in Daws |-> <<>>] /\ evs = [p \in Daws |-> <<>>]
  /\ mine = [p \in Daws |-> FALSE]
  /\ turns = 0

-----------------------------------------------------------------------------
(* The poller of p. *)

\* Mutant: the baseline stays where it was.
SetTempoKeepsLast(p) ==
  /\ cmds[p] # <<>>
  /\ cmds' = [cmds EXCEPT ![p] = Tail(@)]
  /\ daw' = [daw EXCEPT ![p] = Head(cmds[p])]
  /\ det' = [det EXCEPT ![p].guard = Guard, ![p].candidate = NoCandidate, ![p].held = 0]
  /\ mine' = [mine EXCEPT ![p] = FALSE]
  /\ UNCHANGED <<vars, evs, turns>>

\* LinkBridge.SetTempo: the detector's baseline moves with what is written, and
\* no reading counts until the guard has passed.
SetTempo(p) ==
  /\ cmds[p] # <<>>
  /\ cmds' = [cmds EXCEPT ![p] = Tail(@)]
  /\ daw' = [daw EXCEPT ![p] = Head(cmds[p])]
  /\ det' = [det EXCEPT ![p].last = Head(cmds[p]), ![p].guard = Guard,
                        ![p].candidate = NoCandidate, ![p].held = 0]
  /\ mine' = [mine EXCEPT ![p] = FALSE]
  /\ UNCHANGED <<vars, evs, turns>>

\* observe: what is older than the window goes.
Observing(q, b) ==
  LET all == Append(q, b)
  IN IF Len(all) > Window THEN Tail(all) ELSE all

\* reportBar: SlewAuthorityBPM, 0.05 % of the tempo, or the floor.
Bar(last) == IF last \div 2000 > Floor THEN last \div 2000 ELSE Floor

\* Check: small divergence is judged on the mean, large on the reading.
Judged(d, q, b) == IF Abs(b - d.last) <= Regime THEN Mean(q) ELSE Exactly(b)

\* snapToIntegerTempo, of a mean.
Nearest(m) == ((2 * m.sum + Whole * m.of) \div (2 * Whole * m.of)) * Whole
Snapped(m) ==
  IF Apart(m, Exactly(Nearest(m)), Snap) \/ Nearest(m) = 0 THEN m.sum \div m.of ELSE Nearest(m)

\* TempoChangeDetector.Check: the detector after a reading b, and what it
\* reports (0 is nothing).
Checked(d, b) ==
  LET q    == Observing(d.samples, b)
      seen == Judged(d, q, b)
      calm == [d EXCEPT !.samples = q, !.candidate = NoCandidate, !.held = 0]
  IN CASE d.guard > 0 -> [det |-> [d EXCEPT !.samples = q, !.guard = @ - 1], report |-> 0]
       [] d.guard = 0 /\ ~Apart(seen, Exactly(d.last), Bar(d.last)) ->
            [det |-> calm, report |-> 0]
       [] d.guard = 0 /\ Apart(seen, Exactly(d.last), Bar(d.last))
            /\ (d.candidate = NoCandidate \/ Apart(seen, d.candidate, Band)) ->
            [det |-> [calm EXCEPT !.candidate = seen], report |-> 0]
       [] OTHER ->
            IF d.held + 1 < Hold
            THEN [det |-> [d EXCEPT !.samples = q, !.held = @ + 1], report |-> 0]
            ELSE [det |-> [calm EXCEPT !.last = Snapped(seen)], report |-> Snapped(seen)]

\* Nothing is under way in the room or between a session and its DAW, nothing a lost
\* connection left is unread, and the next reading will not change that.
Settled(p) == /\ down[p] = <<>> /\ cmds[p] = <<>> /\ evs[p] = <<>> /\ det[p].guard = 0
              /\ det[p].samples # <<>> /\ ToSet(det[p].samples) = {daw[p]}
              /\ Checked(det[p], daw[p]).det.candidate = NoCandidate
              /\ Checked(det[p], daw[p]).report = 0
Calm == \A p \in Daws : conn[p] # "out" => Settled(p)
AllQuiet == Quiet /\ Calm

\* A musician turns the DAW's tempo.
Turn(p, b) ==
  /\ conn[p] # "out" /\ b # daw[p]
  /\ Overlap \/ AllQuiet
  /\ turns < MaxTurns /\ turns' = turns + 1
  /\ daw' = [daw EXCEPT ![p] = b]
  /\ mine' = [mine EXCEPT ![p] = TRUE]
  /\ UNCHANGED <<vars, det, cmds, evs>>

\* A poll.  An event that finds the channel full is dropped.
Poll(p) ==
  /\ conn[p] # "out"
  /\ Overlap \/ Quiet
  /\ LET r == Checked(det[p], daw[p])
     IN /\ det' = [det EXCEPT ![p] = r.det]
        /\ evs' = IF r.report = 0 \/ Len(evs[p]) = Depth THEN evs
                  ELSE [evs EXCEPT ![p] = Append(@, r.report)]
  /\ UNCHANGED <<vars, daw, cmds, mine, turns>>
-----------------------------------------------------------------------------
(* The session of p: what it commands, and the events it takes. *)

\* Mutant: what the room says is not written to Link.
CommandsOwnOnly(p, always) ==
  cmds' = IF p \in Daws /\ always THEN [cmds EXCEPT ![p] = Append(@, bpm'[p])] ELSE cmds

\* What the session hears from the room it writes to Link if it differs; what
\* the musician sets in WAIL it writes always.
Commands(p, always) ==
  cmds' = IF p \in Daws /\ (always \/ bpm'[p] # bpm[p])
          THEN [cmds EXCEPT ![p] = Append(@, bpm'[p])] ELSE cmds

Rest == UNCHANGED <<daw, det, evs, mine, turns>>

\* A tempo that came with an event of the bridge is not written back.
TakeEvent(p) ==
  /\ Running(p) /\ evs[p] # <<>>
  /\ evs' = [evs EXCEPT ![p] = Tail(@)]
  /\ \/ /\ Abs(Head(evs[p]) - bpm[p]) <= 1
        /\ UNCHANGED vars
     \/ /\ Abs(Head(evs[p]) - bpm[p]) > 1
        /\ \E now \in Clock : TempoChanged(p, Head(evs[p]), now)
  /\ UNCHANGED <<daw, det, cmds, mine, turns>>

Bridged(p) ==
  \/ /\ Overlap \/ Calm
     /\ \E b \in Bpm, now \in Clock : ChangeBpm(p, b, now)
     /\ Commands(p, TRUE)
  \/ /\ OnAnchor(p) \/ OnDeclare(p) \/ \E now \in Clock : OnChange(p, now)
     /\ Commands(p, FALSE)

Unbridged(p) ==
  \/ (Overlap \/ Calm) /\ (Join(p) \/ SetInterval(p))
  \/ JoinOk(p) \/ Seed(p) \/ Drop(p)
  \/ \E now \in Clock : UpdateStreamsError(p, now)
  \/ PeerJoined(p) \/ Read(p) \/ Observe(p) \/ Announce(p)
  \/ \E q \in Peer : Send(p, q)
  \/ OnIntervalConfig(p)

DawNext ==
  \E p \in Peer :
    \/ Bridged(p) /\ Rest
    \/ Unbridged(p) /\ UNCHANGED bridgeVars
    \/ p \in Daws /\ (SetTempo(p) \/ Poll(p) \/ TakeEvent(p) \/ \E b \in Bpm : Turn(p, b))

DawSpec == DawInit /\ [][DawNext]_dawVars
-----------------------------------------------------------------------------
\* What the theorems take of the tempos: the detector's bars tell them apart,
\* each snaps to itself, and the hold-down outlasts what the mean of a window that has yet
\* to pass takes to move.
Tuned ==
  /\ \A b \in Bpm : Snapped(Exactly(b)) = b /\ Band * Window <= Hold * Bar(b)
  /\ \A a, b \in Bpm : a # b => Abs(a - b) > 1 /\ Abs(a - b) > Regime /\ Abs(a - b) > Bar(a)

Near(a, b) == Abs(a - b) <= Snap

\* When nothing is under way, between the members and the relay or between a
\* session and its DAW, the DAW plays the session's tempo, or one so near that
\* the detector's snap may have rounded it: no change in a DAW goes unreported
\* and none from the room is lost on the way to it (link_types.go, session.go).
DawFollows == AllQuiet /\ rejects = 0 => \A p \in Daws \cap On : Near(daw[p], bpm[p])

\* What the bridge reports as the musician's is the musician's: its own writes
\* do not come back as changes of the DAW (ArmEchoGuard, Check), provided the
\* window of the mean has passed between two of them.  Without that proviso, with
\* Overlap, two writes leave a mean that is neither tempo and outlasts the
\* hold-down: it is declared as the musician's (daw_echo.cfg).
NoEcho ==
  [][\A p \in Daws : Len(evs'[p]) > Len(evs[p]) /\ rejects = 0 => mine[p]]_dawVars
=============================================================================
