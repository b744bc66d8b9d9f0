----------------------------- MODULE AppProofs -----------------------------
(***************************************************************************)
(* Facts about the desktop application: App's calls (Shell) and the        *)
(* in-app senders of its session (InApp).                                  *)
(*                                                                         *)
(* Disconnect gives up on a session only while others keep that session    *)
(* waiting (WaitsOnlyForOthers), for every number of callers, sessions and *)
(* commands.  The argument: a.mu is only ever kept by a caller that waits  *)
(* for the session in a.session, and a session somebody disconnects is in  *)
(* a.session no more, nor ever again, since it was started before.         *)
(*                                                                         *)
(* The rounds of every in-app sender are heard one after another and       *)
(* closed (RoundsAreClosed), for every number of tasks, every interval     *)
(* length and every capacity of the channels.  The argument: boundaries    *)
(* wait in the order of their intervals (BoundaryInv); the frames on their *)
(* way are in order behind what was heard and ahead of what the task has   *)
(* yet to send, and of every round that was left the final frame was       *)
(* heard, is on its way or was lost (Flow); a metronome's round has a gap  *)
(* nowhere, neither heard nor on its way nor before its task's next frame, *)
(* unless it lost a frame (Unbroken).                                      *)
(***************************************************************************)
EXTENDS Shell, InApp, TLAPS

----------------------------------------------------------------------------
(* The life of a session: who keeps the mutex, and whom a call waits for.  *)

Known(n) == n \in Ids /\ loop[n] # "none"

CallType ==
  [op : {"none", "join", "auto", "command", "disconnect", "remember"},
   at : {"idle", "lock", "joined", "send", "quit", "wait"},
   of : Ids \cup {NoOne}]

Places == {"none", "dial", "select", "callback", "redial", "ended", "emitted", "done"}

\* The strengthening: who keeps the mutex, and whom a caller waits for.
CallInv ==
  /\ call \in [Callers -> CallType]
  /\ loop \in [Ids -> Places]
  /\ session # NoOne => Known(session)
  /\ \A c \in Callers : call[c].at \in {"send", "quit", "wait"} => Known(call[c].of)
  /\ \A c \in Callers : call[c].at \in {"quit", "wait"} => call[c].of # session
  /\ mu # NoOne => mu \in Callers /\ call[mu].at = "send" /\ call[mu].of = session

\* Only the mutex, a call, a.session and the places of the sessions matter to CallInv.
LEMMA CallInit == Init => CallInv
<1> SUFFICES ASSUME Init PROVE CallInv
  OBVIOUS
<1>1. Idle \in CallType /\ Idle.at = "idle"
  BY DEF Idle, CallType
<1>2. AutoJoin \in CallType /\ AutoJoin.at = "lock"
  BY DEF Idle, AutoJoin, CallType
<1>3. \A c \in Callers : call[c] \in {Idle, AutoJoin}
  BY DEF Init
<1>4. call \in [Callers -> CallType]
  BY <1>1, <1>2 DEF Init
<1>5. \A c \in Callers : call[c].at \in {"idle", "lock"}
  BY <1>1, <1>2, <1>3
<1>6. loop \in [Ids -> Places]
  BY DEF Init, Places
<1> QED
  BY <1>4, <1>5, <1>6 DEF Init, CallInv

\* A call that starts or ends, with everything else as it was.
LEMMA CallChanges ==
  ASSUME CallInv, NEW c \in Callers, NEW k \in CallType, call' = [call EXCEPT ![c] = k],
         k.at \in {"idle", "lock", "joined"}, call[c].at # "send",
         UNCHANGED <<mu, session, loop>>
  PROVE  CallInv'
  BY DEF CallInv, Known

\* A session that goes on keeps every fact about it.
LEMMA LoopChanges ==
  ASSUME CallInv, NEW n \in Ids, NEW to \in Places \ {"none"}, loop' = [loop EXCEPT ![n] = to],
         UNCHANGED <<mu, session, call>>
  PROVE  CallInv'
  BY DEF CallInv, Known

LEMMA CallNext == CallInv /\ [Next]_vars => CallInv'
<1> SUFFICES ASSUME CallInv, [Next]_vars PROVE CallInv'
  OBVIOUS
<1> USE DEF Returns, Locks
<1>idle. Idle \in CallType /\ Idle.at = "idle"
  BY DEF Idle, CallType
<1>types. \A c \in Callers : call[c] \in CallType
  BY DEF CallInv
<1>1. CASE GetActiveSession
  BY <1>1 DEF GetActiveSession, CallInv, Known, appVars, sessionVars
<1>2. ASSUME NEW c \in Callers, Click(c) PROVE CallInv'
  <2>1. PICK op \in Offers \cup {"remember"} :
          call' = [call EXCEPT ![c] = [Idle EXCEPT !.op = op, !.at = "lock"]]
    BY <1>2 DEF Click
  <2>2. op \in {"join", "command", "disconnect", "remember"}
    BY DEF Offers
  <2>3. [Idle EXCEPT !.op = op, !.at = "lock"] \in CallType
    BY <2>2 DEF Idle, CallType
  <2>4. [Idle EXCEPT !.op = op, !.at = "lock"].at = "lock"
    BY DEF Idle
  <2> QED
    BY <1>2, <2>1, <2>3, <2>4, CallChanges DEF Click, appVars, sessionVars
<1>3. ASSUME NEW c \in Callers, JoinRoom(c) PROVE CallInv'
  <2>1. call[c].at = "lock" /\ UNCHANGED mu /\ mu = NoOne
    BY <1>3 DEF JoinRoom
  <2>2. CASE session # NoOne
    BY <1>3, <1>idle, <2>1, <2>2, CallChanges DEF JoinRoom, sessionVars
  <2>3. CASE session = NoOne
    <3>1. PICK n \in Ids : loop[n] = "none" /\ SpawnSession(n) /\ session' = n
             /\ call' \in {[call EXCEPT ![c] = Idle], [call EXCEPT ![c].at = "joined"]}
      BY <1>3, <2>3 DEF JoinRoom
    <3>2. loop' = [loop EXCEPT ![n] = "dial"]
      BY <3>1 DEF SpawnSession
    <3>3. /\ call' \in [Callers -> CallType]
          /\ call'[c].at \in {"idle", "joined"}
          /\ \A d \in Callers \ {c} : call'[d] = call[d]
      BY <3>1, <1>idle, <1>types DEF CallInv, CallType
    <3>4. \A m \in Ids : Known(m) => m # n /\ Known(m)'
      BY <3>1, <3>2 DEF Known, CallInv
    <3>5. Known(n)' /\ loop' \in [Ids -> Places]
      BY <3>2 DEF Known, CallInv, Places
    <3> QED
      BY <2>1, <3>1, <3>3, <3>4, <3>5 DEF CallInv, Known
  <2> QED
    BY <2>2, <2>3
<1>4. ASSUME NEW c \in Callers, ShowSession(c) PROVE CallInv'
  BY <1>4, <1>idle, CallChanges DEF ShowSession, appVars, sessionVars
<1>5. ASSUME NEW c \in Callers, SendCommand(c) PROVE CallInv'
  <2>1. CASE UNCHANGED mu /\ Returns(c)
    BY <1>5, <2>1, <1>idle, CallChanges DEF SendCommand
  <2>2. CASE session # NoOne /\ mu' = c
             /\ call' = [call EXCEPT ![c].at = "send", ![c].of = session]
    BY <1>5, <1>types, <2>2, ShellAssumption DEF SendCommand, CallInv, CallType, Known
  <2> QED
    BY <1>5, <2>1, <2>2 DEF SendCommand
<1>6. ASSUME NEW c \in Callers, SendUnblocks(c) PROVE CallInv'
  BY <1>6, <1>idle DEF SendUnblocks, CallInv, Known
<1>7. ASSUME NEW c \in Callers, SetRememberEnabled(c) PROVE CallInv'
  BY <1>7, <1>idle, CallChanges DEF SetRememberEnabled, sessionVars
<1>8. ASSUME NEW c \in Callers, Disconnect(c) PROVE CallInv'
  <2>1. /\ mu = NoOne /\ mu' = NoOne /\ session' = NoOne /\ loop' = loop
        /\ call[c].at = "lock"
    BY <1>8 DEF Disconnect, Takes, sessionVars
  <2>2. CASE session = NoOne
    BY <1>8, <1>idle, <2>1, <2>2, CallChanges DEF Disconnect, Takes
  <2>3. CASE session # NoOne
    <3>1. call' = [call EXCEPT ![c].at = "quit", ![c].of = session]
      BY <1>8, <2>3 DEF Disconnect, Takes
    <3>2. Known(session) /\ session \in Ids
      BY <2>3 DEF CallInv, Known
    <3>3. call' \in [Callers -> CallType] /\ call'[c].of = session
      BY <3>1, <3>2, <1>types DEF CallInv, CallType
    <3>4. \A d \in Callers \ {c} : call'[d] = call[d]
      BY <3>1 DEF CallInv
    <3>5. \A d \in Callers : call'[d].at \in {"send", "quit", "wait"} => Known(call'[d].of)
      BY <3>2, <3>3, <3>4 DEF CallInv
    <3>6. \A d \in Callers : Known(call'[d].of) => call'[d].of # NoOne
      BY ShellAssumption DEF Known, Ids
    <3> QED
      BY <2>1, <3>3, <3>5, <3>6 DEF CallInv, Known
  <2> QED
    BY <2>2, <2>3
<1>9. ASSUME NEW c \in Callers, DisconnectSends(c) PROVE CallInv'
  <2>1. call' = [call EXCEPT ![c].at = "wait"] /\ call[c].at = "quit"
        /\ UNCHANGED <<mu, session, loop>>
    BY <1>9 DEF DisconnectSends, appVars
  <2> QED
    BY <2>1, <1>types DEF CallInv, CallType, Known
<1>10. ASSUME NEW c \in Callers, DisconnectDone(c) \/ DisconnectGivesUp(c) PROVE CallInv'
  BY <1>10, <1>idle, CallChanges DEF DisconnectDone, DisconnectGivesUp, appVars, sessionVars
<1>11. ASSUME NEW n \in Ids, SessionStep(n) \/ ReconnectSignaling(n) PROVE CallInv'
  <2>1. UNCHANGED <<mu, session, call>>
    BY <1>11 DEF SessionStep, ReconnectSignaling, Connected, Done, TakeCommand,
       OnCaptureEnabledChanged, Reconnected, EmitEnded, CloseDone, appVars
  <2>2. CASE TakeCommand(n)
    <3>1. \E to \in {"select", "callback", "ended"} : loop' = [loop EXCEPT ![n] = to]
      BY <2>2, <1>11 DEF TakeCommand, Handled
    <3> QED
      BY <2>1, <3>1, LoopChanges DEF Places
  <2>3. CASE ~TakeCommand(n)
    <3>1. \E to \in Places \ {"none"} : loop' = [loop EXCEPT ![n] = to]
      BY <1>11, <2>3 DEF SessionStep, ReconnectSignaling, Connected, Done,
         OnCaptureEnabledChanged, Reconnected, EmitEnded, CloseDone, At, Places
    <3> QED
      BY <2>1, <3>1, LoopChanges
  <2> QED
    BY <2>2, <2>3
<1>12. CASE UNCHANGED vars
  BY <1>12 DEF vars, appVars, sessionVars, CallInv, Known
<1> QED
  BY <1>1, <1>2, <1>3, <1>4, <1>5, <1>6, <1>7, <1>8, <1>9, <1>10, <1>11, <1>12
     DEF Next, CallStep

\* One caller's step leaves the calls of the others alone; the two steps that end a wait.
LEMMA WaitEnds ==
  ASSUME CallInv, [Next]_vars, NEW c \in Callers, call[c].at = "wait", call'[c].at = "idle"
  PROVE  DisconnectDone(c) \/ DisconnectGivesUp(c)
<1> USE DEF Returns, Locks
<1>1. ASSUME NEW d \in Callers, Click(d) PROVE FALSE
  BY <1>1 DEF Click, CallInv, Idle
<1>2. ASSUME NEW d \in Callers, CallStep(d) PROVE DisconnectDone(c) \/ DisconnectGivesUp(c)
  <2>1. CASE d = c
    BY <1>2, <2>1 DEF CallStep, JoinRoom, ShowSession, SendCommand, SendUnblocks,
       SetRememberEnabled, Disconnect, DisconnectSends
  <2>2. CASE d # c
    <3>1. call'[c] = call[c]
      BY <1>2, <2>2 DEF CallStep, JoinRoom, ShowSession, SendCommand, SendUnblocks,
         SetRememberEnabled, Disconnect, Takes, DisconnectSends, DisconnectDone,
         DisconnectGivesUp, CallInv
    <3> QED
      BY <3>1
  <2> QED
    BY <2>1, <2>2
<1>3. ASSUME NEW n \in Ids, SessionStep(n) \/ ReconnectSignaling(n) PROVE FALSE
  BY <1>3 DEF SessionStep, ReconnectSignaling, Connected, Done, TakeCommand,
     OnCaptureEnabledChanged, Reconnected, EmitEnded, CloseDone
<1>4. ASSUME GetActiveSession \/ UNCHANGED vars PROVE FALSE
  BY <1>4 DEF GetActiveSession, vars
<1> QED
  BY <1>1, <1>2, <1>3, <1>4 DEF Next

\* Disconnect never gives up because somebody who waits for the same session keeps a.mu.
THEOREM DisconnectIsNotInItsOwnWay == Spec => WaitsOnlyForOthers
<1> DEFINE Gives(c) ==
      LET n == call[c].of IN
      call[c].at = "wait" /\ call'[c].at = "idle"
      => loop[n] \in {"dial", "redial", "done"} \/ HeldForAnother(n)
<1>1. CallInv /\ [Next]_vars => [\A c \in Callers : Gives(c)]_vars
  <2> SUFFICES ASSUME CallInv, [Next]_vars, NEW c \in Callers,
                      call[c].at = "wait", call'[c].at = "idle"
               PROVE  LET n == call[c].of IN
                      loop[n] \in {"dial", "redial", "done"} \/ HeldForAnother(n)
    OBVIOUS
  <2>1. CASE DisconnectDone(c)
    BY <2>1 DEF DisconnectDone
  <2>2. CASE DisconnectGivesUp(c)
    <3>1. Stuck(call[c].of)
      BY <2>2 DEF DisconnectGivesUp
    <3>2. mu # NoOne => HeldForAnother(call[c].of)
      BY DEF CallInv, HeldForAnother
    <3> QED
      BY <3>1, <3>2 DEF Stuck
  <2> QED
    BY <2>1, <2>2, WaitEnds
<1> QED
  BY <1>1, CallInit, CallNext, PTL DEF Spec, WaitsOnlyForOthers

----------------------------------------------------------------------------
(* The rounds of the in-app senders.  What is claimed of them is a matter   *)
(* of four values: the frames w in localWaifCh, the locals k of the tasks,  *)
(* what the room heard h, and the rounds that lost a frame l.               *)

Typed(w, k, h, l) ==
  /\ w \in Seq(Frames)
  /\ \A t \in Tasks :
       /\ k[t].index \in Nat \cup {NoIndex} /\ k[t].next \in Nat /\ k[t].total \in Nat
       /\ k[t].next <= k[t].total /\ (k[t].index = NoIndex => k[t].total = 0)
       /\ h[t] \in [index : Nat \cup {NoIndex}, nums : Seq(Nat), final : BOOLEAN]
       /\ h[t].index = NoIndex \/ h[t].nums = <<>> => h[t] = Silence

\* A frame follows another one of its task, or what the room heard of it.
Follows(g, f) ==
  \/ g.index < f.index
  \/ g.index = f.index /\ g.num < f.num /\ ~g.final

FollowsHeard(g, f) ==
  \/ g.index < f.index
  \/ g.index = f.index /\ ~g.final /\ \A n \in 1 .. Len(g.nums) : g.nums[n] < f.num

\* The frames of a task are in order behind each other, and the task ahead of them.
Ordered(w, k, h) ==
  /\ \A i, j \in 1 .. Len(w) : i < j /\ w[i].task = w[j].task => Follows(w[i], w[j])
  /\ \A i \in 1 .. Len(w) : FollowsHeard(h[w[i].task], w[i])
  /\ \A i \in 1 .. Len(w) :
       /\ w[i].index <= k[w[i].task].index
       /\ w[i].index = k[w[i].task].index
            => /\ w[i].num < k[w[i].task].next
               /\ w[i].final => w[i].num = k[w[i].task].total - 1

\* So is what the room heard.
HeardInOrder(k, h) ==
  \A t \in Tasks :
    /\ Grows(h[t].nums)
    /\ h[t].index <= k[t].index
    /\ h[t].index = k[t].index
         => /\ \A n \in 1 .. Len(h[t].nums) : h[t].nums[n] < k[t].next
            /\ h[t].final => k[t].total <= k[t].next

\* The final frame of a round was heard, is on its way, or was lost with others.
Closed(w, h, l, t, r) ==
  \/ r \in l[t]
  \/ h[t].index = r /\ h[t].final
  \/ \E j \in 1 .. Len(w) : w[j].task = t /\ w[j].index = r /\ w[j].final

\* A round of which something was sent is the task's own or closed, and the task's own
\* is closed when the task has come to its end.
Closing(w, k, h, l) ==
  /\ \A i \in 1 .. Len(w) :
       w[i].index = k[w[i].task].index \/ Closed(w, h, l, w[i].task, w[i].index)
  /\ \A t \in Tasks :
       /\ h[t] = Silence \/ h[t].index = k[t].index \/ Closed(w, h, l, t, h[t].index)
       /\ 0 < k[t].total /\ k[t].total <= k[t].next => Closed(w, h, l, t, k[t].index)

Flow(w, k, h, l) ==
  Typed(w, k, h, l) /\ Ordered(w, k, h) /\ HeardInOrder(k, h) /\ Closing(w, k, h, l)

\* The frame with number n of the task's round, the last one so far, goes to localWaifCh
\* or is lost.
Pushed(w, w2, l, l2, f) ==
  /\ w2 \in Seq(Frames)
  /\ \/ Len(w2) = Len(w) + 1 /\ w2[Len(w2)] = f
     \/ Len(w2) = Len(w) /\ f.index \in l2[f.task]
  /\ \A i \in 1 .. Len(w) : w2[i] = w[i]
  /\ \A t \in Tasks : l[t] \subseteq l2[t]

LEMMA PushFlow ==
  ASSUME NEW w, NEW k, NEW h, NEW l, NEW w2, NEW k2, NEW l2,
         Flow(w, k, h, l), NEW t \in Tasks, NEW n \in Nat,
         k[t].next <= n, n < k[t].total,
         Pushed(w, w2, l, l2, [task |-> t, index |-> k[t].index, num |-> n,
                               final |-> n = k[t].total - 1]),
         k2[t].index = k[t].index, k2[t].total = k[t].total, k2[t].next = n + 1,
         \A u \in Tasks \ {t} : k2[u] = k[u]
  PROVE  Flow(w2, k2, h, l2)
<1> DEFINE f == [task |-> t, index |-> k[t].index, num |-> n, final |-> n = k[t].total - 1]
<1>1. /\ k[t].index \in Nat /\ k[t].next \in Nat /\ k[t].total \in Nat
      /\ w \in Seq(Frames) /\ w2 \in Seq(Frames)
      /\ Len(w) \in Nat /\ Len(w2) \in Nat
      /\ \A i \in 1 .. Len(w) : w[i] \in Frames
      /\ \A i \in 1 .. Len(w2) : w2[i] \in Frames
  BY DEF Flow, Typed, Pushed, NoIndex
<1>2. /\ f.task = t /\ f.index = k[t].index /\ f.num = n
      /\ f.final <=> n = k[t].total - 1
  OBVIOUS
<1>3. Pushed(w, w2, l, l2, f)
  OBVIOUS
<1> HIDE DEF f
<1>4. \A i \in 1 .. Len(w2) :
        (i \in 1 .. Len(w) /\ w2[i] = w[i]) \/ (i = Len(w) + 1 /\ w2[i] = f)
  <2>1. (Len(w2) = Len(w) + 1 /\ w2[Len(w2)] = f) \/ Len(w2) = Len(w)
    BY <1>3 DEF Pushed
  <2>2. ASSUME NEW i \in 1 .. Len(w2)
        PROVE  (i \in 1 .. Len(w) /\ w2[i] = w[i]) \/ (i = Len(w) + 1 /\ w2[i] = f)
    <3>1. i \in 1 .. Len(w) => w2[i] = w[i]
      BY <1>3 DEF Pushed
    <3> QED BY <1>1, <2>1, <3>1
  <2> QED BY <2>2
<1>5. /\ \A i \in 1 .. Len(w) : i \in 1 .. Len(w2) /\ w2[i] = w[i]
      /\ \A u \in Tasks : l[u] \subseteq l2[u]
  BY <1>1, <1>3 DEF Pushed
<1>6. Typed(w2, k2, h, l2)
  <2>1. \A u \in Tasks :
          /\ k2[u].index = k[u].index /\ k2[u].total = k[u].total
          /\ k2[u].next \in Nat /\ k2[u].next <= k2[u].total
    <3> SUFFICES ASSUME NEW u \in Tasks
                 PROVE  /\ k2[u].index = k[u].index /\ k2[u].total = k[u].total
                        /\ k2[u].next \in Nat /\ k2[u].next <= k2[u].total
      OBVIOUS
    <3>1. CASE u = t
      BY <1>1, <3>1
    <3>2. CASE u # t
      BY <3>2 DEF Flow, Typed
    <3> QED BY <3>1, <3>2
  <2> QED BY <1>1, <2>1 DEF Flow, Typed
<1>7. \A i \in 1 .. Len(w) : w[i].task = t => Follows(w[i], f)
  <2> SUFFICES ASSUME NEW i \in 1 .. Len(w), w[i].task = t PROVE Follows(w[i], f)
    OBVIOUS
  <2>1. w[i].index \in Nat /\ w[i].num \in Nat
    BY <1>1 DEF Frames
  <2>2. /\ w[i].index <= k[t].index
        /\ w[i].index = k[t].index
             => w[i].num < k[t].next /\ (w[i].final => w[i].num = k[t].total - 1)
    BY DEF Flow, Ordered
  <2> QED BY <1>1, <1>2, <2>1, <2>2 DEF Follows
<1>8. FollowsHeard(h[t], f)
  <2>1. /\ h[t].index \in Nat \cup {NoIndex} /\ h[t].nums \in Seq(Nat)
        /\ h[t].index <= k[t].index
        /\ h[t].index = k[t].index
             => /\ \A m \in 1 .. Len(h[t].nums) : h[t].nums[m] < k[t].next
                /\ h[t].final => k[t].total <= k[t].next
    BY DEF Flow, Typed, HeardInOrder
  <2>2. \A m \in 1 .. Len(h[t].nums) : h[t].nums[m] \in Nat
    BY <2>1
  <2>3. CASE h[t].index = k[t].index
    <3>1. ASSUME NEW m \in 1 .. Len(h[t].nums) PROVE h[t].nums[m] < f.num
      <4>1. h[t].nums[m] \in Nat /\ h[t].nums[m] < k[t].next
        BY <2>1, <2>2, <2>3
      <4> QED BY <1>1, <1>2, <4>1
    <3>2. ~h[t].final
      BY <1>1, <2>1, <2>3
    <3> QED BY <1>2, <2>3, <3>1, <3>2 DEF FollowsHeard
  <2>4. CASE h[t].index # k[t].index
    BY <1>1, <1>2, <2>1, <2>4 DEF FollowsHeard, NoIndex
  <2> QED BY <2>3, <2>4
<1>9. Ordered(w2, k2, h)
  <2>1. ASSUME NEW i \in 1 .. Len(w2), NEW j \in 1 .. Len(w2), i < j, w2[i].task = w2[j].task
        PROVE  Follows(w2[i], w2[j])
    <3>1. i \in 1 .. Len(w) /\ w2[i] = w[i]
      BY <1>1, <1>4, <2>1
    <3>2. CASE j \in 1 .. Len(w) /\ w2[j] = w[j]
      BY <2>1, <3>1, <3>2 DEF Flow, Ordered
    <3>3. CASE w2[j] = f
      BY <1>2, <1>7, <2>1, <3>1, <3>3
    <3> QED BY <1>4, <3>2, <3>3
  <2>2. ASSUME NEW i \in 1 .. Len(w2) PROVE FollowsHeard(h[w2[i].task], w2[i])
    BY <1>2, <1>4, <1>8 DEF Flow, Ordered
  <2>3. ASSUME NEW i \in 1 .. Len(w2)
        PROVE  /\ w2[i].index <= k2[w2[i].task].index
               /\ w2[i].index = k2[w2[i].task].index
                    => /\ w2[i].num < k2[w2[i].task].next
                       /\ w2[i].final => w2[i].num = k2[w2[i].task].total - 1
    <3>1. CASE w2[i] = f
      BY <1>1, <1>2, <3>1
    <3>2. CASE i \in 1 .. Len(w) /\ w2[i] = w[i]
      <4>1. w[i].task \in Tasks /\ w[i].num \in Nat
        BY <1>1, <3>2 DEF Frames
      <4>2. /\ w[i].index <= k[w[i].task].index
            /\ w[i].index = k[w[i].task].index
                 => /\ w[i].num < k[w[i].task].next
                    /\ w[i].final => w[i].num = k[w[i].task].total - 1
        BY <3>2 DEF Flow, Ordered
      <4>3. CASE w[i].task = t
        BY <1>1, <3>2, <4>1, <4>2, <4>3
      <4>4. CASE w[i].task # t
        BY <3>2, <4>1, <4>2, <4>4
      <4> QED BY <4>3, <4>4
    <3> QED BY <1>4, <3>1, <3>2
  <2> QED BY <2>1, <2>2, <2>3 DEF Ordered
<1>10. HeardInOrder(k2, h)
  <2> SUFFICES ASSUME NEW u \in Tasks
               PROVE  /\ Grows(h[u].nums)
                      /\ h[u].index <= k2[u].index
                      /\ h[u].index = k2[u].index
                           => /\ \A m \in 1 .. Len(h[u].nums) : h[u].nums[m] < k2[u].next
                              /\ h[u].final => k2[u].total <= k2[u].next
    BY DEF HeardInOrder
  <2>1. CASE u # t
    BY <2>1 DEF Flow, HeardInOrder
  <2>2. CASE u = t
    <3>1. \A m \in 1 .. Len(h[t].nums) : h[t].nums[m] \in Nat
      <4>1. h[t].nums \in Seq(Nat)
        BY DEF Flow, Typed
      <4> QED BY <4>1
    <3>2. /\ Grows(h[t].nums)
          /\ h[t].index <= k[t].index
          /\ h[t].index = k[t].index
               => /\ \A m \in 1 .. Len(h[t].nums) : h[t].nums[m] < k[t].next
                  /\ h[t].final => k[t].total <= k[t].next
      BY DEF Flow, HeardInOrder
    <3>3. k[t].next < n + 1 /\ k2[t].next = n + 1
      BY <1>1
    <3>4. h[t].index = k[t].index
            => \A m \in 1 .. Len(h[t].nums) : h[t].nums[m] < n + 1
      BY <1>1, <3>1, <3>2
    <3>5. h[t].index = k[t].index => (h[t].final => k[t].total <= n + 1)
      BY <1>1, <3>2
    <3> QED BY <2>2, <3>2, <3>3, <3>4, <3>5
  <2> QED BY <2>1, <2>2
<1>11. ASSUME NEW u \in Tasks, NEW r, Closed(w, h, l, u, r)
       PROVE  Closed(w2, h, l2, u, r)
  BY <1>5, <1>11 DEF Closed
<1>12. k[t].total <= n + 1 => Closed(w2, h, l2, t, k[t].index)
  <2> SUFFICES ASSUME k[t].total <= n + 1 PROVE Closed(w2, h, l2, t, k[t].index)
    OBVIOUS
  <2>1. f.final
    BY <1>1, <1>2
  <2>2. CASE Len(w2) = Len(w) + 1 /\ w2[Len(w2)] = f
    BY <1>1, <1>2, <2>1, <2>2 DEF Closed
  <2>3. CASE f.index \in l2[f.task]
    BY <1>2, <2>3 DEF Closed
  <2> QED BY <1>3, <2>2, <2>3 DEF Pushed
<1>13. Closing(w2, k2, h, l2)
  <2>1. ASSUME NEW i \in 1 .. Len(w2)
        PROVE  w2[i].index = k2[w2[i].task].index \/ Closed(w2, h, l2, w2[i].task, w2[i].index)
    <3>1. CASE w2[i] = f
      BY <1>2, <3>1
    <3>2. CASE i \in 1 .. Len(w) /\ w2[i] = w[i]
      <4>1. w[i].task \in Tasks
        BY <1>1, <3>2 DEF Frames
      <4>2. k2[w[i].task].index = k[w[i].task].index
        BY <4>1
      <4>3. w[i].index = k[w[i].task].index \/ Closed(w, h, l, w[i].task, w[i].index)
        BY <3>2 DEF Flow, Closing
      <4> QED BY <1>11, <3>2, <4>1, <4>2, <4>3
    <3> QED BY <1>4, <3>1, <3>2
  <2>2. ASSUME NEW u \in Tasks
        PROVE  /\ h[u] = Silence \/ h[u].index = k2[u].index \/ Closed(w2, h, l2, u, h[u].index)
               /\ 0 < k2[u].total /\ k2[u].total <= k2[u].next
                    => Closed(w2, h, l2, u, k2[u].index)
    <3>1. k2[u].index = k[u].index /\ k2[u].total = k[u].total
      BY <2>2
    <3>2. h[u] = Silence \/ h[u].index = k[u].index \/ Closed(w, h, l, u, h[u].index)
      BY DEF Flow, Closing
    <3>3. CASE u = t
      BY <1>11, <1>12, <3>1, <3>2, <3>3
    <3>4. CASE u # t
      BY <1>11, <3>1, <3>2, <3>4 DEF Flow, Closing
    <3> QED BY <3>3, <3>4
  <2> QED BY <2>1, <2>2 DEF Closing
<1> QED BY <1>6, <1>9, <1>10, <1>13 DEF Flow

\* A task whose round is at its end, or of which nothing was sent, goes on to a later one.
LEMMA MoveFlow ==
  ASSUME NEW w, NEW k, NEW h, NEW l, NEW k2,
         Flow(w, k, h, l), NEW t \in Tasks,
         k[t].next = 0 \/ k[t].total <= k[t].next,
         k2[t].index \in Nat, k[t].index < k2[t].index,
         k2[t].next = 0, k2[t].total \in Nat,
         \A u \in Tasks \ {t} : k2[u] = k[u]
  PROVE  Flow(w, k2, h, l)
<1>1. /\ k[t].index \in Nat \cup {NoIndex} /\ k[t].next \in Nat /\ k[t].total \in Nat
      /\ k[t].next <= k[t].total /\ (k[t].index = NoIndex => k[t].total = 0)
      /\ w \in Seq(Frames) /\ Len(w) \in Nat
      /\ \A i \in 1 .. Len(w) : w[i] \in Frames
      /\ h[t].index \in Nat \cup {NoIndex} /\ h[t].nums \in Seq(Nat)
      /\ h[t].index = NoIndex \/ h[t].nums = <<>> => h[t] = Silence
  BY DEF Flow, Typed
<1>2. Typed(w, k2, h, l)
  <2>1. \A u \in Tasks :
          /\ k2[u].index \in Nat \cup {NoIndex} /\ k2[u].next \in Nat /\ k2[u].total \in Nat
          /\ k2[u].next <= k2[u].total /\ (k2[u].index = NoIndex => k2[u].total = 0)
    BY DEF Flow, Typed, NoIndex
  <2> QED BY <2>1 DEF Flow, Typed
<1>3. ASSUME NEW i \in 1 .. Len(w), w[i].task = t
      PROVE  w[i].index < k2[t].index
  <2>1. w[i].index <= k[t].index /\ w[i].index \in Nat
    BY <1>1, <1>3 DEF Flow, Ordered, Frames
  <2> QED BY <1>1, <2>1 DEF NoIndex
<1>4. h[t].index < k2[t].index
  <2>1. h[t].index <= k[t].index
    BY DEF Flow, HeardInOrder
  <2> QED BY <1>1, <2>1 DEF NoIndex
<1>5. Ordered(w, k2, h)
  <2>1. ASSUME NEW i \in 1 .. Len(w)
        PROVE  /\ w[i].index <= k2[w[i].task].index
               /\ w[i].index = k2[w[i].task].index
                    => /\ w[i].num < k2[w[i].task].next
                       /\ w[i].final => w[i].num = k2[w[i].task].total - 1
    <3>1. w[i].task \in Tasks /\ w[i].index \in Nat
      BY <1>1 DEF Frames
    <3>2. CASE w[i].task = t
      BY <1>3, <3>1, <3>2
    <3>3. CASE w[i].task # t
      BY <3>1, <3>3 DEF Flow, Ordered
    <3> QED BY <3>2, <3>3
  <2> QED BY <2>1 DEF Flow, Ordered
<1>6. HeardInOrder(k2, h)
  <2> SUFFICES ASSUME NEW u \in Tasks
               PROVE  /\ Grows(h[u].nums)
                      /\ h[u].index <= k2[u].index
                      /\ h[u].index = k2[u].index
                           => /\ \A m \in 1 .. Len(h[u].nums) : h[u].nums[m] < k2[u].next
                              /\ h[u].final => k2[u].total <= k2[u].next
    BY DEF HeardInOrder
  <2>1. CASE u # t
    BY <2>1 DEF Flow, HeardInOrder
  <2>2. CASE u = t
    <3>1. h[t].index <= k2[t].index /\ h[t].index # k2[t].index
      BY <1>1, <1>4 DEF NoIndex
    <3> QED BY <2>2, <3>1 DEF Flow, HeardInOrder
  <2> QED BY <2>1, <2>2
<1>7. Closed(w, h, l, t, k[t].index) \/ k[t].next = 0
  BY <1>1 DEF Flow, Closing
<1>8. ASSUME NEW i \in 1 .. Len(w), w[i].task = t
      PROVE  Closed(w, h, l, t, w[i].index)
  <2>1. w[i].index = k[t].index => w[i].num < k[t].next
    BY <1>8 DEF Flow, Ordered
  <2>2. w[i].num \in Nat
    BY <1>1 DEF Frames
  <2>3. w[i].index = k[t].index \/ Closed(w, h, l, t, w[i].index)
    BY <1>8 DEF Flow, Closing
  <2>4. CASE w[i].index = k[t].index
    <3>1. k[t].next # 0
      BY <2>1, <2>2, <2>4
    <3> QED BY <1>7, <2>4, <3>1
  <2> QED BY <2>3, <2>4
<1>9. h[t] = Silence \/ Closed(w, h, l, t, h[t].index)
  <2>1. h[t] = Silence \/ h[t].index = k[t].index \/ Closed(w, h, l, t, h[t].index)
    BY DEF Flow, Closing
  <2>2. CASE h[t].index = k[t].index /\ h[t] # Silence
    <3>1. 1 \in 1 .. Len(h[t].nums) /\ h[t].nums[1] \in Nat
      BY <1>1, <2>2
    <3>2. h[t].nums[1] < k[t].next
      BY <2>2, <3>1 DEF Flow, HeardInOrder
    <3>3. k[t].next # 0
      BY <3>1, <3>2
    <3> QED BY <1>7, <2>2, <3>3
  <2> QED BY <2>1, <2>2
<1>10. Closing(w, k2, h, l)
  <2>1. ASSUME NEW i \in 1 .. Len(w)
        PROVE  w[i].index = k2[w[i].task].index \/ Closed(w, h, l, w[i].task, w[i].index)
    <3>1. w[i].task \in Tasks
      BY <1>1 DEF Frames
    <3>2. CASE w[i].task = t
      BY <1>8, <3>2
    <3>3. CASE w[i].task # t
      BY <3>1, <3>3 DEF Flow, Closing
    <3> QED BY <3>2, <3>3
  <2>2. ASSUME NEW u \in Tasks
        PROVE  /\ h[u] = Silence \/ h[u].index = k2[u].index \/ Closed(w, h, l, u, h[u].index)
               /\ 0 < k2[u].total /\ k2[u].total <= k2[u].next
                    => Closed(w, h, l, u, k2[u].index)
    <3>1. CASE u = t
      BY <1>9, <3>1
    <3>2. CASE u # t
      BY <3>2 DEF Flow, Closing
    <3> QED BY <3>1, <3>2
  <2> QED BY <2>1, <2>2 DEF Closing
<1> QED BY <1>2, <1>5, <1>6, <1>10 DEF Flow

\* The session forwards the oldest frame.
Heard(w, h, w2, h2) ==
  /\ w2 \in Seq(Frames) /\ Len(w) = Len(w2) + 1
  /\ \A i \in 1 .. Len(w2) : w2[i] = w[i + 1]
  /\ \A t \in Tasks : h2[t] = IF t = w[1].task THEN Hearing(h[t], w[1]) ELSE h[t]

\* What forwarding the oldest frame makes heard: the next number of an open round, or
\* the first one of a later round, and then the round before was closed or lost frames.
LEMMA HearingIs ==
  ASSUME NEW w, NEW k, NEW h, NEW l, Flow(w, k, h, l), 1 <= Len(w)
  PROVE  LET f == w[1]
             o == h[f.task]
             g == Hearing(o, f)
         IN /\ f \in Frames /\ g.index = f.index /\ f.index <= k[f.task].index
            /\ g \in [index : Nat \cup {NoIndex}, nums : Seq(Nat), final : BOOLEAN]
            /\ g.nums # <<>> /\ Grows(g.nums)
            /\ \A n \in 1 .. Len(g.nums) : g.nums[n] <= f.num
            /\ g.final <=> f.final
            /\ \/ g.index = o.index /\ ~o.final /\ g.nums = Append(o.nums, f.num)
               \/ o.index < g.index /\ g.nums = <<f.num>>
            /\ o.index # g.index => o = Silence \/ o.final \/ o.index \in l[f.task]
<1> DEFINE f == w[1]
           t == f.task
           o == h[t]
           g == Hearing(o, f)
<1>1. /\ w \in Seq(Frames) /\ Len(w) \in Nat /\ 1 \in 1 .. Len(w)
      /\ \A i \in 1 .. Len(w) : w[i] \in Frames
  BY DEF Flow, Typed
<1>2. f \in Frames /\ t \in Tasks /\ f.index \in Nat /\ f.num \in Nat /\ f.final \in BOOLEAN
  BY <1>1 DEF Frames
<1>3. /\ o \in [index : Nat \cup {NoIndex}, nums : Seq(Nat), final : BOOLEAN]
      /\ k[t].index \in Nat \cup {NoIndex}
  BY <1>2 DEF Flow, Typed
<1>4. FollowsHeard(o, f) /\ f.index <= k[t].index
  BY <1>1 DEF Flow, Ordered
<1>5. Grows(o.nums)
  BY <1>2 DEF Flow, HeardInOrder
<1> HIDE DEF f, t, o
<1>6. CASE f.index = o.index
  <2>1. ~o.final /\ \A n \in 1 .. Len(o.nums) : o.nums[n] < f.num
    BY <1>2, <1>3, <1>4, <1>6 DEF FollowsHeard
  <2>2. g = [o EXCEPT !.nums = Append(@, f.num), !.final = @ \/ f.final]
    BY <1>6 DEF Hearing
  <2>3. /\ g.index = o.index /\ g.nums = Append(o.nums, f.num)
        /\ g.final = (o.final \/ f.final)
    BY <1>3, <2>2
  <2>4. /\ o.nums \in Seq(Nat) /\ Len(o.nums) \in Nat /\ g.nums \in Seq(Nat)
        /\ Len(g.nums) = Len(o.nums) + 1 /\ g.nums[Len(o.nums) + 1] = f.num
        /\ \A n \in 1 .. Len(o.nums) : g.nums[n] = o.nums[n] /\ o.nums[n] \in Nat
    BY <1>2, <1>3, <2>3
  <2>5. g \in [index : Nat \cup {NoIndex}, nums : Seq(Nat), final : BOOLEAN]
    BY <1>2, <1>3, <2>2, <2>4
  <2>6. Grows(g.nums)
    <3> SUFFICES ASSUME NEW n \in 1 .. Len(g.nums) - 1 PROVE g.nums[n] < g.nums[n + 1]
      BY DEF Grows
    <3>1. n \in 1 .. Len(o.nums)
      BY <2>4
    <3>2. CASE n = Len(o.nums)
      BY <2>1, <2>4, <3>1, <3>2
    <3>3. CASE n # Len(o.nums)
      <4>1. n + 1 \in 1 .. Len(o.nums) /\ n \in 1 .. Len(o.nums) - 1
        BY <2>4, <3>1, <3>3
      <4> QED BY <1>5, <2>4, <3>1, <4>1 DEF Grows
    <3> QED BY <3>2, <3>3
  <2>7. \A n \in 1 .. Len(g.nums) : g.nums[n] <= f.num
    <3> SUFFICES ASSUME NEW n \in 1 .. Len(g.nums) PROVE g.nums[n] <= f.num
      OBVIOUS
    <3>1. n \in 1 .. Len(o.nums) \/ n = Len(o.nums) + 1
      BY <2>4
    <3>2. CASE n \in 1 .. Len(o.nums)
      <4>1. g.nums[n] = o.nums[n] /\ o.nums[n] \in Nat /\ o.nums[n] < f.num
        BY <2>1, <2>4, <3>2
      <4> QED BY <1>2, <4>1
    <3>3. CASE n = Len(o.nums) + 1
      BY <1>2, <2>4, <3>3
    <3> QED BY <3>1, <3>2, <3>3
  <2>8. g.nums # <<>>
    BY <2>4
  <2> HIDE DEF g
  <2> QED BY <1>2, <1>4, <1>6, <2>1, <2>3, <2>5, <2>6, <2>7, <2>8 DEF f, t, o, g
<1>7. CASE f.index # o.index
  <2>1. o.index < f.index
    BY <1>4, <1>7 DEF FollowsHeard
  <2>2. g = [index |-> f.index, nums |-> <<f.num>>, final |-> f.final]
    BY <1>7 DEF Hearing
  <2>3. /\ g \in [index : Nat \cup {NoIndex}, nums : Seq(Nat), final : BOOLEAN]
        /\ g.index = f.index /\ g.nums = <<f.num>> /\ g.final = f.final
    BY <1>2, <2>2
  <2>4. g.nums # <<>> /\ Grows(g.nums) /\ \A n \in 1 .. Len(g.nums) : g.nums[n] <= f.num
    BY <1>2, <2>3 DEF Grows
  <2>5. o = Silence \/ o.final \/ o.index \in l[t]
    <3>1. o = Silence \/ o.index = k[t].index \/ Closed(w, h, l, t, o.index)
      BY <1>2 DEF Flow, Closing, o
    <3>2. o.index # k[t].index
      BY <1>2, <1>3, <1>4, <2>1 DEF NoIndex
    <3>3. ASSUME NEW j \in 1 .. Len(w), w[j].task = t, w[j].index = o.index PROVE FALSE
      <4>1. CASE j = 1
        BY <1>7, <3>3, <4>1 DEF f
      <4>2. CASE j # 1
        <5>1. Follows(w[1], w[j])
          <6>1. 1 < j
            BY <1>1, <4>2
          <6> QED BY <1>1, <3>3, <6>1 DEF Flow, Ordered, t, f
        <5>2. f.index <= o.index
          BY <1>2, <1>3, <3>3, <5>1 DEF Follows, f, NoIndex
        <5> QED BY <1>2, <1>3, <2>1, <5>2 DEF NoIndex
      <4> QED BY <4>1, <4>2
    <3> QED BY <3>1, <3>2, <3>3 DEF Closed, o
  <2> HIDE DEF g
  <2> QED BY <1>2, <1>4, <1>7, <2>1, <2>3, <2>4, <2>5 DEF f, t, o, g
<1> QED BY <1>6, <1>7

LEMMA HearFlow ==
  ASSUME NEW w, NEW k, NEW h, NEW l, NEW w2, NEW h2,
         Flow(w, k, h, l), 1 <= Len(w), Heard(w, h, w2, h2)
  PROVE  Flow(w2, k, h2, l)
<1> DEFINE f == w[1]
           t == f.task
           g == Hearing(h[t], f)
<1>1. /\ w \in Seq(Frames) /\ w2 \in Seq(Frames) /\ Len(w) \in Nat /\ Len(w2) \in Nat
      /\ Len(w) = Len(w2) + 1 /\ 1 \in 1 .. Len(w)
      /\ \A i \in 1 .. Len(w) : w[i] \in Frames
      /\ \A i \in 1 .. Len(w2) : /\ i + 1 \in 1 .. Len(w) /\ 1 < i + 1
                                 /\ w2[i] = w[i + 1] /\ w2[i] \in Frames
      /\ \A i \in 1 .. Len(w) : i = 1 \/ (i - 1 \in 1 .. Len(w2) /\ w2[i - 1] = w[i])
  <2>1. /\ w \in Seq(Frames) /\ w2 \in Seq(Frames) /\ Len(w) = Len(w2) + 1
        /\ \A i \in 1 .. Len(w2) : w2[i] = w[i + 1]
    BY DEF Flow, Typed, Heard
  <2>2. Len(w2) \in Nat /\ Len(w) \in Nat
    BY <2>1
  <2>3. ASSUME NEW i \in 1 .. Len(w), i # 1
        PROVE  i - 1 \in 1 .. Len(w2) /\ w2[i - 1] = w[i]
    <3>1. i - 1 \in 1 .. Len(w2) /\ (i - 1) + 1 = i
      BY <2>1, <2>2, <2>3
    <3> QED BY <2>1, <3>1
  <2>4. /\ \A i \in 1 .. Len(w) : w[i] \in Frames
        /\ \A i \in 1 .. Len(w2) : w2[i] \in Frames
    BY <2>1
  <2>5. 1 \in 1 .. Len(w) /\ \A i \in 1 .. Len(w2) : i + 1 \in 1 .. Len(w) /\ 1 < i + 1
    BY <2>1, <2>2
  <2>6. \A i \in 1 .. Len(w) : i = 1 \/ (i - 1 \in 1 .. Len(w2) /\ w2[i - 1] = w[i])
    BY <2>3
  <2> QED BY <2>1, <2>2, <2>4, <2>5, <2>6
<1>2. /\ f \in Frames /\ g.index = f.index /\ f.index <= k[t].index
      /\ g \in [index : Nat \cup {NoIndex}, nums : Seq(Nat), final : BOOLEAN]
      /\ g.nums # <<>> /\ Grows(g.nums)
      /\ \A n \in 1 .. Len(g.nums) : g.nums[n] <= f.num
      /\ g.final <=> f.final
      /\ h[t].index # g.index => h[t] = Silence \/ h[t].final \/ h[t].index \in l[t]
      /\ g.index = h[t].index => ~h[t].final
  <2> HIDE DEF g
  <2>1. LET o == h[f.task]
            e == Hearing(o, f)
        IN /\ f \in Frames /\ e.index = f.index /\ f.index <= k[f.task].index
           /\ e \in [index : Nat \cup {NoIndex}, nums : Seq(Nat), final : BOOLEAN]
           /\ e.nums # <<>> /\ Grows(e.nums)
           /\ \A n \in 1 .. Len(e.nums) : e.nums[n] <= f.num
           /\ e.final <=> f.final
           /\ \/ e.index = o.index /\ ~o.final /\ e.nums = Append(o.nums, f.num)
              \/ o.index < e.index /\ e.nums = <<f.num>>
           /\ o.index # e.index => o = Silence \/ o.final \/ o.index \in l[f.task]
    BY HearingIs
  <2>2. h[t].index \in Nat \cup {NoIndex} /\ f.index \in Nat
    BY <2>1 DEF Flow, Typed, Frames
  <2>3. (g.index = h[t].index /\ ~h[t].final) \/ h[t].index < g.index
    BY <2>1 DEF g
  <2>4. g.index = f.index
    BY <2>1 DEF g
  <2>5. g.index = h[t].index => ~h[t].final
    BY <2>2, <2>3, <2>4 DEF NoIndex
  <2> HIDE DEF f, t
  <2> QED BY <2>1, <2>5 DEF g, t
<1>3. /\ t \in Tasks /\ f.index \in Nat /\ f.num \in Nat /\ f.final \in BOOLEAN
      /\ h2[t] = g /\ \A u \in Tasks \ {t} : h2[u] = h[u]
  BY <1>2 DEF Heard, Frames
<1> HIDE DEF f, t, g
<1>4. Typed(w2, k, h2, l)
  <2>1. ASSUME NEW u \in Tasks
        PROVE  /\ h2[u] \in [index : Nat \cup {NoIndex}, nums : Seq(Nat), final : BOOLEAN]
               /\ h2[u].index = NoIndex \/ h2[u].nums = <<>> => h2[u] = Silence
    <3>1. CASE u = t
      BY <1>2, <1>3, <3>1 DEF NoIndex
    <3>2. CASE u # t
      BY <1>3, <3>2 DEF Flow, Typed
    <3> QED BY <3>1, <3>2
  <2> QED BY <1>1, <2>1 DEF Flow, Typed
<1>5. Ordered(w2, k, h2)
  <2>1. ASSUME NEW i \in 1 .. Len(w2), NEW j \in 1 .. Len(w2), i < j, w2[i].task = w2[j].task
        PROVE  Follows(w2[i], w2[j])
    <3>1. i + 1 < j + 1
      BY <1>1, <2>1
    <3>2. /\ i + 1 \in 1 .. Len(w) /\ w2[i] = w[i + 1]
          /\ j + 1 \in 1 .. Len(w) /\ w2[j] = w[j + 1]
      BY <1>1
    <3>3. \A a, b \in 1 .. Len(w) : a < b /\ w[a].task = w[b].task => Follows(w[a], w[b])
      BY DEF Flow, Ordered
    <3> QED BY <2>1, <3>1, <3>2, <3>3
  <2>2. ASSUME NEW i \in 1 .. Len(w2) PROVE FollowsHeard(h2[w2[i].task], w2[i])
    <3>1. w2[i] = w[i + 1] /\ i + 1 \in 1 .. Len(w) /\ w2[i] \in Frames
      BY <1>1
    <3>2. CASE w2[i].task = t
      <4>1. Follows(f, w2[i])
        BY <1>1, <3>1, <3>2 DEF Flow, Ordered, f, t
      <4>2. CASE f.index < w2[i].index
        BY <1>2, <1>3, <3>2, <4>2 DEF FollowsHeard
      <4>3. CASE f.index = w2[i].index /\ f.num < w2[i].num /\ ~f.final
        <5>1. ASSUME NEW n \in 1 .. Len(g.nums) PROVE g.nums[n] < w2[i].num
          <6>1. g.nums \in Seq(Nat)
            BY <1>2
          <6>2. g.nums[n] \in Nat /\ g.nums[n] <= f.num /\ w2[i].num \in Nat
            BY <1>2, <3>1, <6>1 DEF Frames
          <6> QED BY <1>3, <4>3, <6>2
        <5> QED BY <1>2, <1>3, <3>2, <4>3, <5>1 DEF FollowsHeard
      <4> QED BY <4>1, <4>2, <4>3 DEF Follows
    <3>3. CASE w2[i].task # t
      <4>1. h2[w2[i].task] = h[w2[i].task]
        BY <1>3, <3>1, <3>3 DEF Frames
      <4> QED BY <3>1, <4>1 DEF Flow, Ordered
    <3> QED BY <3>2, <3>3
  <2>3. ASSUME NEW i \in 1 .. Len(w2)
        PROVE  /\ w2[i].index <= k[w2[i].task].index
               /\ w2[i].index = k[w2[i].task].index
                    => /\ w2[i].num < k[w2[i].task].next
                       /\ w2[i].final => w2[i].num = k[w2[i].task].total - 1
    <3>1. w2[i] = w[i + 1] /\ i + 1 \in 1 .. Len(w)
      BY <1>1
    <3> QED BY <3>1 DEF Flow, Ordered
  <2> QED BY <2>1, <2>2, <2>3 DEF Ordered
<1>6. HeardInOrder(k, h2)
  <2> SUFFICES ASSUME NEW u \in Tasks
               PROVE  /\ Grows(h2[u].nums)
                      /\ h2[u].index <= k[u].index
                      /\ h2[u].index = k[u].index
                           => /\ \A m \in 1 .. Len(h2[u].nums) : h2[u].nums[m] < k[u].next
                              /\ h2[u].final => k[u].total <= k[u].next
    BY DEF HeardInOrder
  <2>1. CASE u # t
    BY <1>3, <2>1 DEF Flow, HeardInOrder
  <2>2. CASE u = t
    <3>1. f.index = k[t].index => f.num < k[t].next /\ (f.final => f.num = k[t].total - 1)
      BY <1>1 DEF Flow, Ordered, f, t
    <3>2. k[t].next \in Nat /\ k[t].total \in Nat
      BY <1>3 DEF Flow, Typed
    <3>3. ASSUME f.index = k[t].index, NEW m \in 1 .. Len(g.nums)
          PROVE  g.nums[m] < k[t].next
      <4>1. g.nums \in Seq(Nat)
        BY <1>2
      <4>2. g.nums[m] \in Nat /\ g.nums[m] <= f.num
        BY <1>2, <4>1
      <4> QED BY <1>3, <3>1, <3>2, <3>3, <4>2
    <3>4. f.index = k[t].index /\ f.final => k[t].total <= k[t].next
      BY <1>3, <3>1, <3>2
    <3> QED BY <1>2, <1>3, <2>2, <3>3, <3>4
  <2> QED BY <2>1, <2>2
<1>7. ASSUME NEW u \in Tasks, NEW r, Closed(w, h, l, u, r), u = t => r # h[t].index \/ ~h[t].final
      PROVE  Closed(w2, h2, l, u, r)
  <2>1. CASE r \in l[u]
    BY <2>1 DEF Closed
  <2>2. CASE h[u].index = r /\ h[u].final
    BY <1>3, <1>7, <2>2 DEF Closed
  <2>3. ASSUME NEW j \in 1 .. Len(w), w[j].task = u, w[j].index = r, w[j].final
        PROVE  Closed(w2, h2, l, u, r)
    <3>1. CASE j = 1
      <4>1. u = t /\ f.index = r /\ f.final
        BY <2>3, <3>1 DEF f, t
      <4> QED BY <1>2, <1>3, <4>1 DEF Closed
    <3>2. CASE j # 1
      <4>1. j - 1 \in 1 .. Len(w2) /\ w2[j - 1] = w[j]
        BY <1>1, <3>2
      <4> QED BY <2>3, <4>1 DEF Closed
    <3> QED BY <3>1, <3>2
  <2>4. \/ r \in l[u]
        \/ h[u].index = r /\ h[u].final
        \/ \E j \in 1 .. Len(w) : w[j].task = u /\ w[j].index = r /\ w[j].final
    BY <1>7, Zenon DEF Closed
  <2> QED BY <2>1, <2>2, <2>3, <2>4
<1>8. FollowsHeard(h[t], f)
  BY <1>1 DEF Flow, Ordered, f, t
<1>9. /\ h[t].index \in Nat \cup {NoIndex} /\ k[t].index \in Nat \cup {NoIndex}
      /\ h[t].index <= k[t].index
  BY <1>3 DEF Flow, Typed, HeardInOrder
<1>10. ASSUME NEW i \in 1 .. Len(w2)
       PROVE  w2[i].index = k[w2[i].task].index \/ Closed(w2, h2, l, w2[i].task, w2[i].index)
  <2>1. w2[i] = w[i + 1] /\ i + 1 \in 1 .. Len(w) /\ w2[i] \in Frames
    BY <1>1
  <2>2. w2[i].index = k[w2[i].task].index \/ Closed(w, h, l, w2[i].task, w2[i].index)
    BY <2>1 DEF Flow, Closing
  <2>3. FollowsHeard(h[w2[i].task], w2[i])
    BY <2>1 DEF Flow, Ordered
  <2>4. w2[i].task = t => w2[i].index # h[t].index \/ ~h[t].final
    <3>1. w2[i].index \in Nat
      BY <2>1 DEF Frames
    <3> QED BY <1>9, <2>3, <3>1 DEF FollowsHeard, NoIndex
  <2>5. w2[i].task \in Tasks
    BY <2>1 DEF Frames
  <2> QED BY <1>7, <2>2, <2>4, <2>5
<1>11. ASSUME NEW u \in Tasks
       PROVE  /\ h2[u] = Silence \/ h2[u].index = k[u].index \/ Closed(w2, h2, l, u, h2[u].index)
              /\ 0 < k[u].total /\ k[u].total <= k[u].next
                   => Closed(w2, h2, l, u, k[u].index)
  <2>1. CASE u # t
    BY <1>3, <1>7, <2>1 DEF Flow, Closing
  <2>2. CASE u = t
    <3>1. f.index = k[t].index \/ Closed(w, h, l, t, f.index)
      BY <1>1 DEF Flow, Closing, f, t
    <3>2. f.index = k[t].index \/ Closed(w2, h2, l, t, f.index)
      BY <1>2, <1>3, <1>7, <3>1
    <3>3. k[t].index # h[t].index \/ ~h[t].final
      BY <1>2, <1>3, <1>8, <1>9 DEF FollowsHeard, NoIndex
    <3>4. 0 < k[t].total /\ k[t].total <= k[t].next => Closed(w, h, l, t, k[t].index)
      BY <1>3 DEF Flow, Closing
    <3> QED BY <1>2, <1>3, <1>7, <2>2, <3>2, <3>3, <3>4
  <2> QED BY <2>1, <2>2
<1> QED BY <1>4, <1>5, <1>6, <1>10, <1>11 DEF Flow, Closing

----------------------------------------------------------------------------
(* The metronome leaves no number out.                                      *)

\* Before number n of round r, at place i of localWaifCh, comes number n - 1: the last one
\* heard, or one that was pushed before.
Preceded(w, h, t, r, n, i) ==
  \/ n = 0
  \/ h[t].index = r /\ Len(h[t].nums) = n
  \/ \E j \in 1 .. Len(w) : j < i /\ w[j].task = t /\ w[j].index = r /\ w[j].num = n - 1

\* A round of which nothing is lost has no gap.
Unbroken(w, k, h, l, t) ==
  /\ \A i \in 1 .. Len(w) :
       w[i].task = t /\ w[i].index \notin l[t]
         => Preceded(w, h, t, w[i].index, w[i].num, i)
  /\ k[t].index \notin l[t]
       => Preceded(w, h, t, k[t].index, k[t].next, Len(w) + 1)
  /\ h[t].index \notin l[t]
       => \A n \in 1 .. Len(h[t].nums) : h[t].nums[n] = n - 1

LEMMA PushUnbroken ==
  ASSUME NEW w, NEW k, NEW h, NEW l, NEW w2, NEW k2, NEW l2, NEW f \in Frames,
         Flow(w, k, h, l), NEW t \in Tasks, Unbroken(w, k, h, l, t),
         Pushed(w, w2, l, l2, f), k2[t].index = k[t].index,
         \/ f.task # t /\ k2[t].next = k[t].next
         \/ f.task = t /\ f.index = k[t].index /\ f.num = k[t].next /\ k2[t].next = f.num + 1
  PROVE  Unbroken(w2, k2, h, l2, t)
<1>1. /\ Len(w) \in Nat /\ Len(w2) \in Nat
      /\ \A i \in 1 .. Len(w) : i \in 1 .. Len(w2) /\ w2[i] = w[i] /\ i < Len(w) + 1
      /\ k[t].next \in Nat
      /\ l[t] \subseteq l2[t]
  BY DEF Flow, Typed, Pushed
<1>2. (Len(w2) = Len(w) + 1 /\ w2[Len(w2)] = f) \/ (Len(w2) = Len(w) /\ f.index \in l2[f.task])
  BY DEF Pushed
<1>3. ASSUME NEW r, NEW n, NEW i, Preceded(w, h, t, r, n, i)
      PROVE  Preceded(w2, h, t, r, n, i)
  BY <1>1, <1>3 DEF Preceded
<1>4. ASSUME NEW r, NEW n, Preceded(w, h, t, r, n, Len(w) + 1)
      PROVE  Preceded(w2, h, t, r, n, Len(w2) + 1)
  <2>1. \A j \in 1 .. Len(w) : j < Len(w) + 1 => j < Len(w2) + 1
    BY <1>1, <1>2
  <2> QED BY <1>1, <1>4, <2>1 DEF Preceded
<1>5. ASSUME NEW i \in 1 .. Len(w2), w2[i].task = t, w2[i].index \notin l2[t]
      PROVE  Preceded(w2, h, t, w2[i].index, w2[i].num, i)
  <2>1. CASE i \in 1 .. Len(w)
    <3>1. Preceded(w, h, t, w[i].index, w[i].num, i)
      BY <1>1, <1>5, <2>1 DEF Unbroken
    <3> QED BY <1>1, <1>3, <2>1, <3>1
  <2>2. CASE i \notin 1 .. Len(w)
    <3>1. i = Len(w) + 1 /\ w2[i] = f
      BY <1>1, <1>2, <2>2
    <3>2. Preceded(w, h, t, k[t].index, k[t].next, Len(w) + 1)
      BY <1>1, <1>5, <3>1 DEF Unbroken
    <3> QED BY <1>3, <1>5, <3>1, <3>2
  <2> QED BY <2>1, <2>2
<1>6. ASSUME k2[t].index \notin l2[t]
      PROVE  Preceded(w2, h, t, k2[t].index, k2[t].next, Len(w2) + 1)
  <2>1. CASE f.task # t
    <3>1. Preceded(w, h, t, k[t].index, k[t].next, Len(w) + 1)
      BY <1>1, <1>6 DEF Unbroken
    <3> QED BY <1>4, <2>1, <3>1
  <2>2. CASE f.task = t
    <3>1. /\ Len(w2) = Len(w) + 1 /\ w2[Len(w2)] = f /\ f.index = k2[t].index
          /\ k2[t].next = f.num + 1 /\ f.num \in Nat
      BY <1>2, <1>6, <2>2 DEF Frames
    <3>2. Len(w2) \in 1 .. Len(w2) /\ Len(w2) < Len(w2) + 1 /\ f.num = k2[t].next - 1
      BY <1>1, <3>1
    <3> QED BY <2>2, <3>1, <3>2 DEF Preceded
  <2> QED BY <2>1, <2>2
<1> QED BY <1>1, <1>5, <1>6 DEF Unbroken

LEMMA HearUnbroken ==
  ASSUME NEW w, NEW k, NEW h, NEW l, NEW w2, NEW h2, Flow(w, k, h, l), 1 <= Len(w),
         Heard(w, h, w2, h2), NEW t \in Tasks, Unbroken(w, k, h, l, t)
  PROVE  Unbroken(w2, k, h2, l, t)
<1> DEFINE f == w[1]
           g == Hearing(h[t], f)
<1>1. /\ w \in Seq(Frames) /\ w2 \in Seq(Frames) /\ Len(w) \in Nat /\ Len(w2) \in Nat
      /\ Len(w) = Len(w2) + 1 /\ 1 \in 1 .. Len(w)
      /\ \A i \in 1 .. Len(w) : w[i] \in Frames
      /\ \A i \in 1 .. Len(w2) : i + 1 \in 1 .. Len(w) /\ w2[i] = w[i + 1]
  BY DEF Flow, Typed, Heard
<1>2. \A i \in 1 .. Len(w) : i = 1 \/ (i - 1 \in 1 .. Len(w2) /\ w2[i - 1] = w[i])
  <2>1. ASSUME NEW i \in 1 .. Len(w), i # 1
        PROVE  i - 1 \in 1 .. Len(w2) /\ w2[i - 1] = w[i]
    <3>1. i - 1 \in 1 .. Len(w2) /\ (i - 1) + 1 = i
      BY <1>1, <2>1
    <3> QED BY <1>1, <3>1
  <2> QED BY <2>1
<1>3. f \in Frames /\ f.index \in Nat /\ f.num \in Nat
  BY <1>1 DEF Frames
<1>4. /\ h[t].index \in Nat \cup {NoIndex} /\ h[t].nums \in Seq(Nat) /\ Len(h[t].nums) \in Nat
      /\ \A n \in 1 .. Len(h[t].nums) : h[t].nums[n] \in Nat
  BY DEF Flow, Typed
\* What precedes something behind the oldest frame still does.
<1>5. ASSUME NEW r, NEW n \in Nat, NEW i \in Nat, Preceded(w, h, t, r, n, i + 1),
             f.task = t => /\ h[t].index = r /\ Len(h[t].nums) = n => FALSE
                           /\ f.index = r /\ f.num = n - 1
                                => h2[t].index = r /\ Len(h2[t].nums) = n
      PROVE  Preceded(w2, h2, t, r, n, i)
  <2>1. CASE n = 0
    BY <2>1 DEF Preceded
  <2>2. CASE h[t].index = r /\ Len(h[t].nums) = n
    BY <1>5, <2>2 DEF Preceded, Heard
  <2>3. ASSUME NEW j \in 1 .. Len(w), j < i + 1, w[j].task = t, w[j].index = r,
               w[j].num = n - 1
        PROVE  Preceded(w2, h2, t, r, n, i)
    <3>1. CASE j = 1
      BY <1>5, <2>3, <3>1 DEF Preceded
    <3>2. CASE j # 1
      <4>1. j - 1 \in 1 .. Len(w2) /\ w2[j - 1] = w[j] /\ j - 1 < i
        BY <1>2, <2>3, <3>2
      <4> QED BY <2>3, <4>1 DEF Preceded
    <3> QED BY <3>1, <3>2
  <2> QED BY <1>5, <2>1, <2>2, <2>3 DEF Preceded
\* The oldest frame of the task itself continues what was heard of its round.
<1>6. ASSUME f.task = t, f.index \notin l[t]
      PROVE  f.num = 0 \/ (h[t].index = f.index /\ Len(h[t].nums) = f.num)
  <2>1. Preceded(w, h, t, f.index, f.num, 1)
    BY <1>1, <1>6 DEF Unbroken
  <2>2. \A j \in 1 .. Len(w) : ~(j < 1)
    BY <1>1
  <2> QED BY <2>1, <2>2 DEF Preceded
<1>7. ASSUME f.task = t
      PROVE  /\ h2[t] = g /\ g.index = f.index /\ g.nums \in Seq(Nat)
             /\ \/ h[t].index = f.index /\ g.nums = Append(h[t].nums, f.num)
                \/ h[t].index < f.index /\ g.nums = <<f.num>>
  <2>1. LET o == h[f.task]
            e == Hearing(o, f)
        IN /\ e.index = f.index
           /\ e \in [index : Nat \cup {NoIndex}, nums : Seq(Nat), final : BOOLEAN]
           /\ \/ e.index = o.index /\ ~o.final /\ e.nums = Append(o.nums, f.num)
              \/ o.index < e.index /\ e.nums = <<f.num>>
    BY HearingIs
  <2>2. h2[t] = Hearing(h[t], f)
    BY <1>7 DEF Heard
  <2> QED BY <1>7, <2>1, <2>2
<1>8. ASSUME f.task = t, h[t].index = f.index
      PROVE  \A n \in 1 .. Len(h[t].nums) : h[t].nums[n] < f.num
  <2>1. FollowsHeard(h[t], f)
    BY <1>1, <1>8 DEF Flow, Ordered
  <2> QED BY <1>3, <1>8, <2>1 DEF FollowsHeard
\* So what is heard has as many numbers as there are up to the oldest frame's.
<1>9. ASSUME f.task = t, f.index \notin l[t]
      PROVE  Len(g.nums) = f.num + 1 /\ \A n \in 1 .. Len(g.nums) : g.nums[n] = n - 1
  <2>1. CASE h[t].index = f.index
    <3>1. g.nums = Append(h[t].nums, f.num)
      BY <1>3, <1>7, <1>9, <2>1
    <3>2. Len(h[t].nums) = f.num
      <4>1. CASE f.num = 0 /\ Len(h[t].nums) # 0
        <5>1. 1 \in 1 .. Len(h[t].nums)
          BY <1>4, <4>1
        <5> QED BY <1>4, <1>8, <1>9, <2>1, <4>1, <5>1
      <4> QED BY <1>6, <1>9, <4>1
    <3>3. \A n \in 1 .. Len(h[t].nums) : h[t].nums[n] = n - 1
      BY <1>9, <2>1 DEF Unbroken
    <3>4. /\ Len(g.nums) = f.num + 1 /\ g.nums[f.num + 1] = f.num
          /\ \A n \in 1 .. f.num : g.nums[n] = h[t].nums[n]
      BY <1>3, <1>4, <3>1, <3>2
    <3> HIDE DEF f, g
    <3>5. ASSUME NEW n \in 1 .. Len(g.nums) PROVE g.nums[n] = n - 1
      <4>1. n \in 1 .. f.num \/ n = f.num + 1
        BY <1>3, <3>4
      <4>2. CASE n \in 1 .. f.num
        BY <3>2, <3>3, <3>4, <4>2
      <4>3. CASE n = f.num + 1
        BY <1>3, <3>4, <4>3
      <4> QED BY <4>1, <4>2, <4>3
    <3> QED BY <3>4, <3>5
  <2>2. CASE h[t].index # f.index
    <3>1. f.num = 0 /\ g.nums = <<f.num>>
      BY <1>6, <1>7, <1>9, <2>2
    <3> HIDE DEF f, g
    <3> QED BY <3>1
  <2> QED BY <2>1, <2>2
\* Behind a frame of the task, nothing follows what was heard directly.
<1>10. ASSUME f.task = t, NEW r, NEW n \in Nat, r \notin l[t],
              f.index < r \/ (f.index = r /\ f.num < n),
              h[t].index = r, Len(h[t].nums) = n
       PROVE  FALSE
  <2>1. f.index = r /\ f.num < n
    BY <1>3, <1>4, <1>7, <1>10 DEF NoIndex
  <2>2. f.num = 0
    BY <1>3, <1>6, <1>10, <2>1
  <2>3. 1 \in 1 .. Len(h[t].nums)
    BY <1>3, <1>4, <1>10, <2>1
  <2>4. h[t].nums[1] < f.num /\ h[t].nums[1] \in Nat
    BY <1>4, <1>8, <1>10, <2>1, <2>3
  <2> QED BY <2>2, <2>4
<1> HIDE DEF f, g
<1>11. ASSUME NEW r, NEW n \in Nat, NEW i \in Nat, r \notin l[t],
              Preceded(w, h, t, r, n, i + 1),
              f.task = t => f.index < r \/ (f.index = r /\ f.num < n)
       PROVE  Preceded(w2, h2, t, r, n, i)
  <2>1. f.task = t => ~(h[t].index = r /\ Len(h[t].nums) = n)
    BY <1>10, <1>11
  <2>2. ASSUME f.task = t, f.index = r, f.num = n - 1
        PROVE  h2[t].index = r /\ Len(h2[t].nums) = n
    BY <1>3, <1>7, <1>9, <1>11, <2>2
  <2> QED BY <1>5, <1>11, <2>1, <2>2 DEF f
<1>12. ASSUME NEW i \in 1 .. Len(w2), w2[i].task = t, w2[i].index \notin l[t]
       PROVE  Preceded(w2, h2, t, w2[i].index, w2[i].num, i)
  <2>1. /\ i + 1 \in 1 .. Len(w) /\ w2[i] = w[i + 1] /\ i \in Nat /\ 1 < i + 1
        /\ w2[i].num \in Nat
    <3>1. i + 1 \in 1 .. Len(w) /\ w2[i] = w[i + 1] /\ i \in Nat /\ 1 < i + 1
      BY <1>1
    <3>2. w[i + 1] \in Frames
      BY <1>1, <3>1
    <3> QED BY <3>1, <3>2 DEF Frames
  <2>2. Preceded(w, h, t, w2[i].index, w2[i].num, i + 1)
    BY <1>12, <2>1 DEF Unbroken
  <2>3. f.task = t => f.index < w2[i].index \/ (f.index = w2[i].index /\ f.num < w2[i].num)
    <3>1. \A a, b \in 1 .. Len(w) : a < b /\ w[a].task = w[b].task => Follows(w[a], w[b])
      BY DEF Flow, Ordered
    <3>2. f.task = t => Follows(f, w2[i])
      BY <1>1, <1>12, <2>1, <3>1 DEF f
    <3> QED BY <3>2 DEF Follows
  <2> QED BY <1>11, <1>12, <2>1, <2>2, <2>3
<1>13. ASSUME k[t].index \notin l[t]
       PROVE  Preceded(w2, h2, t, k[t].index, k[t].next, Len(w2) + 1)
  <2>1. Preceded(w, h, t, k[t].index, k[t].next, (Len(w2) + 1) + 1)
    BY <1>1, <1>13 DEF Unbroken
  <2>2. f.task = t => f.index < k[t].index \/ (f.index = k[t].index /\ f.num < k[t].next)
    <3>1. f.task = t => /\ f.index <= k[t].index
                        /\ f.index = k[t].index => f.num < k[t].next
      BY <1>1 DEF Flow, Ordered, f
    <3>2. k[t].index \in Nat \cup {NoIndex}
      BY DEF Flow, Typed
    <3> QED BY <1>3, <3>1, <3>2 DEF NoIndex
  <2>3. k[t].next \in Nat /\ Len(w2) + 1 \in Nat
    BY <1>1 DEF Flow, Typed
  <2> QED BY <1>11, <1>13, <2>1, <2>2, <2>3
<1>14. ASSUME h2[t].index \notin l[t]
       PROVE  \A n \in 1 .. Len(h2[t].nums) : h2[t].nums[n] = n - 1
  <2>1. CASE f.task = t
    BY <1>7, <1>9, <1>14, <2>1
  <2>2. CASE f.task # t
    <3>1. h2[t] = h[t]
      BY <2>2 DEF Heard, f
    <3> QED BY <1>14, <3>1 DEF Unbroken
  <2> QED BY <2>1, <2>2
<1> QED BY <1>12, <1>13, <1>14 DEF Unbroken

\* A task that goes on has sent nothing of its new round, and the others are as they were.
LEMMA MoveUnbroken ==
  ASSUME NEW w, NEW k, NEW h, NEW l, NEW k2, NEW t, Unbroken(w, k, h, l, t),
         k2[t].next = 0 \/ k2[t] = k[t]
  PROVE  Unbroken(w, k2, h, l, t)
BY DEF Unbroken, Preceded

----------------------------------------------------------------------------
(* The steps of a task.                                                     *)

TaskOf ==
  [kind : Kinds, at : {"unused", "begin", "select", "pace", "flush", "ended"},
   cancelled : BOOLEAN, index : Nat \cup {NoIndex}, next : Nat, total : Nat]

\* It sends nothing and stays in its round.
Rests(t) ==
  /\ UNCHANGED <<inbox, waif, lost>>
  /\ task'[t].index = task[t].index /\ task'[t].next = task[t].next
  /\ task'[t].total = task[t].total

\* It sends the next frame of its round.
Sends(t) ==
  /\ task[t].next < task[t].total /\ sendWaif(Frame(t, task[t].next))
  /\ UNCHANGED inbox
  /\ task'[t].index = task[t].index /\ task'[t].next = task[t].next + 1
  /\ task'[t].total = task[t].total

\* It goes on to the round at the head of its channel, after the final frame of an
\* incomplete one.
GoesOn(t) ==
  /\ inbox[t] # <<>> /\ inbox' = [inbox EXCEPT ![t] = Tail(@)]
  /\ task'[t].index = Head(inbox[t]).index /\ task'[t].next = 0 /\ task'[t].total \in Nat
  /\ \/ /\ task[t].next = 0 \/ task[t].total <= task[t].next
        /\ SendsNothing
     \/ /\ task[t].kind # "metronome" /\ task[t].next < task[t].total
        /\ Encodes(Frame(t, task[t].total - 1))

LEMMA TaskSteps ==
  ASSUME SendersTypeOK, \A t \in Tasks : task[t].index = NoIndex => task[t].total = 0,
         NEW t \in Tasks, task[t].at = "flush" => inbox[t] # <<>>, TaskStep(t)
  PROVE  /\ UNCHANGED <<boundaryVars, heard>>
         /\ task' \in [Tasks -> TaskOf]
         /\ task[t].at # "unused" /\ task'[t].at # "unused"
         /\ task'[t].kind = task[t].kind
         /\ \A u \in Tasks \ {t} : task'[u] = task[u]
         /\ Rests(t) \/ Sends(t) \/ GoesOn(t)
         /\ task'[t].at = "flush" => inbox[t] # <<>> /\ inbox' = inbox
<1>1. task \in [Tasks -> TaskOf] /\ task[t] \in TaskOf
  BY DEF SendersTypeOK, TaskOf
<1>2. inbox[t] # <<>> => /\ Head(inbox[t]).index \in Nat /\ Head(inbox[t]).total \in Nat
  <2>1. inbox[t] \in Seq(Boundary) /\ \A b \in Bpis : FramesIn[b] \in Nat
    BY InAppAssumption DEF SendersTypeOK
  <2>2. inbox[t] # <<>> => Head(inbox[t]) \in Boundary
    BY <2>1
  <2> QED BY <2>1, <2>2 DEF Boundary
<1> USE DEF Rests, Sends, GoesOn, SendsNothing
<1>3. CASE Begin(t)
  BY <1>1, <1>3 DEF Begin, TaskOf, boundaryVars
<1>4. CASE End(t)
  BY <1>1, <1>4 DEF End, TaskOf, boundaryVars
<1>5. CASE NoBoundary(t)
  BY <1>1, <1>5 DEF NoBoundary, TaskOf, boundaryVars
<1>6. CASE MetronomeBoundary(t)
  BY <1>1, <1>6 DEF MetronomeBoundary, TaskOf, boundaryVars
<1>7. CASE Pace(t)
  <2>1. task[t].at = "pace" /\ UNCHANGED <<boundaryVars, inbox, heard>>
    BY <1>7 DEF Pace
  <2>2. CASE task' = [task EXCEPT ![t].at = "select"] /\ SendsNothing
    BY <1>1, <2>1, <2>2 DEF TaskOf, boundaryVars
  <2>3. CASE /\ task[t].next < task[t].total
             /\ sendWaif(Frame(t, task[t].next))
             /\ task' = [task EXCEPT ![t].at = "select", ![t].next = @ + 1]
    <3>1. task' \in [Tasks -> TaskOf]
      BY <1>1, <2>3 DEF TaskOf
    <3>2. /\ task'[t].at = "select" /\ task'[t].kind = task[t].kind
          /\ task'[t].index = task[t].index /\ task'[t].next = task[t].next + 1
          /\ task'[t].total = task[t].total
          /\ \A u \in Tasks \ {t} : task'[u] = task[u]
      BY <1>1, <2>3 DEF TaskOf
    <3> QED BY <2>1, <2>3, <3>1, <3>2 DEF boundaryVars
  <2> QED BY <1>7, <2>2, <2>3 DEF Pace
<1>8. CASE flushRemaining(t)
  <2>1. /\ task[t].at = "flush" /\ task[t].next < task[t].total
        /\ sendWaif(Frame(t, task[t].next)) /\ task' = [task EXCEPT ![t].next = @ + 1]
        /\ UNCHANGED <<boundaryVars, inbox, heard>>
    BY <1>8 DEF flushRemaining, Remaining, SendNext
  <2> QED BY <1>1, <2>1 DEF TaskOf, boundaryVars
<1>9. CASE Drip(t)
  BY <1>1, <1>9 DEF Drip, Remaining, SendNext, TaskOf, boundaryVars
<1>10. CASE TakeBoundary(t) /\ task[t].kind # "metronome"
  <2>1. /\ inbox[t] # <<>> /\ task[t].at = "select"
        /\ inbox' = [inbox EXCEPT ![t] = Tail(@)]
        /\ task' = [task EXCEPT ![t] = Started(t, Head(inbox[t]))]
        /\ IF Incomplete(t) THEN Encodes(Frame(t, task[t].total - 1)) ELSE SendsNothing
        /\ UNCHANGED <<boundaryVars, heard>>
    BY <1>10 DEF TakeBoundary
  <2> DEFINE b == Head(inbox[t])
  <2>2. /\ Started(t, b) \in TaskOf /\ Started(t, b).kind = task[t].kind
        /\ Started(t, b).index = b.index /\ Started(t, b).next = 0
        /\ Started(t, b).total \in Nat /\ Started(t, b).at = "pace"
    BY <1>1, <1>2, <2>1 DEF Started, TaskOf
  <2>3. Incomplete(t) => task[t].next < task[t].total
    BY DEF Incomplete
  <2>4. ~Incomplete(t) => task[t].next = 0 \/ task[t].total <= task[t].next
    BY <1>1 DEF Incomplete, TaskOf, NoIndex
  <2> HIDE DEF b
  <2> QED BY <1>1, <1>10, <2>1, <2>2, <2>3, <2>4 DEF boundaryVars, b
<1>11. CASE Render(t)
  <2>1. /\ inbox' = [inbox EXCEPT ![t] = Tail(@)] /\ task[t].at = "flush"
        /\ task[t].total <= task[t].next
        /\ UNCHANGED <<boundaryVars, waif, heard, lost>>
    BY <1>1, <1>11 DEF Render, Flushed, Remaining, TaskOf
  <2> DEFINE b == Head(inbox[t])
  <2>2. PICK ok \in BOOLEAN :
          task' = [task EXCEPT ![t] = [Started(t, b) EXCEPT !.at = "select",
                                                            !.total = IF ok THEN @ ELSE 0]]
    BY <1>11 DEF Render
  <2> DEFINE s == [Started(t, b) EXCEPT !.at = "select", !.total = IF ok THEN @ ELSE 0]
  <2>3. inbox[t] # <<>>
    BY <2>1
  <2>4. /\ s \in TaskOf /\ s.kind = task[t].kind /\ s.index = b.index /\ s.next = 0
        /\ s.total \in Nat /\ s.at = "select"
    BY <1>1, <1>2, <2>3 DEF Started, TaskOf
  <2> HIDE DEF b, s
  <2> QED BY <1>1, <2>1, <2>2, <2>3, <2>4 DEF boundaryVars, b, s
<1> QED
  BY <1>3, <1>4, <1>5, <1>6, <1>7, <1>8, <1>9, <1>10, <1>11
  DEF TaskStep, TestToneTask, WavSenderTask, MetronomeSenderTask

----------------------------------------------------------------------------
(* The invariant.                                                           *)

\* Boundaries wait in the order of their intervals, which lie behind the task's round
\* and no later than the session's; a sender is a task that was started.
BoundaryInv ==
  /\ \A k \in Kinds : sender[k] # NoTask => task[sender[k]].at # "unused"
  /\ \A t \in Tasks :
       /\ task[t].at = "flush" => inbox[t] # <<>>
       /\ task[t].index <= last
       /\ \A i \in 1 .. Len(inbox[t]) :
            task[t].index < inbox[t][i].index /\ inbox[t][i].index <= last
       /\ \A i, j \in 1 .. Len(inbox[t]) : i < j => inbox[t][i].index < inbox[t][j].index

UnbrokenInv ==
  \A t \in Tasks : task[t].kind = "metronome" => Unbroken(waif, task, heard, lost, t)

RoundsInv ==
  SendersTypeOK /\ BoundaryInv /\ Flow(waif, task, heard, lost) /\ UnbrokenInv

LEMMA FrameIs ==
  ASSUME RoundsInv, NEW t \in Tasks, NEW n \in Nat, task[t].next < task[t].total
  PROVE  /\ Frame(t, n) = [task |-> t, index |-> task[t].index, num |-> n,
                           final |-> n = task[t].total - 1]
         /\ Frame(t, n) \in Frames
<1>1. task[t].index \in Nat \cup {NoIndex} /\ task[t].next \in Nat /\ task[t].total \in Nat
  BY DEF RoundsInv, SendersTypeOK
<1>2. task[t].index \in Nat
  BY <1>1 DEF RoundsInv, Flow, Typed
<1> QED BY <1>2 DEF Frame, IsFinal, Frames

LEMMA SendPushes ==
  ASSUME SendersTypeOK, NEW f \in Frames, sendWaif(f) \/ Encodes(f)
  PROVE  /\ Pushed(waif, waif', lost, lost', f)
         /\ waif' \in Seq(Frames) /\ lost' \in [Tasks -> SUBSET Nat]
<1>1. waif \in Seq(Frames) /\ lost \in [Tasks -> SUBSET Nat]
  BY DEF SendersTypeOK
<1>2. f.task \in Tasks /\ f.index \in Nat
  BY DEF Frames
<1>3. CASE waif' = Append(waif, f) /\ UNCHANGED lost
  BY <1>1, <1>3 DEF Pushed
<1>4. CASE lost' = [lost EXCEPT ![f.task] = @ \cup {f.index}] /\ UNCHANGED waif
  BY <1>1, <1>2, <1>4 DEF Pushed
<1> QED BY <1>3, <1>4 DEF sendWaif, Encodes

\* A step that leaves every task in its round.
LEMMA SameFlow ==
  ASSUME NEW w, NEW k, NEW h, NEW l, NEW k2, Flow(w, k, h, l),
         w \in Seq(Frames),
         \A t \in Tasks : /\ k2[t].index = k[t].index /\ k2[t].next = k[t].next
                          /\ k2[t].total = k[t].total
  PROVE  Flow(w, k2, h, l)
<1>1. \A i \in 1 .. Len(w) : w[i].task \in Tasks
  <2>1. \A i \in 1 .. Len(w) : w[i] \in Frames
    OBVIOUS
  <2> QED BY <2>1 DEF Frames
<1>2. Typed(w, k2, h, l)
  BY DEF Flow, Typed
<1>3. Ordered(w, k2, h)
  BY <1>1 DEF Flow, Ordered
<1>4. HeardInOrder(k2, h)
  BY DEF Flow, HeardInOrder
<1>5. Closing(w, k2, h, l)
  BY <1>1 DEF Flow, Closing
<1> QED BY <1>2, <1>3, <1>4, <1>5 DEF Flow

LEMMA SameUnbroken ==
  ASSUME NEW w, NEW k, NEW h, NEW l, NEW k2, NEW t, Unbroken(w, k, h, l, t),
         k2[t].index = k[t].index, k2[t].next = k[t].next
  PROVE  Unbroken(w, k2, h, l, t)
BY DEF Unbroken, Preceded

LEMMA TaskFlow ==
  ASSUME RoundsInv, NEW t \in Tasks, TaskStep(t)
  PROVE  Flow(waif, task, heard, lost)' /\ UnbrokenInv'
<1>1. /\ UNCHANGED <<boundaryVars, heard>>
      /\ task' \in [Tasks -> TaskOf]
      /\ task'[t].kind = task[t].kind
      /\ \A u \in Tasks \ {t} : task'[u] = task[u]
      /\ Rests(t) \/ Sends(t) \/ GoesOn(t)
  BY TaskSteps DEF RoundsInv, BoundaryInv, Flow, Typed
<1>2. /\ Flow(waif, task, heard, lost) /\ SendersTypeOK /\ waif \in Seq(Frames)
      /\ task[t].index \in Nat \cup {NoIndex} /\ task[t].next \in Nat /\ task[t].total \in Nat
  BY DEF RoundsInv, SendersTypeOK
<1>3. \A u \in Tasks : task'[u].kind = "metronome" => Unbroken(waif, task, heard, lost, u)
  BY <1>1 DEF RoundsInv, UnbrokenInv
<1> SUFFICES /\ Flow(waif', task', heard, lost')
             /\ \A u \in Tasks : task'[u].kind = "metronome"
                                   => Unbroken(waif', task', heard, lost', u)
  BY <1>1 DEF UnbrokenInv
<1>4. CASE Rests(t)
  <2>1. \A u \in Tasks : /\ task'[u].index = task[u].index /\ task'[u].next = task[u].next
                         /\ task'[u].total = task[u].total
    BY <1>1, <1>4 DEF Rests
  <2>2. Flow(waif, task', heard, lost)
    BY <1>2, <2>1, SameFlow
  <2>3. \A u \in Tasks : task'[u].kind = "metronome" => Unbroken(waif, task', heard, lost, u)
    BY <1>3, <2>1, SameUnbroken
  <2> QED BY <1>4, <2>2, <2>3 DEF Rests
<1>5. CASE Sends(t)
  <2> DEFINE f == Frame(t, task[t].next)
  <2>1. /\ f = [task |-> t, index |-> task[t].index, num |-> task[t].next,
                final |-> task[t].next = task[t].total - 1]
        /\ f \in Frames
    BY <1>2, <1>5, FrameIs DEF Sends
  <2>2. Pushed(waif, waif', lost, lost', f)
    BY <1>2, <1>5, <2>1, SendPushes DEF Sends
  <2>3. /\ task[t].next < task[t].total
        /\ task'[t].index = task[t].index /\ task'[t].total = task[t].total
        /\ task'[t].next = task[t].next + 1
    BY <1>5 DEF Sends
  <2>4. Flow(waif', task', heard, lost')
    <3> HIDE DEF f
    <3>1. Pushed(waif, waif', lost, lost',
                 [task |-> t, index |-> task[t].index, num |-> task[t].next,
                  final |-> task[t].next = task[t].total - 1])
      BY <2>1, <2>2
    <3>2. task[t].next <= task[t].next
      BY <1>2
    <3> QED BY <1>1, <1>2, <2>3, <3>1, <3>2, PushFlow
  <2>5. f.task = t /\ f.index = task[t].index /\ f.num = task[t].next
    BY <2>1
  <2> HIDE DEF f
  <2>6. ASSUME NEW u \in Tasks, task'[u].kind = "metronome"
        PROVE  Unbroken(waif', task', heard, lost', u)
    <3>1. task'[u].index = task[u].index
      BY <1>1, <2>3
    <3>2. \/ f.task # u /\ task'[u].next = task[u].next
          \/ f.task = u /\ f.index = task[u].index /\ f.num = task[u].next
               /\ task'[u].next = f.num + 1
      BY <1>1, <2>3, <2>5
    <3> QED BY <1>2, <1>3, <2>1, <2>2, <2>6, <3>1, <3>2, PushUnbroken
  <2> QED BY <2>4, <2>6
<1>6. CASE GoesOn(t)
  <2>1. /\ task'[t].index \in Nat /\ task[t].index < task'[t].index
        /\ task'[t].next = 0 /\ task'[t].total \in Nat
    <3>1. inbox[t] \in Seq(Boundary) /\ inbox[t] # <<>>
      BY <1>6 DEF GoesOn, RoundsInv, SendersTypeOK
    <3>2. Head(inbox[t]) = inbox[t][1] /\ 1 \in 1 .. Len(inbox[t]) /\ inbox[t][1] \in Boundary
      BY <3>1
    <3> QED BY <1>6, <3>2 DEF GoesOn, RoundsInv, BoundaryInv, Boundary
  <2>2. CASE (task[t].next = 0 \/ task[t].total <= task[t].next) /\ SendsNothing
    <3>1. Flow(waif, task', heard, lost)
      BY <1>1, <1>2, <2>1, <2>2, MoveFlow
    <3>2. \A u \in Tasks : task'[u].next = 0 \/ task'[u] = task[u]
      BY <1>1, <2>1
    <3>3. \A u \in Tasks : task'[u].kind = "metronome" => Unbroken(waif, task', heard, lost, u)
      BY <1>3, <3>2, MoveUnbroken
    <3> QED BY <2>2, <3>1, <3>3 DEF SendsNothing
  <2>3. CASE /\ task[t].kind # "metronome" /\ task[t].next < task[t].total
             /\ Encodes(Frame(t, task[t].total - 1))
    <3> DEFINE n == task[t].total - 1
               f == Frame(t, n)
               k == [task EXCEPT ![t].next = n + 1]
    <3>1. n \in Nat /\ task[t].next <= n /\ n < task[t].total /\ n + 1 = task[t].total
      BY <1>2, <2>3
    <3> HIDE DEF n
    <3>2. /\ f = [task |-> t, index |-> task[t].index, num |-> n,
                  final |-> n = task[t].total - 1]
          /\ f \in Frames
      BY <2>3, <3>1, FrameIs
    <3>3. Pushed(waif, waif', lost, lost', f)
      BY <1>2, <2>3, <3>2, SendPushes DEF n
    <3>4. /\ k[t].index = task[t].index /\ k[t].total = task[t].total /\ k[t].next = n + 1
          /\ \A u \in Tasks \ {t} : k[u] = task[u]
      BY DEF RoundsInv, SendersTypeOK
    <3>5. /\ Pushed(waif, waif', lost, lost',
                    [task |-> t, index |-> task[t].index, num |-> n,
                     final |-> n = task[t].total - 1])
          /\ f.task = t
      BY <3>2, <3>3
    <3> HIDE DEF f, k
    <3>6. Flow(waif', k, heard, lost')
      BY <1>2, <3>1, <3>4, <3>5, PushFlow
    <3>7. Flow(waif', task', heard, lost')
      <4>1. k[t].total <= k[t].next /\ k[t].index < task'[t].index
            /\ \A u \in Tasks \ {t} : task'[u] = k[u]
        BY <1>1, <1>2, <2>1, <3>1, <3>4
      <4> QED BY <2>1, <3>6, <4>1, MoveFlow
    <3>8. ASSUME NEW u \in Tasks, task'[u].kind = "metronome"
          PROVE  Unbroken(waif', task', heard, lost', u)
      <4>1. u # t
        BY <1>1, <2>3, <3>8
      <4>2. task'[u] = task[u] /\ f.task # u
        BY <1>1, <3>5, <4>1
      <4> QED BY <1>2, <1>3, <3>2, <3>3, <3>8, <4>2, PushUnbroken
    <3> QED BY <3>7, <3>8
  <2> QED BY <1>6, <2>2, <2>3 DEF GoesOn
<1> QED BY <1>1, <1>4, <1>5, <1>6

\* Forward hands the oldest frame on.
LEMMA ForwardHears ==
  ASSUME SendersTypeOK, Forward
  PROVE  /\ 1 <= Len(waif) /\ waif[1] \in Frames
         /\ Heard(waif, heard, waif', heard')
         /\ heard' = [heard EXCEPT ![waif[1].task] = Hearing(@, waif[1])]
<1>1. waif \in Seq(Frames) /\ waif # <<>> /\ waif' = Tail(waif)
  BY DEF SendersTypeOK, Forward
<1>2. /\ Len(waif) \in Nat /\ 1 <= Len(waif) /\ Head(waif) = waif[1] /\ waif[1] \in Frames
      /\ waif' \in Seq(Frames) /\ Len(waif) = Len(waif') + 1
      /\ \A i \in 1 .. Len(waif') : waif'[i] = waif[i + 1]
  BY <1>1
<1>3. heard' = [heard EXCEPT ![waif[1].task] = Hearing(@, waif[1])]
  BY <1>2 DEF Forward
<1>4. waif[1].task \in Tasks /\ heard = [t \in Tasks |-> heard[t]]
  BY <1>2 DEF Frames, SendersTypeOK
<1>5. \A t \in Tasks : heard'[t] = IF t = waif[1].task THEN Hearing(heard[t], waif[1])
                                   ELSE heard[t]
  BY <1>3, <1>4
<1> QED BY <1>2, <1>3, <1>5 DEF Heard

\* A command lets the sender's task go and starts one that was not started before.
LEMMA SetSenderIs ==
  ASSUME SendersTypeOK, BoundaryInv, NEW k \in Kinds, NEW start \in BOOLEAN, SetSender(k, start)
  PROVE  /\ task' \in [Tasks -> TaskOf]
         /\ sender' \in [Kinds -> Tasks \cup {NoTask}]
         /\ UNCHANGED <<beat, bpi, last, inbox, waif, heard, lost>>
         /\ \A t \in Tasks :
              \/ /\ task[t] = Unused /\ task'[t] = NewTask(k)
                 /\ sender' = [sender EXCEPT ![k] = t]
              \/ /\ task'[t].kind = task[t].kind /\ task'[t].at = task[t].at
                 /\ task'[t].index = task[t].index /\ task'[t].next = task[t].next
                 /\ task'[t].total = task[t].total
                 /\ task[t].at = "unused" => task'[t] = task[t]
         /\ \A j \in Kinds : sender'[j] # NoTask =>
              \/ sender'[j] = sender[j]
              \/ sender'[j] \in Tasks /\ task'[sender'[j]] = NewTask(k)
<1> DEFINE c == Cancelled(k)
           TaskIs(t) == /\ task'[t].kind = task[t].kind /\ task'[t].at = task[t].at
                        /\ task'[t].index = task[t].index /\ task'[t].next = task[t].next
                        /\ task'[t].total = task[t].total
                        /\ task[t].at = "unused" => task'[t] = task[t]
<1>1. task \in [Tasks -> TaskOf] /\ sender \in [Kinds -> Tasks \cup {NoTask}]
  BY DEF SendersTypeOK, TaskOf
<1>2. NoTask \notin Tasks
  BY InAppAssumption DEF NoTask, Tasks
<1>3. /\ c \in [Tasks -> TaskOf]
      /\ \A t \in Tasks :
           /\ c[t].kind = task[t].kind /\ c[t].at = task[t].at /\ c[t].index = task[t].index
           /\ c[t].next = task[t].next /\ c[t].total = task[t].total
           /\ task[t].at = "unused" => c[t] = task[t]
  <2>1. ASSUME NEW t \in Tasks, task[t].at = "unused" PROVE t # sender[k]
    BY <1>2, <2>1 DEF BoundaryInv
  <2> QED BY <1>1, <2>1 DEF Cancelled, TaskOf
<1>4. NewTask(k) \in TaskOf
  BY DEF NewTask, TaskOf, Kinds
<1> HIDE DEF c
<1>5. CASE start
  <2>1. PICK u \in Fresh : sender' = [sender EXCEPT ![k] = u] /\ task' = [c EXCEPT ![u] = NewTask(k)]
    BY <1>5 DEF SetSender, c
  <2>2. u \in Tasks /\ task[u] = Unused
    BY DEF Fresh
  <2>3. /\ task' \in [Tasks -> TaskOf] /\ task'[u] = NewTask(k)
        /\ \A t \in Tasks \ {u} : task'[t] = c[t]
    BY <1>3, <1>4, <2>1, <2>2
  <2>4. /\ sender' \in [Kinds -> Tasks \cup {NoTask}] /\ sender'[k] = u
        /\ \A j \in Kinds \ {k} : sender'[j] = sender[j]
    BY <1>1, <2>1, <2>2
  <2>5. \A t \in Tasks : (t = u /\ task[t] = Unused /\ task'[t] = NewTask(k)) \/ TaskIs(t)
    BY <1>3, <2>2, <2>3
  <2> QED BY <2>1, <2>2, <2>3, <2>4, <2>5 DEF SetSender
<1>6. CASE ~start
  <2>1. sender' = [sender EXCEPT ![k] = NoTask] /\ task' = c
    BY <1>6 DEF SetSender, c
  <2>2. /\ sender' \in [Kinds -> Tasks \cup {NoTask}]
        /\ \A j \in Kinds : sender'[j] = sender[j] \/ sender'[j] = NoTask
    BY <1>1, <2>1
  <2>3. \A t \in Tasks : TaskIs(t)
    BY <1>3, <2>1
  <2> QED BY <1>3, <2>1, <2>2, <2>3 DEF SetSender
<1> QED BY <1>5, <1>6

LEMMA SessionFlow ==
  ASSUME RoundsInv,
         \/ LinkEvent \/ ChangeInterval \/ Forward \/ UNCHANGED senderVars
         \/ \E k \in Kinds, start \in BOOLEAN : SetSender(k, start)
  PROVE  Flow(waif, task, heard, lost)' /\ UnbrokenInv'
<1>1. /\ Flow(waif, task, heard, lost) /\ SendersTypeOK /\ waif \in Seq(Frames)
  BY DEF RoundsInv, SendersTypeOK
<1>2. CASE LinkEvent \/ ChangeInterval \/ UNCHANGED senderVars
  <2>1. UNCHANGED <<task, waif, heard, lost>>
    BY <1>2 DEF LinkEvent, ChangeInterval, senderVars
  <2> QED BY <1>1, <2>1 DEF RoundsInv, UnbrokenInv
<1>3. CASE Forward
  <2>1. /\ 1 <= Len(waif) /\ Heard(waif, heard, waif', heard')
        /\ UNCHANGED <<task, lost>>
    BY <1>1, <1>3, ForwardHears DEF Forward
  <2>2. Flow(waif', task, heard', lost)
    BY <1>1, <2>1, HearFlow
  <2>3. \A t \in Tasks : task[t].kind = "metronome" => Unbroken(waif', task, heard', lost, t)
    BY <1>1, <2>1, HearUnbroken DEF RoundsInv, UnbrokenInv
  <2> QED BY <2>1, <2>2, <2>3 DEF UnbrokenInv
<1>4. ASSUME NEW k \in Kinds, NEW start \in BOOLEAN, SetSender(k, start)
      PROVE  Flow(waif, task, heard, lost)' /\ UnbrokenInv'
  <2>1. /\ UNCHANGED <<waif, heard, lost>>
        /\ \A t \in Tasks :
             \/ task[t] = Unused /\ task'[t] = NewTask(k)
             \/ /\ task'[t].kind = task[t].kind
                /\ task'[t].index = task[t].index /\ task'[t].next = task[t].next
                /\ task'[t].total = task[t].total
    BY <1>1, <1>4, SetSenderIs DEF RoundsInv
  <2>2. /\ Unused.index = NoIndex /\ Unused.next = 0 /\ Unused.total = 0
        /\ NewTask(k).index = NoIndex /\ NewTask(k).next = 0 /\ NewTask(k).total = 0
    BY DEF Unused, NewTask
  <2>3. \A t \in Tasks : /\ task'[t].index = task[t].index /\ task'[t].next = task[t].next
                         /\ task'[t].total = task[t].total
    BY <2>1, <2>2
  <2>4. Flow(waif, task', heard, lost)
    BY <1>1, <2>3, SameFlow
  <2>5. ASSUME NEW t \in Tasks, task'[t].kind = "metronome"
        PROVE  Unbroken(waif, task', heard, lost, t)
    <3>1. CASE task'[t].kind = task[t].kind
      BY <2>3, <2>5, <3>1, SameUnbroken DEF RoundsInv, UnbrokenInv
    <3>2. CASE task[t] = Unused
      <4>1. task[t].index = NoIndex /\ task'[t].next = 0
        BY <2>2, <2>3, <3>2
      <4>2. ASSUME NEW i \in 1 .. Len(waif), waif[i].task = t PROVE FALSE
        <5>1. waif[i] \in Frames
          BY <1>1
        <5>2. waif[i].index \in Nat /\ waif[i].index <= NoIndex
          BY <1>1, <4>1, <4>2, <5>1 DEF Flow, Ordered, Frames
        <5> QED BY <5>2 DEF NoIndex
      <4>3. heard[t] = Silence
        <5>1. heard[t].index \in Nat \cup {NoIndex} /\ heard[t].index <= NoIndex
          BY <1>1, <4>1 DEF Flow, Typed, HeardInOrder
        <5> QED BY <1>1, <5>1 DEF Flow, Typed, NoIndex
      <4>4. heard[t].nums = <<>>
        BY <4>3 DEF Silence
      <4> QED BY <4>1, <4>2, <4>4 DEF Unbroken, Preceded
    <3> QED BY <2>1, <3>1, <3>2
  <2> QED BY <2>1, <2>4, <2>5 DEF UnbrokenInv
<1> QED BY <1>2, <1>3, <1>4

\* Every kind of step keeps the types of what it changes.
LEMMA TaskTypes ==
  ASSUME RoundsInv, NEW t \in Tasks, TaskStep(t)
  PROVE  SendersTypeOK' /\ BoundaryInv'
<1>1. /\ UNCHANGED <<boundaryVars, heard>>
      /\ task' \in [Tasks -> TaskOf]
      /\ task[t].at # "unused" /\ task'[t].at # "unused"
      /\ \A u \in Tasks \ {t} : task'[u] = task[u]
      /\ Rests(t) \/ Sends(t) \/ GoesOn(t)
      /\ task'[t].at = "flush" => inbox[t] # <<>> /\ inbox' = inbox
  BY TaskSteps DEF RoundsInv, BoundaryInv, Flow, Typed
<1>2. SendersTypeOK /\ BoundaryInv
  BY DEF RoundsInv
<1>3. inbox \in [Tasks -> Seq(Boundary)] /\ inbox[t] \in Seq(Boundary)
  BY <1>2 DEF SendersTypeOK
<1>4. /\ inbox' \in [Tasks -> Seq(Boundary)]
      /\ \A u \in Tasks \ {t} : inbox'[u] = inbox[u]
      /\ \/ inbox'[t] = inbox[t] /\ task'[t].index = task[t].index
         \/ /\ inbox[t] # <<>> /\ inbox'[t] = Tail(inbox[t])
            /\ task'[t].index = Head(inbox[t]).index
  <2>1. CASE Rests(t) \/ Sends(t)
    BY <1>3, <2>1 DEF Rests, Sends
  <2>2. CASE GoesOn(t)
    <3>1. Tail(inbox[t]) \in Seq(Boundary)
      BY <1>3, <2>2 DEF GoesOn
    <3> QED BY <1>3, <2>2, <3>1 DEF GoesOn
  <2> QED BY <1>1, <2>1, <2>2
<1>5. waif' \in Seq(Frames) /\ lost' \in [Tasks -> SUBSET Nat]
  <2>1. CASE UNCHANGED <<waif, lost>>
    BY <1>2, <2>1 DEF SendersTypeOK
  <2>2. ASSUME NEW n \in Nat, task[t].next < task[t].total,
               sendWaif(Frame(t, n)) \/ Encodes(Frame(t, n))
        PROVE  waif' \in Seq(Frames) /\ lost' \in [Tasks -> SUBSET Nat]
    <3>1. Frame(t, n) \in Frames
      BY <2>2, FrameIs
    <3> QED BY <1>2, <2>2, <3>1, SendPushes
  <2>3. task[t].next \in Nat /\ task[t].total \in Nat
    BY <1>2 DEF SendersTypeOK
  <2>4. CASE Sends(t)
    BY <2>2, <2>3, <2>4 DEF Sends
  <2>5. CASE task[t].next < task[t].total /\ Encodes(Frame(t, task[t].total - 1))
    <3>1. task[t].total - 1 \in Nat
      BY <2>3, <2>5
    <3> QED BY <2>2, <2>5, <3>1
  <2> QED BY <1>1, <2>1, <2>4, <2>5 DEF Rests, GoesOn, SendsNothing
<1>6. SendersTypeOK'
  <2>1. \A u \in Tasks : task'[u].at = "unused" => task'[u] = Unused /\ inbox'[u] = <<>>
    BY <1>1, <1>2, <1>4 DEF SendersTypeOK
  <2> QED BY <1>1, <1>2, <1>4, <1>5, <2>1 DEF SendersTypeOK, TaskOf, boundaryVars
<1>7. BoundaryInv'
  <2>1. \A k \in Kinds : sender'[k] # NoTask => task'[sender'[k]].at # "unused"
    <3>1. \A k \in Kinds : sender'[k] = sender[k]
      BY <1>1 DEF boundaryVars
    <3>2. \A k \in Kinds : sender[k] # NoTask => sender[k] \in Tasks
      BY <1>2 DEF SendersTypeOK
    <3> QED BY <1>1, <1>2, <3>1, <3>2 DEF BoundaryInv
  <2>2. ASSUME NEW u \in Tasks
        PROVE  /\ task'[u].at = "flush" => inbox'[u] # <<>>
               /\ task'[u].index <= last
               /\ \A i \in 1 .. Len(inbox'[u]) :
                    task'[u].index < inbox'[u][i].index /\ inbox'[u][i].index <= last
               /\ \A i, j \in 1 .. Len(inbox'[u]) :
                    i < j => inbox'[u][i].index < inbox'[u][j].index
    <3>1. CASE u # t
      BY <1>1, <1>2, <1>4, <3>1 DEF BoundaryInv
    <3>2. CASE u = t /\ inbox'[t] = inbox[t] /\ task'[t].index = task[t].index
      BY <1>1, <1>2, <3>2 DEF BoundaryInv
    <3>3. CASE /\ u = t /\ inbox[t] # <<>> /\ inbox'[t] = Tail(inbox[t])
               /\ task'[t].index = Head(inbox[t]).index
      <4> DEFINE q == inbox[t]
                 r == Tail(q)
      <4>1. /\ q \in Seq(Boundary) /\ 1 \in 1 .. Len(q) /\ Head(q) = q[1]
            /\ Len(r) \in Nat /\ Len(q) = Len(r) + 1
            /\ \A i \in 1 .. Len(r) : /\ r[i] = q[i + 1]
                                      /\ i + 1 \in 1 .. Len(q) /\ 1 < i + 1
        BY <1>3, <3>3
      <4>2. /\ \A i \in 1 .. Len(q) : q[i].index <= last
            /\ \A i, j \in 1 .. Len(q) : i < j => q[i].index < q[j].index
        BY <1>2 DEF BoundaryInv
      <4>3. task'[t].at # "flush"
        <5>1. r # q
          <6>1. Len(r) # Len(q)
            BY <4>1
          <6> QED BY <6>1
        <5> QED BY <1>1, <3>3, <5>1
      <4> HIDE DEF q, r
      <4>4. \A i, j \in 1 .. Len(r) : i < j => r[i].index < r[j].index
        <5> SUFFICES ASSUME NEW i \in 1 .. Len(r), NEW j \in 1 .. Len(r), i < j
                     PROVE  r[i].index < r[j].index
          OBVIOUS
        <5>1. i + 1 < j + 1
          BY <4>1
        <5> QED BY <4>1, <4>2, <5>1
      <4>5. inbox'[u] = r /\ task'[u].index = q[1].index
        BY <3>3, <4>1 DEF q, r
      <4>6. q[1].index <= last /\ \A i \in 1 .. Len(r) : q[1].index < r[i].index /\ r[i].index <= last
        BY <4>1, <4>2
      <4> QED BY <3>3, <4>3, <4>4, <4>5, <4>6
    <3> QED BY <1>4, <3>1, <3>2, <3>3
  <2>3. last' = last
    BY <1>1 DEF boundaryVars
  <2> QED BY <2>1, <2>2, <2>3 DEF BoundaryInv
<1> QED BY <1>6, <1>7

\* The session's own steps: a new boundary lies behind the ones that wait.
LEMMA SessionTypes ==
  ASSUME RoundsInv,
         \/ LinkEvent \/ ChangeInterval \/ Forward \/ UNCHANGED senderVars
         \/ \E k \in Kinds, start \in BOOLEAN : SetSender(k, start)
  PROVE  SendersTypeOK' /\ BoundaryInv'
<1>1. SendersTypeOK /\ BoundaryInv
  BY DEF RoundsInv
<1>2. CASE LinkEvent
  <2>1. PICK b \in {beat, beat + 1} : beat' = b /\ handleBoundary(IndexAtBeat(b))
    BY <1>2 DEF LinkEvent
  <2>2. UNCHANGED <<bpi, sender, task, waif, heard, lost>>
    BY <1>2 DEF LinkEvent
  <2>3. /\ beat \in Nat /\ beat' \in Nat /\ bpi \in Bpis /\ bpi \in Nat \ {0}
        /\ last \in Nat \cup {NoIndex}
    BY <1>1, <2>1, InAppAssumption DEF SendersTypeOK
  <2> DEFINE n == IndexAtBeat(b)
             new == [index |-> n, total |-> FramesPerInterval]
  <2>4. n \in Nat
    BY <2>1, <2>3 DEF IndexAtBeat
  <2>5. new \in Boundary /\ new.index = n
    BY <2>3, <2>4 DEF Boundary, FramesPerInterval
  <2>6. CASE n <= last
    <3>1. UNCHANGED <<last, inbox>>
      BY <2>1, <2>6 DEF handleBoundary
    <3> QED BY <1>1, <2>2, <2>3, <3>1 DEF SendersTypeOK, BoundaryInv
  <2>7. CASE ~(n <= last)
    <3>1. last' = n /\ inbox' = Posted(new)
      BY <2>1, <2>7 DEF handleBoundary
    <3> HIDE DEF n, new
    <3>2. last < n /\ last' \in Nat
      BY <2>3, <2>4, <2>7, <3>1 DEF NoIndex
    <3>3. inbox \in [Tasks -> Seq(Boundary)]
      BY <1>1 DEF SendersTypeOK
    <3>4. /\ inbox' \in [Tasks -> Seq(Boundary)]
          /\ \A t \in Tasks :
               \/ inbox'[t] = inbox[t]
               \/ /\ inbox'[t] = Append(inbox[t], new)
                  /\ \E k \in Kinds : sender[k] = t
      BY <2>5, <3>1, <3>3 DEF Posted
    <3>5. \A t \in Tasks : (\E k \in Kinds : sender[k] = t) => task[t].at # "unused"
      <4>1. NoTask \notin Tasks
        BY InAppAssumption DEF NoTask, Tasks
      <4> QED BY <1>1, <4>1 DEF BoundaryInv
    <3>6. SendersTypeOK'
      BY <1>1, <2>2, <2>3, <3>2, <3>4, <3>5 DEF SendersTypeOK
    <3>7. ASSUME NEW t \in Tasks
          PROVE  /\ task[t].at = "flush" => inbox'[t] # <<>>
                 /\ task[t].index <= last'
                 /\ \A i \in 1 .. Len(inbox'[t]) :
                      task[t].index < inbox'[t][i].index /\ inbox'[t][i].index <= last'
                 /\ \A i, j \in 1 .. Len(inbox'[t]) :
                      i < j => inbox'[t][i].index < inbox'[t][j].index
      <4> DEFINE q == inbox[t]
                 r == inbox'[t]
                 x == task[t].index
      <4>1. /\ q \in Seq(Boundary) /\ Len(q) \in Nat /\ x \in Nat \cup {NoIndex}
            /\ \A i \in 1 .. Len(q) : q[i] \in Boundary
        BY <1>1, <3>3 DEF SendersTypeOK
      <4>2. /\ task[t].at = "flush" => q # <<>>
            /\ x <= last
            /\ \A i \in 1 .. Len(q) : x < q[i].index /\ q[i].index <= last
            /\ \A i, j \in 1 .. Len(q) : i < j => q[i].index < q[j].index
        BY <1>1 DEF BoundaryInv
      <4>3. \A i \in 1 .. Len(q) : q[i].index \in Nat
        BY <4>1 DEF Boundary
      <4>4. r = q \/ r = Append(q, new)
        BY <3>4
      <4> HIDE DEF q, r, x
      <4>5. x <= n /\ x < n
        BY <2>3, <2>4, <3>2, <4>1, <4>2 DEF NoIndex
      <4>6. \A i \in 1 .. Len(q) : q[i].index < n /\ q[i].index <= n
        <5> SUFFICES ASSUME NEW i \in 1 .. Len(q) PROVE q[i].index < n
          BY <2>4, <4>3
        <5>1. q[i].index <= last /\ q[i].index \in Nat
          BY <4>2, <4>3
        <5> QED BY <2>3, <2>4, <3>2, <5>1 DEF NoIndex
      <4>7. CASE r = q
        BY <3>1, <4>2, <4>5, <4>6, <4>7 DEF q, r, x
      <4>8. CASE r = Append(q, new)
        <5>1. /\ Len(r) = Len(q) + 1 /\ r[Len(q) + 1] = new
              /\ \A i \in 1 .. Len(q) : r[i] = q[i]
          BY <2>5, <4>1, <4>8
        <5>2. r # <<>>
          BY <4>1, <5>1
        <5>3. ASSUME NEW i \in 1 .. Len(r) PROVE x < r[i].index /\ r[i].index <= n
          <6>1. CASE i \in 1 .. Len(q)
            BY <4>2, <4>6, <5>1, <6>1
          <6>2. CASE i = Len(q) + 1
            BY <2>4, <2>5, <4>5, <5>1, <6>2
          <6> QED BY <4>1, <5>1, <6>1, <6>2
        <5>4. ASSUME NEW i \in 1 .. Len(r), NEW j \in 1 .. Len(r), i < j
              PROVE  r[i].index < r[j].index
          <6>1. i \in 1 .. Len(q)
            BY <4>1, <5>1, <5>4
          <6>2. CASE j \in 1 .. Len(q)
            BY <4>2, <5>1, <5>4, <6>1, <6>2
          <6>3. CASE j = Len(q) + 1
            BY <2>5, <4>6, <5>1, <6>1, <6>3
          <6> QED BY <4>1, <5>1, <6>2, <6>3
        <5> QED BY <3>1, <4>5, <5>2, <5>3, <5>4 DEF r, x
      <4> QED BY <4>4, <4>7, <4>8
    <3> QED BY <1>1, <2>2, <3>6, <3>7 DEF BoundaryInv
  <2> HIDE DEF n
  <2> QED BY <2>6, <2>7
<1>3. CASE ChangeInterval \/ UNCHANGED senderVars
  <2>1. /\ bpi' \in Bpis /\ UNCHANGED <<beat, last, sender, task, inbox, waif, heard, lost>>
    BY <1>1, <1>3 DEF ChangeInterval, senderVars, boundaryVars, SendersTypeOK
  <2> QED BY <1>1, <2>1 DEF SendersTypeOK, BoundaryInv
<1>4. CASE Forward
  <2>1. UNCHANGED <<beat, bpi, last, sender, task, inbox, lost>>
    BY <1>4 DEF Forward, boundaryVars
  <2>2. /\ waif[1] \in Frames /\ waif' \in Seq(Frames)
        /\ heard' = [heard EXCEPT ![waif[1].task] = Hearing(@, waif[1])]
    BY <1>1, <1>4, ForwardHears DEF Heard
  <2>3. \A t \in Tasks : heard[t] \in [index : Nat \cup {NoIndex}, nums : Seq(Nat), final : BOOLEAN]
    BY <1>1 DEF SendersTypeOK
  <2>4. /\ waif[1].task \in Tasks
        /\ Hearing(heard[waif[1].task], waif[1])
             \in [index : Nat \cup {NoIndex}, nums : Seq(Nat), final : BOOLEAN]
    <3> DEFINE f == waif[1]
               o == heard[f.task]
    <3>1. f.task \in Tasks /\ f.index \in Nat /\ f.num \in Nat /\ f.final \in BOOLEAN
      BY <2>2 DEF Frames
    <3>2. o \in [index : Nat \cup {NoIndex}, nums : Seq(Nat), final : BOOLEAN]
      BY <2>3, <3>1
    <3> HIDE DEF f, o
    <3>3. CASE f.index = o.index
      <4>1. Append(o.nums, f.num) \in Seq(Nat)
        BY <3>1, <3>2
      <4> QED BY <3>1, <3>2, <3>3, <4>1 DEF Hearing, f, o
    <3>4. CASE f.index # o.index
      <4>1. <<f.num>> \in Seq(Nat)
        BY <3>1
      <4> QED BY <3>1, <3>4, <4>1 DEF Hearing, f, o
    <3> QED BY <3>3, <3>4
  <2>5. heard' \in [Tasks -> [index : Nat \cup {NoIndex}, nums : Seq(Nat), final : BOOLEAN]]
    BY <1>1, <2>2, <2>4 DEF SendersTypeOK
  <2> QED BY <1>1, <2>1, <2>2, <2>5 DEF SendersTypeOK, BoundaryInv
<1>5. ASSUME NEW k \in Kinds, NEW start \in BOOLEAN, SetSender(k, start)
      PROVE  SendersTypeOK' /\ BoundaryInv'
  <2>1. /\ task' \in [Tasks -> TaskOf]
        /\ sender' \in [Kinds -> Tasks \cup {NoTask}]
        /\ UNCHANGED <<beat, bpi, last, inbox, waif, heard, lost>>
        /\ \A t \in Tasks :
             \/ task[t] = Unused /\ task'[t] = NewTask(k)
             \/ /\ task'[t].kind = task[t].kind /\ task'[t].at = task[t].at
                /\ task'[t].index = task[t].index
                /\ task[t].at = "unused" => task'[t] = task[t]
        /\ \A j \in Kinds : sender'[j] # NoTask =>
             \/ sender'[j] = sender[j]
             \/ sender'[j] \in Tasks /\ task'[sender'[j]] = NewTask(k)
    BY <1>1, <1>5, SetSenderIs
  <2>2. /\ NewTask(k).at = "begin" /\ NewTask(k).index = NoIndex /\ Unused.index = NoIndex
        /\ Unused.at = "unused"
    BY DEF NewTask, Unused
  <2>3. \A t \in Tasks : /\ task'[t].index = task[t].index
                         /\ task'[t].at = "unused" => task'[t] = task[t]
                         /\ task'[t].at = "flush" => task[t].at = "flush"
                         /\ task'[t].at = "unused" => task[t].at = "unused"
                         /\ task[t].at # "unused" => task'[t].at # "unused"
    BY <2>1, <2>2
  <2>4. SendersTypeOK'
    BY <1>1, <2>1, <2>3 DEF SendersTypeOK, TaskOf
  <2>5. \A j \in Kinds : sender'[j] # NoTask => task'[sender'[j]].at # "unused"
    <3>1. \A j \in Kinds : sender[j] # NoTask => sender[j] \in Tasks
      BY <1>1 DEF SendersTypeOK
    <3> QED BY <1>1, <2>1, <2>2, <2>3, <3>1 DEF BoundaryInv
  <2> QED BY <1>1, <2>1, <2>3, <2>4, <2>5 DEF BoundaryInv
<1> QED BY <1>2, <1>3, <1>4, <1>5

LEMMA RoundsInit == SendersInit => RoundsInv
<1> SUFFICES ASSUME SendersInit PROVE RoundsInv
  OBVIOUS
<1>1. /\ bpi \in Bpis /\ NoTask \in Nat /\ NoTask \notin Tasks
      /\ waif = <<>> /\ last = NoIndex /\ beat = 0
  BY InAppAssumption DEF SendersInit, NoTask, Tasks
<1>2. \A t \in Tasks : /\ task[t] = Unused /\ inbox[t] = <<>> /\ heard[t] = Silence
                       /\ lost[t] = {}
  BY DEF SendersInit
<1>3. /\ Unused \in TaskOf /\ Unused.at = "unused" /\ Unused.index = NoIndex
      /\ Unused.next = 0 /\ Unused.total = 0
  BY DEF Unused, NewTask, TaskOf, Kinds
<1>4. /\ Silence \in [index : Nat \cup {NoIndex}, nums : Seq(Nat), final : BOOLEAN]
      /\ Silence.index = NoIndex /\ Silence.nums = <<>> /\ ~Silence.final
  BY DEF Silence
<1>5. SendersTypeOK
  <2>1. task \in [Tasks -> TaskOf]
    BY <1>3 DEF SendersInit
  <2>2. heard \in [Tasks -> [index : Nat \cup {NoIndex}, nums : Seq(Nat), final : BOOLEAN]]
    BY <1>4 DEF SendersInit
  <2>3. sender \in [Kinds -> Tasks \cup {NoTask}] /\ inbox \in [Tasks -> Seq(Boundary)]
        /\ lost \in [Tasks -> SUBSET Nat]
    BY DEF SendersInit
  <2> QED BY <1>1, <1>2, <2>1, <2>2, <2>3 DEF SendersTypeOK, TaskOf
<1>6. BoundaryInv
  <2>1. \A k \in Kinds : sender[k] = NoTask
    BY DEF SendersInit
  <2> QED BY <1>1, <1>2, <1>3, <2>1 DEF BoundaryInv, NoIndex
<1>7. Flow(waif, task, heard, lost)
  <2>1. Typed(waif, task, heard, lost)
    BY <1>1, <1>2, <1>3, <1>4 DEF Typed
  <2>2. Ordered(waif, task, heard)
    BY <1>1 DEF Ordered
  <2>3. HeardInOrder(task, heard)
    BY <1>2, <1>3, <1>4 DEF HeardInOrder, Grows, NoIndex
  <2>4. Closing(waif, task, heard, lost)
    BY <1>1, <1>2, <1>3 DEF Closing
  <2> QED BY <2>1, <2>2, <2>3, <2>4 DEF Flow
<1>8. UnbrokenInv
  BY <1>1, <1>2, <1>3, <1>4 DEF UnbrokenInv, Unbroken, Preceded
<1> QED BY <1>5, <1>6, <1>7, <1>8 DEF RoundsInv

LEMMA RoundsNext == RoundsInv /\ [SendersNext]_senderVars => RoundsInv'
<1> SUFFICES ASSUME RoundsInv, [SendersNext]_senderVars PROVE RoundsInv'
  OBVIOUS
<1>1. ASSUME NEW t \in Tasks, TaskStep(t) PROVE RoundsInv'
  BY <1>1, TaskFlow, TaskTypes DEF RoundsInv
<1>2. ASSUME \/ LinkEvent \/ ChangeInterval \/ Forward \/ UNCHANGED senderVars
             \/ \E k \in Kinds, start \in BOOLEAN : SetSender(k, start)
      PROVE  RoundsInv'
  BY <1>2, SessionFlow, SessionTypes DEF RoundsInv
<1>3. SetTestTone \/ SetWavSender \/ SetMetronomeBroadcast
        => \E k \in Kinds, start \in BOOLEAN : SetSender(k, start)
  BY DEF SetTestTone, SetWavSender, SetMetronomeBroadcast, Kinds
<1> QED BY <1>1, <1>2, <1>3 DEF SendersNext

\* Every variable of the in-app senders keeps its type, and a task that was never started
\* has nothing.
THEOREM SendersTypeCorrect == SendersSpec => []SendersTypeOK
<1>1. RoundsInv => SendersTypeOK
  BY DEF RoundsInv
<1> QED BY <1>1, RoundsInit, RoundsNext, PTL DEF SendersSpec

\* The room hears the rounds of every in-app sender one after another, in order, and closed
\* by their final frame unless frames were lost; a closed metronome round has no gap.
THEOREM RoundsAreHeardClosed == SendersSpec => RoundsAreClosed
<1> DEFINE Told(t) ==
      LET h == heard[t]  g == heard'[t]
      IN h # g =>
           /\ Grows(g.nums)
           /\ g.index = h.index => ~h.final
           /\ g.index # h.index =>
                g.index > h.index /\ (h = Silence \/ h.final \/ h.index \in lost[t])
           /\ g.final /\ task[t].kind = "metronome" /\ g.index \notin lost[t]
              => g.nums = [i \in 1 .. Len(g.nums) |-> i - 1]
<1>1. RoundsInv /\ [SendersNext]_senderVars => [\A t \in Tasks : Told(t)]_senderVars
  <2> SUFFICES ASSUME RoundsInv, SendersNext, NEW t \in Tasks, heard[t] # heard'[t]
               PROVE  Told(t)
    OBVIOUS
  <2>1. Forward
    <3>1. ASSUME NEW u \in Tasks, TaskStep(u) PROVE FALSE
      <4>1. UNCHANGED heard
        BY <3>1, TaskSteps DEF RoundsInv, BoundaryInv, Flow, Typed
      <4> QED BY <4>1
    <3>2. ~(\/ LinkEvent \/ ChangeInterval \/ SetTestTone \/ SetWavSender
            \/ SetMetronomeBroadcast)
      BY DEF LinkEvent, ChangeInterval, SetTestTone, SetWavSender, SetMetronomeBroadcast,
             SetSender
    <3> QED BY <3>1, <3>2 DEF SendersNext
  <2>2. /\ SendersTypeOK /\ Flow(waif, task, heard, lost)
        /\ UnbrokenInv' /\ SendersTypeOK'
    BY RoundsNext DEF RoundsInv
  <2>3. /\ 1 <= Len(waif) /\ waif[1].task \in Tasks
        /\ heard' = [heard EXCEPT ![waif[1].task] = Hearing(@, waif[1])]
        /\ UNCHANGED <<task, lost>>
    BY <2>1, <2>2, ForwardHears DEF Forward, Frames
  <2>4. t = waif[1].task /\ heard'[t] = Hearing(heard[t], waif[1])
    BY <2>2, <2>3 DEF SendersTypeOK
  <2> DEFINE h == heard[t]
             g == heard'[t]
  <2>5. /\ Grows(g.nums)
        /\ \/ g.index = h.index /\ ~h.final
           \/ h.index < g.index
        /\ h.index # g.index => h = Silence \/ h.final \/ h.index \in lost[t]
    BY <2>2, <2>3, <2>4, HearingIs
  <2>6. /\ h.index \in Nat \cup {NoIndex} /\ g.index \in Nat \cup {NoIndex}
        /\ g.nums \in Seq(Nat)
    BY <2>2 DEF SendersTypeOK
  <2>7. ASSUME task[t].kind = "metronome", g.index \notin lost[t]
        PROVE  g.nums = [i \in 1 .. Len(g.nums) |-> i - 1]
    <3>1. Unbroken(waif', task', heard', lost', t)
      BY <2>2, <2>3, <2>7 DEF UnbrokenInv
    <3>2. \A i \in 1 .. Len(g.nums) : g.nums[i] = i - 1
      BY <2>3, <2>7, <3>1 DEF Unbroken
    <3> HIDE DEF g
    <3> DEFINE s == g.nums
    <3>3. s \in Seq(Nat) /\ \A i \in 1 .. Len(s) : s[i] = i - 1
      BY <2>6, <3>2
    <3> HIDE DEF s
    <3>4. s = [i \in 1 .. Len(s) |-> s[i]]
      BY <3>3
    <3> QED BY <3>3, <3>4 DEF s
  <2> HIDE DEF h, g
  <2>8. g.index = h.index => ~h.final
    BY <2>5, <2>6 DEF NoIndex
  <2>9. g.index # h.index => g.index > h.index
    BY <2>5, <2>6 DEF NoIndex
  <2> QED BY <2>5, <2>7, <2>8, <2>9 DEF h, g
<1> QED BY <1>1, RoundsInit, RoundsNext, PTL DEF SendersSpec, RoundsAreClosed
============================================================================
