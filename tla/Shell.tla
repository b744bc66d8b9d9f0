------------------------------- MODULE Shell -------------------------------
(***************************************************************************)
(* The desktop shell (app.go): the methods the frontend calls, the mutex   *)
(* a.mu they share, and the life of the sessions they start and end        *)
(* (session.go 76-102, 143-187, 420-430, 676-745, 1389-1395).              *)
(*                                                                         *)
(* Every method but Disconnect keeps a.mu while it sends into a session's  *)
(* bounded command channel, and a session takes a.mu in a callback.  The   *)
(* webview runs each call in a goroutine of its own.  A session is reduced *)
(* to where its loop is: it may dial the relay, wait in its select, be in  *)
(* the callback, or dial again inside the select after a lost connection.  *)
(* The set of enabled capture channels is none or all of them.             *)
(***************************************************************************)
EXTENDS Integers, Sequences, FiniteSets

CONSTANTS
  Callers,     \* calls of the frontend that may be under way at once
  CmdCap,      \* capacity of a session's command channel, 64 in the code
  MaxSessions, \* bound: sessions ever started
  MaxCommands, \* bound: commands ever called
  NoOne

ASSUME ShellAssumption ==
  /\ CmdCap \in Nat \ {0} /\ MaxSessions \in Nat \ {0} /\ MaxCommands \in Nat
  /\ NoOne \notin Callers /\ NoOne \notin 1 .. MaxSessions
  /\ Callers \cap (1 .. MaxSessions) = {}

Ids == 1 .. MaxSessions

VARIABLES
  mu,        \* a.mu: who keeps it across steps, or NoOne
  session,   \* a.session: the current session, or NoOne
  remember, enabled, disk, \* rememberEnabled, captureEnabled, capture_enabled.json
  call,      \* per caller: what it runs, where it is, and the session it is about
  loop,      \* per session: where its goroutine is
  cancelled, \* its context was cancelled
  cmds,      \* its CmdCh
  on,        \* the channel is enabled in its engine
  screen,    \* what the frontend shows, and whether it hears session events
  count      \* commands called so far

appVars      == <<mu, session, remember, enabled, disk>>
sessionVars  == <<loop, cancelled, cmds, on>>
vars == <<appVars, call, sessionVars, screen, count>>

Idle == [op |-> "none", at |-> "idle", of |-> NoOne]

\* The enabled capture channels, and what the file may hold.
Sets   == {"none", "all"}
NoFile == "no file"

\* With -room a goroutine of main joins without the frontend.
AutoJoin == [Idle EXCEPT !.op = "auto", !.at = "lock"]

\* NewApp: the set is loaded from the file; rememberEnabled is the frontend's default.
Init ==
  /\ mu = NoOne /\ session = NoOne
  /\ remember = TRUE /\ enabled \in Sets /\ disk = enabled
  /\ call \in {f \in [Callers -> {Idle, AutoJoin}] :
                \A c, d \in Callers : f[c] = AutoJoin /\ f[d] = AutoJoin => c = d}
  /\ loop = [n \in Ids |-> "none"]
  /\ cancelled = [n \in Ids |-> FALSE]
  /\ cmds = [n \in Ids |-> <<>>]
  /\ on = [n \in Ids |-> "none"]
  /\ screen = [shows |-> "loading", listens |-> FALSE]
  /\ count = 0

----------------------------------------------------------------------------
(* The frontend's calls *)

Returns(c) == call' = [call EXCEPT ![c] = Idle]

\* The join screen offers JoinRoom, the session screen the commands and Disconnect.
Offers == IF screen.shows = "join" THEN {"join"} ELSE {"command", "disconnect"}

\* At load the page asks for a session that was started without it.
GetActiveSession ==
  /\ screen.shows = "loading" /\ mu = NoOne
  /\ screen' = IF session = NoOne THEN [screen EXCEPT !.shows = "join"]
               ELSE [shows |-> "session", listens |-> TRUE]
  /\ UNCHANGED <<appVars, call, sessionVars, count>>

\* Bound: a session is left for every join under way.
JoinsLeft ==
  Cardinality({n \in Ids : loop[n] = "none"})
  > Cardinality({c \in Callers : call[c].op \in {"join", "auto"} /\ call[c].at = "lock"})

Click(c) ==
  /\ call[c].at = "idle" /\ screen.shows # "loading"
  /\ \E op \in Offers \cup {"remember"} :
       /\ IF op = "join" THEN JoinsLeft ELSE count < MaxCommands
       /\ count' = IF op = "join" THEN count ELSE count + 1
       /\ call' = [call EXCEPT ![c] = [Idle EXCEPT !.op = op, !.at = "lock"]]
  /\ UNCHANGED <<appVars, sessionVars, screen>>

\* The mutex is free for a method that waits for it.
Locks(c, op) == call[c].op = op /\ call[c].at = "lock" /\ mu = NoOne

\* SpawnSession: a context, a command channel, a goroutine that dials.
SpawnSession(n) ==
  /\ loop' = [loop EXCEPT ![n] = "dial"]
  /\ on' = [on EXCEPT ![n] = enabled]
  /\ UNCHANGED <<cancelled, cmds>>

\* The session is kept before anyone knows whether the relay lets it in.
JoinRoom(c) ==
  /\ Locks(c, "join") \/ Locks(c, "auto")
  /\ IF session # NoOne
     THEN Returns(c) /\ UNCHANGED <<session, sessionVars>> \* "already in a session"
     ELSE \E n \in Ids :
            /\ loop[n] = "none" /\ \A k \in 1 .. n - 1 : loop[k] # "none"
            /\ SpawnSession(n)
            /\ session' = n
            /\ IF call[c].op = "auto" THEN Returns(c)
               ELSE call' = [call EXCEPT ![c].at = "joined"]
  /\ UNCHANGED <<mu, remember, enabled, disk, screen, count>>

\* showSession and setupListeners, once the call has come back.
ShowSession(c) ==
  /\ call[c].at = "joined"
  /\ screen' = [shows |-> "session", listens |-> TRUE]
  /\ Returns(c)
  /\ UNCHANGED <<appVars, sessionVars, count>>

Room(n) == Len(cmds[n]) < CmdCap
Send(n, m) == cmds' = [cmds EXCEPT ![n] = Append(@, m)]

\* What a command method sends.
Sent == [type : {"other"}] \cup [type : {"capture"}, on : Sets]

\* ChangeBPM, SendChat, SetTestTone, SetCaptureEnabled, ...: the send may block, and the
\* mutex is kept until it is through.
SendCommand(c) ==
  /\ Locks(c, "command")
  /\ IF session = NoOne THEN Returns(c) /\ UNCHANGED <<mu, cmds>>
     ELSE IF Room(session)
     THEN Returns(c) /\ (\E m \in Sent : Send(session, m)) /\ UNCHANGED mu
     ELSE /\ mu' = c
          /\ call' = [call EXCEPT ![c].at = "send", ![c].of = session]
          /\ UNCHANGED cmds
  /\ UNCHANGED <<session, remember, enabled, disk, loop, cancelled, on, screen, count>>

SendUnblocks(c) ==
  /\ call[c].at = "send" /\ Room(call[c].of)
  /\ \E m \in Sent : Send(call[c].of, m)
  /\ mu' = NoOne
  /\ Returns(c)
  /\ UNCHANGED <<session, remember, enabled, disk, loop, cancelled, on, screen, count>>

SetRememberEnabled(c) ==
  /\ Locks(c, "remember")
  /\ remember' = ~remember
  /\ disk' = IF remember' THEN enabled ELSE NoFile
  /\ Returns(c)
  /\ UNCHANGED <<mu, session, enabled, sessionVars, screen, count>>

\* showJoin drops the listeners too.
showJoin == screen' = [shows |-> "join", listens |-> FALSE]

\* Mutant: the early return of a second Disconnect forgets to unlock.
TakesKeepingTheLock(c) ==
  /\ session' = NoOne
  /\ IF session = NoOne THEN mu' = c /\ Returns(c) /\ showJoin
     ELSE call' = [call EXCEPT ![c].at = "quit", ![c].of = session] /\ UNCHANGED <<mu, screen>>

\* Mutant: the mutex is not given back before the session is waited for.
TakesHoldingTheLock(c) ==
  /\ session' = NoOne
  /\ IF session = NoOne THEN Returns(c) /\ showJoin /\ UNCHANGED mu
     ELSE call' = [call EXCEPT ![c].at = "quit", ![c].of = session] /\ mu' = c /\ UNCHANGED screen

\* The session is taken under the mutex, and the mutex given back.
Takes(c) ==
  /\ session' = NoOne
  /\ IF session = NoOne THEN Returns(c) /\ showJoin
     ELSE call' = [call EXCEPT ![c].at = "quit", ![c].of = session] /\ UNCHANGED screen
  /\ UNCHANGED mu

Disconnect(c) ==
  /\ Locks(c, "disconnect")
  /\ Takes(c)
  /\ UNCHANGED <<remember, enabled, disk, sessionVars, count>>

DisconnectSends(c) ==
  LET n == call[c].of IN
  /\ call[c].at = "quit" /\ Room(n)
  /\ Send(n, [type |-> "disconnect"])
  /\ cancelled' = [cancelled EXCEPT ![n] = TRUE]
  /\ call' = [call EXCEPT ![c].at = "wait"]
  /\ UNCHANGED <<appVars, loop, on, screen, count>>

DisconnectDone(c) ==
  /\ call[c].at = "wait" /\ loop[call[c].of] = "done"
  /\ Returns(c) /\ showJoin
  /\ UNCHANGED <<appVars, sessionVars, count>>

\* What a session may wait for longer than the five seconds: the relay, and the mutex.
Stuck(n) == loop[n] \in {"dial", "redial"} \/ (loop[n] = "callback" /\ mu # NoOne)

DisconnectGivesUp(c) ==
  /\ call[c].at = "wait" /\ Stuck(call[c].of)
  /\ Returns(c) /\ showJoin
  /\ UNCHANGED <<appVars, sessionVars, count>>

----------------------------------------------------------------------------
(* A session's goroutine *)

At(n, from, to) == loop[n] = from /\ loop' = [loop EXCEPT ![n] = to]

\* connectMesh: the relay answers join_ok, or join_error, or the dial is interrupted.
Connected(n) ==
  /\ \E to \in {"select", "ended"} : At(n, "dial", to)
  /\ UNCHANGED <<appVars, call, cancelled, cmds, on, screen, count>>

Done(n) ==
  /\ cancelled[n] /\ At(n, "select", "ended")
  /\ UNCHANGED <<appVars, call, cancelled, cmds, on, screen, count>>

Handled(m) ==
  IF m.type = "capture" THEN "callback" ELSE IF m.type = "disconnect" THEN "ended" ELSE "select"

\* The next command; only SetCaptureEnabled and Disconnect matter to the shell.
TakeCommand(n) ==
  /\ loop[n] = "select" /\ cmds[n] # <<>>
  /\ cmds' = [cmds EXCEPT ![n] = Tail(@)]
  /\ LET m == Head(cmds[n]) IN
       /\ loop' = [loop EXCEPT ![n] = Handled(m)]
       /\ on' = IF m.type = "capture" THEN [on EXCEPT ![n] = m.on] ELSE on
  /\ UNCHANGED <<appVars, call, cancelled, screen, count>>

\* Nothing is written for a user who does not want it remembered.
Saved(n) == IF remember THEN on[n] ELSE disk

OnCaptureEnabledChanged(n) ==
  /\ mu = NoOne
  /\ At(n, "callback", "select")
  /\ enabled' = on[n]
  /\ disk' = Saved(n)
  /\ UNCHANGED <<mu, session, remember, call, cancelled, cmds, on, screen, count>>

\* The connection is lost: the loop dials inside its select, and answers nothing else
\* until the attempt is over, well or not.
ReconnectSignaling(n) ==
  /\ At(n, "select", "redial")
  /\ UNCHANGED <<appVars, call, cancelled, cmds, on, screen, count>>

Reconnected(n) ==
  /\ At(n, "redial", "select")
  /\ UNCHANGED <<appVars, call, cancelled, cmds, on, screen, count>>

\* session:ended names no session; a frontend that listens shows the join screen.
EmitEnded(n) ==
  /\ At(n, "ended", "emitted")
  /\ IF screen.listens THEN showJoin ELSE UNCHANGED screen
  /\ UNCHANGED <<appVars, call, cancelled, cmds, on, count>>

CloseDone(n) ==
  /\ At(n, "emitted", "done")
  /\ UNCHANGED <<appVars, call, cancelled, cmds, on, screen, count>>

----------------------------------------------------------------------------

CallStep(c) ==
  \/ JoinRoom(c) \/ ShowSession(c)
  \/ SendCommand(c) \/ SendUnblocks(c) \/ SetRememberEnabled(c)
  \/ Disconnect(c) \/ DisconnectSends(c) \/ DisconnectDone(c) \/ DisconnectGivesUp(c)

SessionStep(n) ==
  \/ Connected(n) \/ Done(n) \/ TakeCommand(n) \/ OnCaptureEnabledChanged(n)
  \/ Reconnected(n) \/ EmitEnded(n) \/ CloseDone(n)

Next ==
  \/ GetActiveSession
  \/ \E c \in Callers : Click(c) \/ CallStep(c)
  \/ \E n \in Ids : SessionStep(n) \/ ReconnectSignaling(n)

(***************************************************************************)
(* Goroutines are scheduled, a mutex is handed to a waiter in the end, and *)
(* a select does not pass over a ready case for ever; the relay answers    *)
(* or the attempt fails.  Nobody has to click or to lose the connection.   *)
(***************************************************************************)
Spec ==
  /\ Init /\ [][Next]_vars
  /\ \A c \in Callers : SF_vars(CallStep(c))
  /\ \A n \in Ids : WF_vars(SessionStep(n)) /\ SF_vars(TakeCommand(n) \/ Done(n))

----------------------------------------------------------------------------
(* Properties *)

\* A call waits for room in the channel of a session that takes no more commands: its
\* goroutine is over, or it waits for the mutex the caller keeps.
Wedged ==
  \E c \in Callers :
    LET n == call[c].of IN
    /\ call[c].at \in {"send", "quit"} /\ ~Room(n)
    /\ loop[n] \in {"ended", "emitted", "done"} \/ (loop[n] = "callback" /\ mu # NoOne)

\* Every call of the frontend returns, also while the session dials and its channel is
\* full: a full channel of a session that cannot read (NeverWedged) is all that can stop it.
CallsReturn == \A c \in Callers : (call[c].at # "idle") ~> (call[c].at = "idle" \/ Wedged)

\* The mutex is kept by a call that waits for a session other than n.
HeldForAnother(n) == \E d \in Callers : mu = d /\ call[d].at = "send" /\ call[d].of # n

\* Disconnect "waits for cleanup to finish": it gives up on a session only while the
\* relay keeps that one waiting, or a session that was started meanwhile keeps a caller
\* who holds the mutex; never because anyone holds it who waits for the same session.
WaitsOnlyForOthers ==
  [][\A c \in Callers :
       LET n == call[c].of IN
       call[c].at = "wait" /\ call'[c].at = "idle"
       => loop[n] \in {"dial", "redial", "done"} \/ HeldForAnother(n)]_vars

(***************************************************************************)
(* Three departures, each shown by a configuration of its own.             *)
(***************************************************************************)

\* Reconnection is "a non-blocking state machine" and "Disconnect commands are handled
\* immediately" (docs/networking.md:646): it runs inside the select, commands pile up, and
\* a SetCaptureEnabled among them makes session and caller wait for each other for ever.
NeverWedged == ~Wedged

\* The frontend shows the join screen at session:ended and JoinRoom "joins a room": a
\* session the relay refused stays in a.session, every later JoinRoom answers "already in
\* a session — disconnect first", and the join screen has no Disconnect.
JoinScreenCanJoin ==
  (screen.shows = "join" /\ \A c \in Callers : call[c].at = "idle"
     /\ \A n \in Ids : loop[n] \in {"none", "done"})
  => session = NoOne

\* The last thing a session says is about that session: an ended event closes no other.
EndedIsCurrent ==
  [][\A n \in Ids : loop[n] = "ended" /\ loop'[n] = "emitted" /\ screen.listens
       => session \in {n, NoOne}]_vars
============================================================================
