-------------------------------- MODULE Sends --------------------------------
(***************************************************************************)
(* What a WAIL session sends, and what it tells the room about it          *)
(* (wail-app/session.go, stream_names.go, capture_persist.go; the relay's  *)
(* hub.updateStreams): the captured channels of module Capture, the in-app *)
(* senders (test tone, WAV file, metronome broadcast), the stream names    *)
(* that receivers take for the list of streams that exist, and the stream  *)
(* count by which the relay scales its rate limit.                         *)
(*                                                                         *)
(* One session is modelled with the relay and one other session, which may *)
(* leave and be followed by another.  The session's messages reach the     *)
(* relay in order; they are lost with the connection.                      *)
(***************************************************************************)
EXTENDS Capture, SequencesExt, FiniteSetsExt

CONSTANTS
  Sender,     \* the in-app senders
  UserStream, \* the stream ids a user can give to a sender, or name
  Capacity,   \* roomCapacity less what the room has filled for good
  Declared,   \* SessionConfig.StreamCount
  MaxDrops    \* bound on the connections lost

ASSUME SendsAssumption ==
  /\ IsFiniteSet(Sender)
  /\ UserStream \subseteq Nat
  /\ {Capacity, MaxDrops} \subseteq Nat
  /\ Declared \in Nat \ {0}

VARIABLES
  sending,  \* the stream of an in-app sender, or None
  names,    \* localStreamNames: the streams that have a name of their own
  eff,      \* effStreamNames
  sent,     \* sentStreamNames; nil equals the empty map
  last,     \* lastDeclaredStreams
  rejected, \* streamUpdateRejected
  saved,    \* App.captureEnabled, and the file it is saved in
  link,     \* is the connection up?
  outbox,   \* what is under way to the relay
  inbox,    \* what the relay sends the session
  count,    \* conn.streamCount at the relay; 0 outside the room
  others,   \* the slots other peers use
  heard,    \* the streams the other session takes for those that exist
  drops

sessionVars == <<sending, names, eff, sent, last, rejected, saved>>
roomVars == <<link, outbox, inbox, count, others, heard, drops>>
sendVars == <<captureVars, sessionVars, roomVars>>

AnyStream == Stream \cup UserStream

\* What a session tells the relay about its streams.
Message == [type : {"names"}, streams : SUBSET AnyStream] \cup [type : {"count"}, n : Nat]

SendsTypeOK ==
  /\ CaptureTypeOK
  /\ sending \in [Sender -> UserStream \cup {None}]
  /\ names \subseteq UserStream
  /\ eff \subseteq AnyStream
  /\ sent \subseteq AnyStream
  /\ last \in Nat /\ rejected \in BOOLEAN
  /\ saved \subseteq Key
  /\ link \in BOOLEAN
  /\ outbox \in Seq(Message) /\ inbox \in Seq({"joined", "error"})
  /\ count \in 0..Capacity /\ others \in 0..Capacity
  /\ heard \subseteq AnyStream
  /\ drops \in 0..MaxDrops

\* The session has joined an existing room.
Init ==
  /\ CaptureInit
  /\ sending = [s \in Sender |-> None]
  /\ names = {} /\ eff = {} /\ sent = {}
  /\ last = Declared /\ rejected = FALSE
  /\ saved = Remembered
  /\ link = TRUE
  /\ outbox = <<>> /\ inbox = <<>>
  /\ count = Declared
  /\ others \in 0..(Capacity - Declared)
  /\ heard = {} /\ drops = 0

InSession == life = "running" /\ ~dead
-----------------------------------------------------------------------------
\* CaptureChannels, of those that are enabled: their streams.
CaptureStreams(chs) == {chs[c].stream : c \in {d \in Channel : chs[d] # None /\ chs[d].on}}
Senders(on) == {s \in Sender : on[s] # None}

\* effectiveStreamNames: the enabled channels, and whatever has a name.
Effective(chs, nms) == CaptureStreams(chs) \cup nms

Names(set) == [type |-> "names", streams |-> set]
Count(n)   == [type |-> "count", n |-> n]
Queue(q, msg) == IF link THEN Append(q, msg) ELSE q

\* syncStreamNames: tell the room if something changed since it was told.
SyncStreamNames(chs, nms, told, q) ==
  LET now == Effective(chs, nms)
  IN /\ eff' = now
     /\ sent' = now
     /\ outbox' = IF now = told THEN q ELSE Queue(q, Names(now))

\* The user starts, moves or stops an in-app sender.
SetSender(s, id) ==
  /\ InSession /\ Act
  /\ sending' = [sending EXCEPT ![s] = id]
  /\ names' = (names \ {sending[s]}) \cup ({id} \ {None})
  /\ SyncStreamNames(capture, names', sent, outbox)
  /\ UNCHANGED <<lan, capture, restore, nextStream, open, drains, discovery, life, dead>>
  /\ UNCHANGED <<last, rejected, saved, link, inbox, count, others, heard, drops>>

\* The user names streams: the map that is kept is the App's, which knows of
\* no sender's label.
StreamNamesChanged(set) ==
  /\ InSession /\ Act
  /\ names' = set
  /\ SyncStreamNames(capture, set, sent, outbox)
  /\ UNCHANGED <<lan, capture, restore, nextStream, open, drains, discovery, life, dead>>
  /\ UNCHANGED <<sending, last, rejected, saved, link, inbox, count, others, heard, drops>>

\* The user toggles a channel: what is enabled and there now is saved.
ToggleCapture(c, on) ==
  /\ SetCaptureEnabled(c, on)
  /\ saved' = {capture'[d].key : d \in {e \in Channel : capture'[e] # None /\ capture'[e].on}}
  /\ SyncStreamNames(capture', names, sent, outbox)
  /\ UNCHANGED <<sending, names, last, rejected, link, inbox, count, others, heard, drops>>
-----------------------------------------------------------------------------
\* activeSendStreamCount: an idle peer counts as one.
Wanted == Max({1, Cardinality(CaptureStreams(capture)) + Cardinality(Senders(sending))})

\* Mutant: a rejected update is not tried again.
ShouldDeclareChange(due) == Wanted # last

\* shouldDeclareStreams, due: has the retry of a rejected update come up?
ShouldDeclare(due) == Wanted # last \/ (rejected /\ due)

\* The status ticker: the names, then the count.
StatusTick(due) ==
  /\ InSession
  /\ LET now == Effective(capture, names)
         q   == IF now = sent THEN outbox ELSE Queue(outbox, Names(now))
     IN /\ eff' = now /\ sent' = now
        /\ outbox' = IF ShouldDeclare(due) THEN Queue(q, Count(Wanted)) ELSE q
  /\ last' = Wanted
  /\ rejected' = (rejected /\ ~ShouldDeclare(due))
  /\ UNCHANGED <<captureVars, sending, names, saved, link, inbox, count, others, heard, drops>>

\* Mutant: a newcomer does not make the session forget what it told the room.
ForgottenNot == sent

\* sentStreamNames = nil.
Forgotten == {}

\* A signalling event: a newcomer is told the names once more, whatever was
\* sent; a rejected update is tried again later.
HandleEvent ==
  /\ InSession /\ inbox # <<>>
  /\ inbox' = Tail(inbox)
  /\ \/ /\ Head(inbox) = "joined"
        /\ SyncStreamNames(capture, names, Forgotten, outbox)
        /\ UNCHANGED rejected
     \/ /\ Head(inbox) = "error"
        /\ rejected' = TRUE
        /\ UNCHANGED <<eff, sent, outbox>>
  /\ UNCHANGED <<captureVars, sending, names, last, saved, link, count, others, heard, drops>>
-----------------------------------------------------------------------------
\* hub.updateStreams: a peer may grow into the slots the others leave.
Granted(n) == others + n <= Capacity

\* The relay takes the session's next message: names go to the other session,
\* for which they are what exists; a count is granted or refused.
RelayReads ==
  /\ outbox # <<>>
  /\ outbox' = Tail(outbox)
  /\ LET msg == Head(outbox)
     IN \/ /\ msg.type = "names"
           /\ heard' = msg.streams
           /\ UNCHANGED <<count, inbox>>
        \/ /\ msg.type = "count"
           /\ \/ msg.n = count \/ Granted(msg.n)
              /\ count' = msg.n /\ UNCHANGED inbox
           /\ UNCHANGED heard
        \/ /\ msg.type = "count" /\ msg.n # count /\ ~Granted(msg.n)
           /\ inbox' = Append(inbox, "error")
           /\ UNCHANGED <<count, heard>>
  /\ UNCHANGED <<captureVars, sessionVars, link, others, drops>>

\* Other peers take or leave slots.
OthersChange(n) ==
  /\ n # others /\ n + count <= Capacity /\ Act
  /\ others' = n
  /\ UNCHANGED <<lan, capture, restore, nextStream, open, drains, discovery, life, dead>>
  /\ UNCHANGED <<sessionVars, link, outbox, inbox, count, heard, drops>>

\* The other session is followed by one that has heard nothing yet.
Newcomer ==
  /\ link /\ Act
  /\ heard' = {}
  /\ inbox' = Append(inbox, "joined")
  /\ UNCHANGED <<lan, capture, restore, nextStream, open, drains, discovery, life, dead>>
  /\ UNCHANGED <<sessionVars, link, outbox, count, others, drops>>

\* The connection is lost, and with it what is under way on it.
Drop ==
  /\ link /\ drops < MaxDrops
  /\ link' = FALSE /\ drops' = drops + 1
  /\ outbox' = <<>> /\ inbox' = <<>>
  /\ count' = 0
  /\ UNCHANGED <<captureVars, sessionVars, others, heard>>

\* The session joins again, with the count it was configured with.
Reconnect ==
  /\ ~link /\ InSession
  /\ others + Declared <= Capacity
  /\ link' = TRUE
  /\ count' = Declared
  /\ last' = Declared
  /\ UNCHANGED <<captureVars, sending, names, eff, sent, rejected, saved, outbox, inbox, others, heard, drops>>

OnCapture == UNCHANGED <<sessionVars, roomVars>>

Next ==
  \/ CaptureStep /\ OnCapture
  \/ StopBegin /\ OnCapture
  \/ (\E c \in Channel, k \in Key \cup {None} : Publish(c, k)) /\ OnCapture
  \/ \E c \in Channel, on \in BOOLEAN : ToggleCapture(c, on)
  \/ \E s \in Sender, id \in UserStream \cup {None} : SetSender(s, id)
  \/ \E set \in SUBSET UserStream : StreamNamesChanged(set)
  \/ \E due \in BOOLEAN : StatusTick(due)
  \/ HandleEvent \/ RelayReads
  \/ \E n \in 0..Capacity : OthersChange(n)
  \/ Newcomer \/ Drop \/ Reconnect

\* The goroutines of the session and of the relay run; the retry of a rejected
\* update comes up; the reconnection is tried until the room has space.
Fairness ==
  /\ CaptureFairness
  /\ WF_sendVars(StatusTick(TRUE)) /\ WF_sendVars(HandleEvent)
  /\ WF_sendVars(RelayReads) /\ WF_sendVars(Reconnect)

Spec == Init /\ [][Next]_sendVars /\ Fairness
-----------------------------------------------------------------------------
SentStreams == CaptureStreams(capture) \cup {sending[s] : s \in Senders(sending)}
Labels == {sending[s] : s \in Senders(sending)}

UnderWay(type) == {i \in DOMAIN outbox : outbox[i].type = type}
Newest(type) == {i \in UnderWay(type) : \A j \in UnderWay(type) : j <= i}

\* The count the session takes for declared is the one the relay will have when
\* it has read what is under way; if it will not, the session knows of the
\* refusal or is being told (lastDeclaredStreams, streamUpdateRejected).
CountIsKnown ==
  link => IF UnderWay("count") # {}
          THEN \E i \in Newest("count") : outbox[i].n = last
          ELSE count = last \/ rejected \/ "error" \in Range(inbox)

\* The names the session takes for sent are those the other session has, or
\* will have when the relay has read what is under way, unless a newcomer is
\* yet to be noticed.  Of a session that names nothing this does not hold, nor
\* after a lost connection (sentStreamNames).
NamesAreKnown ==
  drops = 0 /\ sent # {} /\ "joined" \notin Range(inbox) =>
    IF UnderWay("names") # {}
    THEN \E i \in Newest("names") : outbox[i].streams = sent
    ELSE heard = sent

\* The relay's rate limit becomes that of the streams the session really sends,
\* unless the room has no space for them: through toggles, restored channels,
\* refused updates, space that is taken and freed, and lost connections
\* (shouldDeclareStreams, hub.updateStreams).
CountSettles == <>[](InSession /\ link => count = Wanted \/ ~Granted(Wanted))

\* What the other session takes for our streams, and does.
Heard == InSession /\ drops = 0 /\ names = Labels => heard = SentStreams

\* What the other session takes for our streams becomes what we send, be it
\* there from the start or a newcomer: nothing that is sent goes unnamed (its
\* channel would be retired), nothing that ended stays (its channel would not
\* be).  It is so while no connection was lost, the only names are the
\* senders' labels, and something is sent (syncStreamNames,
\* effectiveStreamNames).
StreamsSettle == <>[](SentStreams # {} => Heard)

\* "A nil Names is 'I send nothing', not 'no news'": a session that sends
\* nothing any more is known to send nothing (session.go, StreamNames).
SilenceSettles == <>[](SentStreams = {} => Heard)
=============================================================================
