---------------------------- MODULE CaptureProofs ----------------------------
(***************************************************************************)
(* Whatever the LAN, the user and the goroutines do: the sources that are  *)
(* open are those of the channels that are sent, no two channels and no    *)
(* two goroutines share one (SourcesAreOwned), as a stream id is given to  *)
(* one channel and whoever stops a channel closes its source; and what a   *)
(* session takes for told to its room, the room has been told or will be   *)
(* next (CountIsKnown, NamesAreKnown).                                     *)
(***************************************************************************)
EXTENDS Sends, FiniteSetTheorems, SequenceTheorems, TLAPS

Entry == [key : Key, stream : Nat, on : BOOLEAN, starts : Nat]

\* The strengthening: stream ids are not shared, and new ones are unused.
OwnInv ==
  /\ lan \in [Channel -> Key \cup {None}]
  /\ capture \in [Channel -> Entry \cup {None}]
  /\ nextStream \in Nat
  /\ \A c \in Known : capture[c].stream < nextStream
  /\ \A c, d \in Known : capture[c].stream = capture[d].stream => c = d
  /\ open = {SourceOf(c) : c \in Enabled}

ownVars == <<lan, capture, nextStream, open>>

-----------------------------------------------------------------------------

LEMMA KnownEntry == OwnInv => \A c \in Known : c \in Channel /\ capture[c] \in Entry
  BY DEF OwnInv, Known

\* A channel that starts is the same but for its next turn.
LEMMA StartedIs ==
  ASSUME NEW e \in Entry
  PROVE  /\ Started(e) \in Entry
         /\ Started(e).on /\ Started(e).stream = e.stream /\ Started(e).starts = e.starts + 1
<1> DEFINE m == e.starts + 1
<1>1. \A n \in Nat : [e EXCEPT !.on = TRUE, !.starts = n] \in Entry
  BY DEF Entry
<1>2. m \in Nat
  BY DEF Entry
<1> HIDE DEF m
<1>3. [e EXCEPT !.on = TRUE, !.starts = m] \in Entry
  BY <1>1, <1>2
<1>4. Started(e) \in Entry
  BY <1>3 DEF Started, m
<1>5. Started(e).on /\ Started(e).stream = e.stream /\ Started(e).starts = e.starts + 1
  BY DEF Started, Entry
<1> QED
  BY <1>4, <1>5

LEMMA FreshIs ==
  ASSUME NEW c, lan[c] \in Key, NEW n \in Nat
  PROVE  /\ Fresh(c, n) \in Entry
         /\ ~Fresh(c, n).on /\ Fresh(c, n).stream = n /\ Fresh(c, n).starts = 0
  BY DEF Fresh, Entry

LEMMA InitInv == CaptureInit => OwnInv
<1> SUFFICES ASSUME CaptureInit PROVE OwnInv
  OBVIOUS
<1>1. Known = {} /\ Enabled = {}
  BY DEF CaptureInit, Known, Enabled
<1> QED
  BY <1>1 DEF CaptureInit, OwnInv

LEMMA UnchangedInv == OwnInv /\ UNCHANGED ownVars => OwnInv'
  BY DEF ownVars, OwnInv, Known, Enabled, SourceOf

\* A channel is published, renamed or gone: discovery has not looked yet.
LEMMA PublishInv ==
  ASSUME OwnInv, NEW c \in Channel, NEW k \in Key \cup {None}, Publish(c, k)
  PROVE  OwnInv'
  BY DEF OwnInv, Publish, Known, Enabled, SourceOf

\* Stopping channels closes theirs and no other source.
LEMMA ClosedLeaves ==
  ASSUME OwnInv, NEW gone
  PROVE  open \ Closed(gone) = {SourceOf(c) : c \in Enabled \ gone}
<1>1. \A c, d \in Enabled : SourceOf(c) = SourceOf(d) => c = d
  BY DEF OwnInv, Enabled, SourceOf
<1>2. open = {SourceOf(c) : c \in Enabled}
  BY DEF OwnInv
<1>3. Closed(gone) = {SourceOf(c) : c \in gone \cap Enabled}
  BY DEF Closed
<1> HIDE DEF SourceOf
<1> QED
  BY <1>1, <1>2, <1>3

\* The numbers of new channels are their own, and nobody had them.
LEMMA NumbersAreNew ==
  ASSUME OwnInv, NEW new \in SUBSET Channel, NEW num \in Numbering(new)
  PROVE  /\ Cardinality(new) \in Nat
         /\ \A c \in new : num[c] \in Nat /\ nextStream <= num[c]
                           /\ num[c] < nextStream + Cardinality(new)
         /\ \A c, d \in new : num[c] = num[d] => c = d
<1>1. IsFiniteSet(new)
  BY FS_Subset, CaptureAssumption
<1>2. Cardinality(new) \in Nat
  BY <1>1, FS_CardinalityType
<1>3. nextStream \in Nat
  BY DEF OwnInv
<1> QED
  BY <1>2, <1>3 DEF Numbering

LEMMA ReconcileInv == OwnInv /\ Reconcile => OwnInv'
<1> SUFFICES ASSUME OwnInv, Reconcile PROVE OwnInv'
  OBVIOUS
<1> DEFINE new  == Offered \ Known
           gone == Known \ Offered
           kept == Offered \ new
<1>1. PICK num \in Numbering(new), begun \in SUBSET {c \in new : lan[c] \in restore} :
        /\ capture' = [c \in Channel |->
             IF c \in new
             THEN IF c \in begun THEN Started(Fresh(c, num[c])) ELSE Fresh(c, num[c])
             ELSE IF c \in Offered THEN [capture[c] EXCEPT !.key = lan[c]] ELSE None]
        /\ open' = (open \ Closed(gone)) \cup {<<num[c], 1>> : c \in begun}
  BY DEF Reconcile
<1>2. nextStream' = nextStream + Cardinality(new) /\ UNCHANGED lan
  BY DEF Reconcile
<1>3. /\ new \subseteq Channel /\ kept \subseteq Known /\ kept \subseteq Channel
      /\ new \cap kept = {} /\ begun \subseteq new /\ Offered = new \cup kept
  BY DEF Offered
<1>4. /\ Cardinality(new) \in Nat
      /\ \A c \in new : num[c] \in Nat /\ nextStream <= num[c]
                        /\ num[c] < nextStream + Cardinality(new)
      /\ \A c, d \in new : num[c] = num[d] => c = d
  BY <1>1, <1>3, NumbersAreNew
<1>5. \A c \in new \cup kept : lan[c] \in Key
  BY <1>3 DEF OwnInv, Offered
<1>6. /\ lan \in [Channel -> Key \cup {None}] /\ nextStream \in Nat
      /\ \A c \in Known : capture[c] \in Entry /\ capture[c].stream < nextStream
      /\ \A c, d \in Known : capture[c].stream = capture[d].stream => c = d
  BY KnownEntry DEF OwnInv
<1>7. None \notin Entry
  BY CaptureAssumption DEF Entry
<1> HIDE DEF new, gone, kept
<1>8. \A c \in new : /\ capture'[c] \in Entry /\ capture'[c].stream = num[c]
                     /\ capture'[c].on <=> c \in begun
                     /\ c \in begun => capture'[c].starts = 1
  <2> SUFFICES ASSUME NEW c \in new
               PROVE  /\ capture'[c] \in Entry /\ capture'[c].stream = num[c]
                      /\ capture'[c].on <=> c \in begun
                      /\ c \in begun => capture'[c].starts = 1
    OBVIOUS
  <2>1. lan[c] \in Key /\ num[c] \in Nat
    BY <1>4, <1>5
  <2>2. CASE c \in begun
    <3>1. capture'[c] = Started(Fresh(c, num[c]))
      BY <1>1, <1>3, <2>2
    <3> QED
      BY <2>1, <2>2, <3>1, StartedIs, FreshIs
  <2>3. CASE c \notin begun
    <3>1. capture'[c] = Fresh(c, num[c])
      BY <1>1, <1>3, <2>3
    <3> QED
      BY <2>1, <2>3, <3>1, FreshIs
  <2> QED
    BY <2>2, <2>3
<1>9. \A c \in kept : /\ capture'[c] \in Entry /\ capture'[c].stream = capture[c].stream
                      /\ capture'[c].on = capture[c].on
                      /\ capture'[c].starts = capture[c].starts
  <2> SUFFICES ASSUME NEW c \in kept
               PROVE  /\ capture'[c] \in Entry /\ capture'[c].stream = capture[c].stream
                      /\ capture'[c].on = capture[c].on
                      /\ capture'[c].starts = capture[c].starts
    OBVIOUS
  <2>1. capture'[c] = [capture[c] EXCEPT !.key = lan[c]]
    BY <1>1, <1>3
  <2> QED
    BY <2>1, <1>3, <1>5, <1>6 DEF Entry
<1>10. \A c \in Channel \ (new \cup kept) : capture'[c] = None
  BY <1>1, <1>3
<1>11. Known' = new \cup kept
  BY <1>3, <1>7, <1>8, <1>9, <1>10 DEF Known
<1>12. capture' \in [Channel -> Entry \cup {None}]
  <2>1. capture' = [c \in Channel |-> capture'[c]]
    BY <1>1
  <2> QED
    BY <2>1, <1>8, <1>9, <1>10
<1>13. nextStream' \in Nat /\ \A c \in Known' : capture'[c].stream < nextStream'
  <2>1. \A c \in new : capture'[c].stream < nextStream'
    BY <1>2, <1>4, <1>6, <1>8
  <2>2. \A c \in kept : capture'[c].stream < nextStream'
    <3> SUFFICES ASSUME NEW c \in kept PROVE capture'[c].stream < nextStream'
      OBVIOUS
    <3>1. capture[c].stream \in Nat /\ capture[c].stream < nextStream
      BY <1>3, <1>6 DEF Entry
    <3> QED
      BY <3>1, <1>2, <1>4, <1>6, <1>9
  <2> QED
    BY <2>1, <2>2, <1>2, <1>4, <1>6, <1>11
<1>14. \A c, d \in Known' : capture'[c].stream = capture'[d].stream => c = d
  <2>1. \A c \in new, d \in kept : capture'[c].stream # capture'[d].stream
    <3> SUFFICES ASSUME NEW c \in new, NEW d \in kept
                 PROVE  capture'[c].stream # capture'[d].stream
      OBVIOUS
    <3>1. capture[d].stream \in Nat /\ capture[d].stream < nextStream
      BY <1>3, <1>6 DEF Entry
    <3> QED
      BY <3>1, <1>4, <1>6, <1>8, <1>9
  <2>2. \A c, d \in new : capture'[c].stream = capture'[d].stream => c = d
    BY <1>4, <1>8
  <2>3. \A c, d \in kept : capture'[c].stream = capture'[d].stream => c = d
    BY <1>3, <1>6, <1>9
  <2> QED
    BY <2>1, <2>2, <2>3, <1>11
<1>15. open' = {<<capture'[c].stream, capture'[c].starts>> : c \in Enabled'}
  <2>1. Enabled' = begun \cup (Enabled \ gone)
    <3>1. \A c \in Known' : c \in Enabled' <=> capture'[c].on
      BY DEF Enabled
    <3>2. Known \ gone = kept
      BY DEF gone, kept, new
    <3>3. \A c \in kept : c \in Enabled <=> capture[c].on
      BY <1>3 DEF Enabled
    <3>4. Enabled \subseteq Known /\ Enabled' \subseteq Known'
      BY DEF Enabled
    <3> QED
      BY <3>1, <3>2, <3>3, <3>4, <1>3, <1>8, <1>9, <1>11
  <2>2. Enabled \ gone \subseteq kept
    BY DEF gone, kept, new, Enabled
  <2>3. open \ Closed(gone) = {SourceOf(c) : c \in Enabled \ gone}
    BY ClosedLeaves
  <2>4. \A c \in Enabled \ gone :
          SourceOf(c) = <<capture'[c].stream, capture'[c].starts>>
    BY <2>2, <1>9 DEF SourceOf
  <2>5. \A c \in begun : <<num[c], 1>> = <<capture'[c].stream, capture'[c].starts>>
    BY <1>3, <1>8
  <2> DEFINE at(c) == <<capture'[c].stream, capture'[c].starts>>
  <2>6. open \ Closed(gone) = {at(c) : c \in Enabled \ gone}
    BY <2>3, <2>4
  <2>7. {<<num[c], 1>> : c \in begun} = {at(c) : c \in begun}
    BY <2>5
  <2>8. open' = {at(c) : c \in Enabled \ gone} \cup {at(c) : c \in begun}
    BY <1>1, <2>6, <2>7
  <2> HIDE DEF at
  <2>9. open' = {at(c) : c \in Enabled'}
    BY <2>1, <2>8
  <2> QED
    BY <2>9 DEF at
<1> QED
  BY <1>2, <1>6, <1>12, <1>13, <1>14, <1>15 DEF OwnInv, SourceOf

\* A toggle moves the channel's own entry only.
LEMMA ToggleInv ==
  ASSUME OwnInv, NEW c \in Channel, NEW on \in BOOLEAN, SetCaptureEnabled(c, on)
  PROVE  OwnInv'
<1>1. c \in Known /\ UNCHANGED <<lan, nextStream>>
  BY DEF SetCaptureEnabled
<1>2. /\ capture[c] \in Entry /\ None \notin Entry
      /\ capture \in [Channel -> Entry \cup {None}]
  BY <1>1, KnownEntry, CaptureAssumption DEF Entry, OwnInv
<1>3. ASSUME NEW e \in Entry, e.stream = capture[c].stream, capture' = [capture EXCEPT ![c] = e],
             open' = {<<capture'[d].stream, capture'[d].starts>> : d \in Enabled'}
      PROVE  OwnInv'
  <2>1. Known' = Known
    BY <1>1, <1>2, <1>3 DEF Known
  <2>2. \A d \in Known : capture'[d].stream = capture[d].stream
    BY <1>1, <1>2, <1>3
  <2>3. capture' \in [Channel -> Entry \cup {None}]
    BY <1>2, <1>3
  <2> QED
    BY <1>1, <1>3, <2>1, <2>2, <2>3 DEF OwnInv, SourceOf
<1>4. CASE on /\ ~capture[c].on /\ capture' = [capture EXCEPT ![c] = Started(@)]
           /\ open' = open \cup {<<capture[c].stream, capture[c].starts + 1>>}
  <2>1. capture' = [capture EXCEPT ![c] = Started(capture[c])]
    BY <1>4
  <2>2. /\ Started(capture[c]) \in Entry /\ Started(capture[c]).stream = capture[c].stream
        /\ Started(capture[c]).on /\ Started(capture[c]).starts = capture[c].starts + 1
    BY <1>2, StartedIs
  <2>3. Enabled' = Enabled \cup {c} /\ c \notin Enabled
    BY <1>1, <1>2, <1>4, <2>1, <2>2 DEF Enabled, Known
  <2>4. \A d \in Enabled : <<capture'[d].stream, capture'[d].starts>> = SourceOf(d)
    BY <1>2, <2>1, <2>3 DEF SourceOf, Enabled, Known
  <2>5. capture'[c] = Started(capture[c])
    BY <1>2, <2>1
  <2>6. open = {SourceOf(d) : d \in Enabled}
    BY DEF OwnInv
  <2>7. open' = {<<capture'[d].stream, capture'[d].starts>> : d \in Enabled'}
    BY <1>4, <2>2, <2>3, <2>4, <2>5, <2>6
  <2> QED
    BY <1>3, <2>1, <2>2, <2>7
<1>5. CASE ~on
  <2>1. capture' = [capture EXCEPT ![c] = Stopped(capture[c])] /\ open' = open \ Closed({c})
    BY <1>5 DEF SetCaptureEnabled, DisableCapture
  <2>2. /\ Stopped(capture[c]) \in Entry /\ Stopped(capture[c]).stream = capture[c].stream
        /\ ~Stopped(capture[c]).on
    BY <1>2 DEF Stopped, Entry
  <2>3. Enabled' = Enabled \ {c}
    BY <1>1, <1>2, <2>1, <2>2 DEF Enabled, Known
  <2>4. \A d \in Enabled \ {c} : <<capture'[d].stream, capture'[d].starts>> = SourceOf(d)
    BY <1>2, <2>1 DEF SourceOf, Enabled, Known
  <2>5. open \ Closed({c}) = {SourceOf(d) : d \in Enabled \ {c}}
    BY ClosedLeaves
  <2>6. open' = {<<capture'[d].stream, capture'[d].starts>> : d \in Enabled'}
    BY <2>1, <2>3, <2>4, <2>5
  <2> QED
    BY <1>3, <2>1, <2>2, <2>6
<1>6. CASE on /\ UNCHANGED <<capture, open>>
  BY <1>1, <1>6, UnchangedInv DEF ownVars
<1> QED
  BY <1>4, <1>5, <1>6 DEF SetCaptureEnabled, EnableCapture

\* Stop closes whatever is left.
LEMMA StopInv == OwnInv /\ StopWaited => OwnInv'
<1> SUFFICES ASSUME OwnInv, StopWaited PROVE OwnInv'
  OBVIOUS
<1>1. open \ Closed(Known) = {SourceOf(c) : c \in Enabled \ Known}
  BY ClosedLeaves
<1>2. open' = {} /\ Known' = {} /\ Enabled' = {}
  BY <1>1 DEF StopWaited, Known, Enabled
<1> QED
  BY <1>2 DEF StopWaited, OwnInv

LEMMA DrainInv ==
  ASSUME OwnInv, NEW d \in drains, DrainBegin(d) \/ DrainTick(d) \/ DrainPop(d) \/ DrainDone(d)
  PROVE  OwnInv'
  BY UnchangedInv DEF DrainBegin, DrainTick, DrainPop, DrainDone, ownVars

LEMMA CaptureStepInv == OwnInv /\ CaptureStep => OwnInv'
<1>1. OwnInv /\ DiscoveryEnds => OwnInv'
  BY UnchangedInv DEF DiscoveryEnds, ownVars
<1> QED
  BY <1>1, ReconcileInv, DrainInv, StopInv DEF CaptureStep

-----------------------------------------------------------------------------

LEMMA NextInv == OwnInv /\ [Next]_sendVars => OwnInv'
<1> SUFFICES ASSUME OwnInv, [Next]_sendVars PROVE OwnInv'
  OBVIOUS
<1>1. CASE UNCHANGED sendVars
  BY <1>1, UnchangedInv DEF sendVars, captureVars, ownVars
<1>2. CASE CaptureStep
  BY <1>2, CaptureStepInv
<1>3. CASE StopBegin
  BY <1>3, UnchangedInv DEF StopBegin, ownVars
<1>4. ASSUME NEW c \in Channel, NEW k \in Key \cup {None}, Publish(c, k) PROVE OwnInv'
  BY <1>4, PublishInv
<1>5. ASSUME NEW c \in Channel, NEW on \in BOOLEAN, ToggleCapture(c, on) PROVE OwnInv'
  BY <1>5, ToggleInv DEF ToggleCapture
<1>6. ASSUME NEW s \in Sender, NEW id \in UserStream \cup {None}, SetSender(s, id) PROVE OwnInv'
  BY <1>6, UnchangedInv DEF SetSender, ownVars
<1>7. ASSUME NEW set \in SUBSET UserStream, StreamNamesChanged(set) PROVE OwnInv'
  BY <1>7, UnchangedInv DEF StreamNamesChanged, ownVars
<1>8. ASSUME NEW due \in BOOLEAN, StatusTick(due) PROVE OwnInv'
  BY <1>8, UnchangedInv DEF StatusTick, captureVars, ownVars
<1>9. ASSUME NEW n \in 0 .. Capacity, OthersChange(n) PROVE OwnInv'
  BY <1>9, UnchangedInv DEF OthersChange, ownVars
<1>10. CASE HandleEvent
  BY <1>10, UnchangedInv DEF HandleEvent, captureVars, ownVars
<1>11. CASE RelayReads
  BY <1>11, UnchangedInv DEF RelayReads, captureVars, ownVars
<1>12. CASE Newcomer
  BY <1>12, UnchangedInv DEF Newcomer, captureVars, ownVars
<1>13. CASE Drop \/ Reconnect
  BY <1>13, UnchangedInv DEF Drop, Reconnect, captureVars, ownVars
<1> QED
  BY <1>1, <1>2, <1>3, <1>4, <1>5, <1>6, <1>7, <1>8, <1>9, <1>10, <1>11, <1>12, <1>13 DEF Next

-----------------------------------------------------------------------------
\* The types of what capture keeps.

LEMMA Numbers ==
  /\ MaxStreams \in Nat /\ MaxActs \in Nat /\ MaxStarts \in Nat /\ MaxStarts >= 1
  /\ Capacity \in Nat /\ MaxDrops \in Nat /\ Declared \in Nat /\ Declared >= 1
  BY CaptureAssumption, SendsAssumption

LEMMA NoneIsNoChannel == None \notin CaptureChannel /\ CaptureChannel \subseteq Entry
  BY CaptureAssumption, Numbers DEF CaptureChannel, Stream, Entry

LEMMA StartedType ==
  ASSUME NEW e \in CaptureChannel, e.starts < MaxStarts
  PROVE  Started(e) \in CaptureChannel /\ <<e.stream, e.starts + 1>> \in Source
<1> DEFINE m == e.starts + 1
<1>1. m \in 0 .. MaxStarts /\ m \in 1 .. MaxStarts
  BY Numbers DEF CaptureChannel
<1> HIDE DEF m
<1>2. [e EXCEPT !.on = TRUE, !.starts = m] \in CaptureChannel
  BY <1>1 DEF CaptureChannel
<1>3. <<e.stream, m>> \in Source
  BY <1>1 DEF CaptureChannel, Source
<1> QED
  BY <1>2, <1>3 DEF Started, m

LEMMA DrainType ==
  ASSUME NEW src \in Source
  PROVE  DrainOf(src) \in Drain
  BY DEF DrainOf, Drain

\* What a goroutine does leaves it a goroutine.
LEMMA GoesType ==
  ASSUME drains \subseteq Drain, NEW d \in drains, NEW s \in Source \cup {None},
         NEW at \in {"new", "select", "tick"}, Goes(d, s, at)
  PROVE  /\ drains' \subseteq Drain
         /\ [d EXCEPT !.src = s, !.at = at] \in Drain
         /\ [d EXCEPT !.src = s, !.at = at].for = d.for
  BY DEF Goes, Drain

LEMMA ReconcileType == OwnInv /\ CaptureTypeOK /\ Reconcile => CaptureTypeOK'
<1> SUFFICES ASSUME OwnInv, CaptureTypeOK, Reconcile PROVE CaptureTypeOK'
  OBVIOUS
<1> DEFINE new  == Offered \ Known
           gone == Known \ Offered
<1>1. PICK num \in Numbering(new), begun \in SUBSET {c \in new : lan[c] \in restore} :
        /\ capture' = [c \in Channel |->
             IF c \in new
             THEN IF c \in begun THEN Started(Fresh(c, num[c])) ELSE Fresh(c, num[c])
             ELSE IF c \in Offered THEN [capture[c] EXCEPT !.key = lan[c]] ELSE None]
        /\ open' = (open \ Closed(gone)) \cup {<<num[c], 1>> : c \in begun}
        /\ drains' = drains \cup {DrainOf(src) : src \in {<<num[c], 1>> : c \in begun}}
  BY DEF Reconcile
<1>2. /\ nextStream' = nextStream + Cardinality(new) /\ nextStream' <= MaxStreams
      /\ UNCHANGED <<lan, restore, discovery, life, dead, acts>>
  BY DEF Reconcile
<1>3. /\ Cardinality(new) \in Nat /\ nextStream \in 0 .. MaxStreams
      /\ \A c \in new : num[c] \in Nat /\ num[c] < nextStream + Cardinality(new)
  <2>1. new \subseteq Channel
    BY DEF Offered
  <2> HIDE DEF new
  <2> QED
    BY <1>1, <2>1, NumbersAreNew DEF CaptureTypeOK
<1>4. \A c \in new : num[c] \in Stream
  BY <1>2, <1>3, Numbers DEF Stream
<1>5. \A c \in Offered : lan[c] \in Key
  BY DEF Offered, CaptureTypeOK
<1>6. \A c \in new : Fresh(c, num[c]) \in CaptureChannel /\ Fresh(c, num[c]).starts = 0
                     /\ Fresh(c, num[c]).stream = num[c]
  BY <1>4, <1>5, Numbers DEF Fresh, CaptureChannel
<1>7. \A c \in new : Started(Fresh(c, num[c])) \in CaptureChannel
  <2> SUFFICES ASSUME NEW c \in new PROVE Started(Fresh(c, num[c])) \in CaptureChannel
    OBVIOUS
  <2>1. Fresh(c, num[c]) \in CaptureChannel /\ Fresh(c, num[c]).starts < MaxStarts
    BY <1>6, Numbers
  <2> QED
    BY <2>1, StartedType
<1>8. \A c \in begun : <<num[c], 1>> \in Source
  BY <1>4, Numbers DEF Source
<1>9. \A c \in Known \cap Offered : [capture[c] EXCEPT !.key = lan[c]] \in CaptureChannel
  BY <1>5 DEF CaptureTypeOK, CaptureChannel
<1>10. \A c \in Known' : capture'[c] \in CaptureChannel
  <2>1. Known' \subseteq Channel /\ \A c \in Known' : capture'[c] # None
    BY DEF Known
  <2> SUFFICES ASSUME NEW c \in Known' PROVE capture'[c] \in CaptureChannel
    OBVIOUS
  <2>2. CASE c \in begun
    BY <2>1, <2>2, <1>1, <1>7
  <2>3. CASE c \in new \ begun
    BY <2>1, <2>3, <1>1, <1>6
  <2>4. CASE c \notin new
    <3>1. c \in Known \cap Offered /\ capture'[c] = [capture[c] EXCEPT !.key = lan[c]]
      BY <2>1, <2>4, <1>1
    <3> QED
      BY <3>1, <1>9
  <2> QED
    BY <2>2, <2>3, <2>4
<1>11. open' \subseteq Source
  BY <1>1, <1>8 DEF CaptureTypeOK
<1>12. drains' \subseteq Drain
  BY <1>1, <1>8, DrainType DEF CaptureTypeOK
<1>13. nextStream' \in 0 .. MaxStreams
  BY <1>2, <1>3, Numbers
<1> HIDE DEF new, gone
<1> QED
  BY <1>2, <1>10, <1>11, <1>12, <1>13 DEF CaptureTypeOK

LEMMA ToggleType ==
  ASSUME OwnInv, CaptureTypeOK, NEW c \in Channel, NEW on \in BOOLEAN, SetCaptureEnabled(c, on)
  PROVE  CaptureTypeOK'
<1>1. c \in Known /\ UNCHANGED <<lan, nextStream, discovery, life, dead>> /\ acts' \in 0 .. MaxActs
  BY Numbers DEF SetCaptureEnabled, Act, CaptureTypeOK
<1>2. capture[c] \in CaptureChannel /\ capture[c].key \in Key
  BY <1>1 DEF CaptureTypeOK, CaptureChannel
<1>3. ASSUME NEW e \in CaptureChannel, capture' = [capture EXCEPT ![c] = e]
      PROVE  \A d \in Known' : capture'[d] \in CaptureChannel
  <2>1. \A d \in Channel \ {c} : capture'[d] = capture[d]
    BY <1>3 DEF OwnInv
  <2>2. capture'[c] = e
    BY <1>3 DEF OwnInv
  <2> QED
    BY <2>1, <2>2, <1>3 DEF Known, CaptureTypeOK
<1>4. CASE on /\ ~capture[c].on /\ capture[c].starts < MaxStarts
           /\ capture' = [capture EXCEPT ![c] = Started(@)]
           /\ open' = open \cup {<<capture[c].stream, capture[c].starts + 1>>}
           /\ drains' = drains \cup {DrainOf(<<capture[c].stream, capture[c].starts + 1>>)}
           /\ restore' = restore \cup {capture[c].key}
  <2>1. capture' = [capture EXCEPT ![c] = Started(capture[c])]
    BY <1>4
  <2>2. /\ Started(capture[c]) \in CaptureChannel
        /\ <<capture[c].stream, capture[c].starts + 1>> \in Source
    BY <1>2, <1>4, StartedType
  <2>3. open' \subseteq Source /\ drains' \subseteq Drain /\ restore' \subseteq Key
    BY <1>2, <1>4, <2>2, DrainType DEF CaptureTypeOK
  <2>4. \A d \in Known' : capture'[d] \in CaptureChannel
    BY <1>3, <2>1, <2>2
  <2> QED
    BY <1>1, <2>3, <2>4 DEF CaptureTypeOK
<1>5. CASE ~on
  <2>1. /\ capture' = [capture EXCEPT ![c] = Stopped(capture[c])]
        /\ open' \subseteq open /\ UNCHANGED drains /\ restore' \subseteq restore
    BY <1>5 DEF SetCaptureEnabled, DisableCapture
  <2>2. Stopped(capture[c]) \in CaptureChannel
    BY <1>2 DEF Stopped, CaptureChannel
  <2>3. \A d \in Known' : capture'[d] \in CaptureChannel
    BY <1>3, <2>1, <2>2
  <2> QED
    BY <1>1, <2>1, <2>3 DEF CaptureTypeOK
<1>6. CASE on /\ UNCHANGED <<capture, open, drains>> /\ restore' = restore \cup {capture[c].key}
  <2>1. restore' \subseteq Key
    BY <1>2, <1>6 DEF CaptureTypeOK
  <2>2. Known' = Known /\ \A d \in Known : capture'[d] = capture[d]
    BY <1>6 DEF Known
  <2> QED
    BY <1>1, <1>6, <2>1, <2>2 DEF CaptureTypeOK
<1> QED
  BY <1>4, <1>5, <1>6 DEF SetCaptureEnabled, EnableCapture

\* The source a goroutine takes is one of its channel's, or none.
LEMMA SourceTaken ==
  ASSUME OwnInv, CaptureTypeOK, NEW n, NEW src \in SourceNow(n)
  PROVE  src \in Source \cup {None}
<1>1. \A c \in Enabled : SourceOf(c) \in open
  BY DEF OwnInv
<1> QED
  BY <1>1 DEF SourceNow, CaptureTypeOK

LEMMA DrainStepType ==
  ASSUME OwnInv, CaptureTypeOK, NEW d \in drains,
         DrainBegin(d) \/ DrainTick(d) \/ DrainPop(d) \/ DrainDone(d)
  PROVE  CaptureTypeOK' /\ (DrainDone(d) \/ \E e \in Drain :
           e.for = d.for /\ drains' = (drains \ {d}) \cup {e})
<1>1. /\ UNCHANGED <<lan, capture, restore, nextStream, open, discovery, life, acts>>
      /\ dead' \in BOOLEAN
  BY DEF DrainBegin, DrainTick, DrainPop, DrainDone, CaptureTypeOK
<1>2. Known' = Known
  BY <1>1 DEF Known
<1>3. drains \subseteq Drain /\ d.src \in Source \cup {None}
  BY DEF CaptureTypeOK, Drain
<1>4. /\ drains' \subseteq Drain
      /\ DrainDone(d) \/ \E e \in Drain :
           e.for = d.for /\ drains' = (drains \ {d}) \cup {e}
  <2>1. ASSUME NEW s \in Source \cup {None}, NEW at \in {"new", "select", "tick"}, Goes(d, s, at)
        PROVE  /\ drains' \subseteq Drain
               /\ \E e \in Drain : e.for = d.for /\ drains' = (drains \ {d}) \cup {e}
    <3>1. /\ drains' \subseteq Drain
          /\ [d EXCEPT !.src = s, !.at = at] \in Drain
          /\ [d EXCEPT !.src = s, !.at = at].for = d.for
      BY <1>3, <2>1, GoesType
    <3>2. drains' = (drains \ {d}) \cup {[d EXCEPT !.src = s, !.at = at]}
      BY <2>1 DEF Goes
    <3> QED
      BY <3>1, <3>2
  <2>2. CASE DrainBegin(d)
    <3>1. PICK src \in SourceNow(d.for[1]) : Goes(d, src, "select")
      BY <2>2 DEF DrainBegin
    <3>2. src \in Source \cup {None}
      BY <3>1, SourceTaken
    <3> QED
      BY <3>1, <3>2, <2>1
  <2>3. CASE DrainTick(d)
    BY <2>3, <2>1, <1>3 DEF DrainTick
  <2>4. CASE DrainPop(d)
    BY <2>4, <2>1, <1>3 DEF DrainPop
  <2>5. CASE DrainDone(d)
    BY <2>5, <1>3 DEF DrainDone
  <2> QED
    BY <2>2, <2>3, <2>4, <2>5
<1> QED
  BY <1>1, <1>2, <1>4 DEF CaptureTypeOK

LEMMA CaptureStepType == OwnInv /\ CaptureTypeOK /\ CaptureStep => CaptureTypeOK'
<1> SUFFICES ASSUME OwnInv, CaptureTypeOK, CaptureStep PROVE CaptureTypeOK'
  OBVIOUS
<1>1. CASE DiscoveryEnds
  BY <1>1 DEF DiscoveryEnds, CaptureTypeOK, Known
<1>2. CASE StopWaited
  <2>1. Known' = {}
    BY <1>2 DEF StopWaited, Known
  <2> QED
    BY <1>2, <2>1 DEF StopWaited, CaptureTypeOK
<1> QED
  BY <1>1, <1>2, ReconcileType, DrainStepType DEF CaptureStep

-----------------------------------------------------------------------------
\* The goroutines that drain the sources: a source that is started now was
\* never started before, as its channel has begun fewer times, and its stream
\* is no former channel's.
DrainedInv ==
  /\ \A d \in drains : d.for[1] < nextStream
  /\ \A d \in drains, c \in Known :
       capture[c].stream = d.for[1] => d.for[2] <= capture[c].starts
  /\ \A d, e \in drains : d.for = e.for => d = e
  /\ life = "running" => open \subseteq {d.for : d \in drains}
  /\ life = "stopped" => drains = {} /\ open = {} /\ ~discovery

EngineInv == OwnInv /\ CaptureTypeOK /\ DrainedInv

LEMMA InvOwns == EngineInv => SourcesAreOwned
  BY DEF EngineInv, OwnInv, DrainedInv, SourcesAreOwned, Enabled, SourceOf

LEMMA DrainNamed ==
  ASSUME CaptureTypeOK, NEW d \in drains
  PROVE  d.for \in Source /\ d.for[1] \in Nat /\ d.for[2] \in Nat /\ d.for = <<d.for[1], d.for[2]>>
  BY Numbers DEF CaptureTypeOK, Drain, Source, Stream

\* What moves neither the channels nor the goroutines leaves them matched.
LEMMA UnchangedDrained ==
  ASSUME DrainedInv, UNCHANGED <<capture, nextStream, open, drains>>,
         discovery' => discovery, life' = life \/ (life = "running" /\ life' = "stopping")
  PROVE  DrainedInv'
  BY DEF DrainedInv, Known

LEMMA ReconcileDrained == EngineInv /\ Reconcile => DrainedInv'
<1> SUFFICES ASSUME EngineInv, Reconcile PROVE DrainedInv'
  OBVIOUS
<1> USE DEF EngineInv
<1> DEFINE new  == Offered \ Known
           gone == Known \ Offered
<1>1. PICK num \in Numbering(new), begun \in SUBSET {c \in new : lan[c] \in restore} :
        /\ capture' = [c \in Channel |->
             IF c \in new
             THEN IF c \in begun THEN Started(Fresh(c, num[c])) ELSE Fresh(c, num[c])
             ELSE IF c \in Offered THEN [capture[c] EXCEPT !.key = lan[c]] ELSE None]
        /\ open' = (open \ Closed(gone)) \cup {<<num[c], 1>> : c \in begun}
        /\ drains' = drains \cup {DrainOf(src) : src \in {<<num[c], 1>> : c \in begun}}
  BY DEF Reconcile
<1>2. nextStream' = nextStream + Cardinality(new) /\ UNCHANGED <<life, discovery>> /\ discovery
  BY DEF Reconcile
<1>3. new \subseteq Channel
  BY DEF Offered
<1>4. /\ Cardinality(new) \in Nat /\ nextStream \in Nat
      /\ \A c \in new : num[c] \in Nat /\ nextStream <= num[c]
                        /\ num[c] < nextStream + Cardinality(new)
      /\ \A c, d \in new : num[c] = num[d] => c = d
  <2> HIDE DEF new
  <2> QED
    BY <1>1, <1>3, NumbersAreNew DEF OwnInv
<1>5. ASSUME NEW c \in new
      PROVE  /\ capture'[c].stream = num[c] /\ capture'[c].starts \in Nat
             /\ c \in begun => capture'[c].starts = 1
  <2>1. lan[c] \in Key /\ num[c] \in Nat /\ c \in Channel
    BY <1>3, <1>4, <1>5 DEF Offered, CaptureTypeOK
  <2>2. /\ Fresh(c, num[c]) \in Entry /\ Fresh(c, num[c]).stream = num[c]
        /\ Fresh(c, num[c]).starts = 0
    BY <2>1, FreshIs
  <2>3. /\ Started(Fresh(c, num[c])).stream = num[c]
        /\ Started(Fresh(c, num[c])).starts = 1
    BY <2>2, StartedIs
  <2>4. CASE c \in begun
    BY <2>4, <2>1, <2>3, <1>1, <1>5
  <2>5. CASE c \notin begun
    BY <2>5, <2>1, <2>2, <1>1, <1>5
  <2> QED
    BY <2>4, <2>5
<1>6. ASSUME NEW c \in Known', c \notin new
      PROVE  /\ c \in Known /\ capture'[c].stream = capture[c].stream
             /\ capture'[c].starts = capture[c].starts
             /\ capture[c].stream \in Nat /\ capture[c].stream < nextStream
  <2>1. c \in Channel /\ capture'[c] # None
    BY <1>6 DEF Known
  <2>2. c \in Known /\ capture'[c] = [capture[c] EXCEPT !.key = lan[c]]
    BY <2>1, <1>1, <1>6
  <2>3. capture[c] \in Entry /\ capture[c].stream < nextStream
    BY <2>2, KnownEntry DEF OwnInv
  <2> QED
    BY <2>2, <2>3 DEF Entry
<1>7. ASSUME NEW d \in drains' \ drains
      PROVE  \E b \in begun : b \in new /\ d.for = <<num[b], 1>> /\ d = DrainOf(<<num[b], 1>>)
  BY <1>1, <1>7 DEF DrainOf
<1>8. \A d \in drains : d.for[1] \in Nat /\ d.for[2] \in Nat /\ d.for[1] < nextStream
  BY DrainNamed DEF DrainedInv
<1>9. \A d \in drains' \ drains : d.for[1] \in Nat /\ nextStream <= d.for[1] /\ d.for[1] < nextStream'
  <2> SUFFICES ASSUME NEW d \in drains' \ drains
               PROVE  d.for[1] \in Nat /\ nextStream <= d.for[1] /\ d.for[1] < nextStream'
    OBVIOUS
  <2>1. PICK b \in begun : b \in new /\ d.for = <<num[b], 1>>
    BY <1>7
  <2>2. d.for[1] = num[b]
    BY <2>1
  <2> HIDE DEF new
  <2> QED
    BY <2>1, <2>2, <1>2, <1>4
<1> HIDE DEF new, gone
<1>10. \A d \in drains' : d.for[1] < nextStream'
  BY <1>2, <1>4, <1>8, <1>9
<1>11. ASSUME NEW d \in drains', NEW c \in Known', capture'[c].stream = d.for[1]
       PROVE  d.for[2] <= capture'[c].starts
  <2>1. CASE d \in drains /\ c \in new
    BY <2>1, <1>4, <1>5, <1>8, <1>11
  <2>2. CASE d \in drains /\ c \notin new
    BY <2>2, <1>6, <1>11 DEF DrainedInv
  <2>3. CASE d \notin drains /\ c \in new
    <3>1. PICK b \in begun : b \in new /\ d.for = <<num[b], 1>>
      BY <1>7, <2>3
    <3>2. b = c
      BY <3>1, <2>3, <1>4, <1>5, <1>11
    <3> QED
      BY <3>1, <3>2, <1>5, <2>3
  <2>4. CASE d \notin drains /\ c \notin new
    BY <2>4, <1>4, <1>6, <1>9, <1>11
  <2> QED
    BY <2>1, <2>2, <2>3, <2>4
<1>12. ASSUME NEW d \in drains', NEW e \in drains', d.for = e.for
       PROVE  d = e
  <2>1. CASE d \in drains /\ e \in drains
    BY <2>1, <1>12 DEF DrainedInv
  <2>2. CASE d \notin drains /\ e \notin drains
    <3>1. PICK b \in begun : b \in new /\ d.for = <<num[b], 1>> /\ d = DrainOf(<<num[b], 1>>)
      BY <1>7, <2>2
    <3>2. PICK c \in begun : c \in new /\ e.for = <<num[c], 1>> /\ e = DrainOf(<<num[c], 1>>)
      BY <1>7, <2>2
    <3>3. num[b] = num[c]
      BY <3>1, <3>2, <1>12
    <3> QED
      BY <3>1, <3>2, <3>3
  <2>3. CASE (d \in drains /\ e \notin drains) \/ (d \notin drains /\ e \in drains)
    BY <2>3, <1>4, <1>8, <1>9, <1>12
  <2> QED
    BY <2>1, <2>2, <2>3
<1>13. life' = "running" => open' \subseteq {d.for : d \in drains'}
  <2> SUFFICES ASSUME life' = "running", NEW s \in open' PROVE \E d \in drains' : s = d.for
    OBVIOUS
  <2>1. CASE s \in open
    BY <2>1, <1>1, <1>2 DEF DrainedInv
  <2>2. CASE s \in {<<num[c], 1>> : c \in begun}
    <3>1. DrainOf(s) \in drains' /\ DrainOf(s).for = s
      BY <2>2, <1>1 DEF DrainOf
    <3> QED
      BY <3>1
  <2> QED
    BY <2>1, <2>2, <1>1
<1>14. life' # "stopped"
  BY <1>2 DEF DrainedInv
<1> QED
  BY <1>10, <1>11, <1>12, <1>13, <1>14 DEF DrainedInv

LEMMA ToggleDrained ==
  ASSUME EngineInv, NEW c \in Channel, NEW on \in BOOLEAN, SetCaptureEnabled(c, on)
  PROVE  DrainedInv'
<1> USE DEF EngineInv
<1>1. c \in Known /\ UNCHANGED <<nextStream, discovery, life>> /\ life = "running"
  BY DEF SetCaptureEnabled
<1>2. /\ capture[c] \in Entry /\ None \notin Entry /\ nextStream \in Nat
      /\ capture \in [Channel -> Entry \cup {None}]
      /\ \A d \in Known : capture[d] \in Entry
  BY <1>1, KnownEntry, CaptureAssumption DEF Entry, OwnInv
<1>3. \A d \in drains : d.for[1] \in Nat /\ d.for[2] \in Nat /\ d.for[1] < nextStream
  BY DrainNamed DEF DrainedInv
<1>4. ASSUME NEW e \in Entry, e.stream = capture[c].stream, capture' = [capture EXCEPT ![c] = e]
      PROVE  /\ Known' = Known
             /\ capture'[c] = e /\ \A d \in Known \ {c} : capture'[d] = capture[d]
  BY <1>1, <1>2, <1>4 DEF Known
<1>5. CASE on /\ ~capture[c].on
           /\ capture' = [capture EXCEPT ![c] = Started(@)]
           /\ open' = open \cup {<<capture[c].stream, capture[c].starts + 1>>}
           /\ drains' = drains \cup {DrainOf(<<capture[c].stream, capture[c].starts + 1>>)}
  <2> DEFINE src == <<capture[c].stream, capture[c].starts + 1>>
             fresh == DrainOf(src)
  <2>1. capture' = [capture EXCEPT ![c] = Started(capture[c])]
    BY <1>5
  <2>2. /\ Started(capture[c]) \in Entry /\ Started(capture[c]).stream = capture[c].stream
        /\ Started(capture[c]).starts = capture[c].starts + 1
    BY <1>2, StartedIs
  <2>3. /\ Known' = Known
        /\ capture'[c].stream = capture[c].stream /\ capture'[c].starts = capture[c].starts + 1
        /\ \A d \in Known \ {c} : capture'[d] = capture[d]
    BY <1>4, <2>1, <2>2
  <2>4. /\ fresh.for = src /\ src[1] = capture[c].stream /\ src[2] = capture[c].starts + 1
        /\ capture[c].stream \in Nat /\ capture[c].starts \in Nat
        /\ capture[c].stream < nextStream
    BY <1>1, <1>2 DEF DrainOf, Entry, OwnInv
  <2>5. drains' = drains \cup {fresh} /\ open' = open \cup {src}
    BY <1>5
  <2> HIDE DEF src, fresh
  <2>6. \A d \in drains : d.for # src
    <3> SUFFICES ASSUME NEW d \in drains, d.for = src PROVE FALSE
      OBVIOUS
    <3>1. d.for[2] <= capture[c].starts
      BY <1>1, <2>4 DEF DrainedInv
    <3> QED
      BY <3>1, <2>4
  <2>7. \A d \in drains' : d.for[1] < nextStream'
    BY <1>1, <1>3, <2>4, <2>5
  <2>8. ASSUME NEW d \in drains', NEW k \in Known', capture'[k].stream = d.for[1]
        PROVE  d.for[2] <= capture'[k].starts
    <3>1. CASE d \in drains /\ k = c
      <4>1. d.for[2] <= capture[c].starts
        BY <3>1, <2>3, <2>8, <1>1 DEF DrainedInv
      <4> QED
        BY <4>1, <3>1, <2>3, <2>4, <1>3
    <3>2. CASE d \in drains /\ k # c
      BY <3>2, <2>3, <2>8 DEF DrainedInv
    <3>3. CASE d \notin drains
      <4>1. d.for = src
        BY <3>3, <2>4, <2>5
      <4>2. k = c
        BY <4>1, <2>3, <2>4, <2>8, <1>1 DEF OwnInv
      <4> QED
        BY <4>1, <4>2, <2>3, <2>4
    <3> QED
      BY <3>1, <3>2, <3>3
  <2>9. \A d, e \in drains' : d.for = e.for => d = e
    BY <2>4, <2>5, <2>6 DEF DrainedInv
  <2>10. open' \subseteq {d.for : d \in drains'}
    BY <1>1, <2>4, <2>5 DEF DrainedInv
  <2> QED
    BY <1>1, <2>7, <2>8, <2>9, <2>10 DEF DrainedInv
<1>6. CASE ~on
  <2>1. /\ capture' = [capture EXCEPT ![c] = Stopped(capture[c])]
        /\ open' \subseteq open /\ UNCHANGED drains
    BY <1>6 DEF SetCaptureEnabled, DisableCapture
  <2>2. /\ Stopped(capture[c]) \in Entry /\ Stopped(capture[c]).stream = capture[c].stream
        /\ Stopped(capture[c]).starts = capture[c].starts
    BY <1>2 DEF Stopped, Entry
  <2>3. /\ Known' = Known
        /\ \A d \in Known : /\ capture'[d].stream = capture[d].stream
                            /\ capture'[d].starts = capture[d].starts
    BY <1>4, <2>1, <2>2
  <2> QED
    BY <1>1, <2>1, <2>3 DEF DrainedInv
<1>7. CASE UNCHANGED <<capture, open, drains>>
  BY <1>1, <1>7, UnchangedDrained
<1> QED
  BY <1>5, <1>6, <1>7 DEF SetCaptureEnabled, EnableCapture

\* A goroutine ends only when its source was closed, or with the engine.
LEMMA DrainStepDrained ==
  ASSUME EngineInv, NEW d \in drains,
         DrainBegin(d) \/ DrainTick(d) \/ DrainPop(d) \/ DrainDone(d)
  PROVE  DrainedInv'
<1> USE DEF EngineInv
<1>1. UNCHANGED <<capture, nextStream, open, discovery, life>>
  BY DEF DrainBegin, DrainTick, DrainPop, DrainDone
<1>2. Known' = Known
  BY <1>1 DEF Known
<1>3. life # "stopped"
  BY DEF DrainedInv
<1>4. CASE DrainDone(d)
  <2>1. drains' = drains \ {d} /\ Cancelled(d)
    BY <1>4 DEF DrainDone
  <2>2. life = "running" => d.for \notin open
    BY <2>1 DEF Cancelled, OwnInv, SourceOf
  <2>3. life' = "running" => open' \subseteq {e.for : e \in drains'}
    BY <1>1, <2>1, <2>2 DEF DrainedInv
  <2> QED
    BY <1>1, <1>2, <1>3, <2>1, <2>3 DEF DrainedInv
<1>5. ASSUME NEW e \in Drain, e.for = d.for, drains' = (drains \ {d}) \cup {e}
      PROVE  DrainedInv'
  <2>1. \A x \in drains' : \E y \in drains : y.for = x.for
    BY <1>5
  <2>2. \A x \in drains : \E y \in drains' : y.for = x.for
    BY <1>5
  <2>3. \A x \in drains' : x.for[1] < nextStream'
    BY <2>1, <1>1 DEF DrainedInv
  <2>4. ASSUME NEW x \in drains', NEW c \in Known, capture'[c].stream = x.for[1]
        PROVE  x.for[2] <= capture'[c].starts
    BY <2>1, <2>4, <1>1 DEF DrainedInv
  <2>5. \A x, y \in drains' : x.for = y.for => x = y
    BY <1>5 DEF DrainedInv
  <2>6. life' = "running" => open' \subseteq {x.for : x \in drains'}
    BY <2>2, <1>1 DEF DrainedInv
  <2> QED
    BY <1>1, <1>2, <1>3, <2>3, <2>4, <2>5, <2>6 DEF DrainedInv
<1>6. CASE ~DrainDone(d)
  BY <1>5, <1>6, DrainStepType
<1> QED
  BY <1>4, <1>6

LEMMA CaptureStepDrained == EngineInv /\ CaptureStep => DrainedInv'
<1> SUFFICES ASSUME EngineInv, CaptureStep PROVE DrainedInv'
  OBVIOUS
<1>1. CASE DiscoveryEnds
  BY <1>1, UnchangedDrained DEF EngineInv, DiscoveryEnds
<1>2. CASE StopWaited
  <2>1. open' = {} /\ drains' = {} /\ ~discovery'
    <3>1. open \ Closed(Known) = {SourceOf(c) : c \in Enabled \ Known}
      BY ClosedLeaves DEF EngineInv
    <3> QED
      BY <1>2, <3>1 DEF StopWaited, Enabled
  <2> QED
    BY <2>1, <1>2 DEF DrainedInv, StopWaited
<1> QED
  BY <1>1, <1>2, ReconcileDrained, DrainStepDrained DEF CaptureStep, EngineInv

\* The same of every step of Sends.
LEMMA NextEngine == EngineInv /\ [Next]_sendVars => EngineInv'
<1> SUFFICES ASSUME EngineInv, [Next]_sendVars PROVE CaptureTypeOK' /\ DrainedInv'
  BY NextInv DEF EngineInv
<1> USE DEF EngineInv
<1>1. ASSUME UNCHANGED <<lan, capture, restore, nextStream, open, drains, discovery, life, dead>>,
             acts' \in 0 .. MaxActs
      PROVE  CaptureTypeOK' /\ DrainedInv'
  <2>1. DrainedInv'
    BY <1>1, UnchangedDrained
  <2>2. CaptureTypeOK'
    BY <1>1 DEF CaptureTypeOK, Known
  <2> QED
    BY <2>1, <2>2
<1>2. acts \in 0 .. MaxActs /\ (Act => acts' \in 0 .. MaxActs)
  BY Numbers DEF CaptureTypeOK, Act
<1>3. CASE UNCHANGED captureVars
  BY <1>1, <1>2, <1>3 DEF captureVars
<1>4. CASE CaptureStep
  BY <1>4, CaptureStepType, CaptureStepDrained
<1>5. CASE StopBegin
  <2>1. DrainedInv'
    BY <1>5, UnchangedDrained DEF StopBegin
  <2>2. CaptureTypeOK'
    BY <1>5 DEF StopBegin, CaptureTypeOK, Known
  <2> QED
    BY <2>1, <2>2
<1>6. ASSUME NEW c \in Channel, NEW k \in Key \cup {None}, Publish(c, k)
      PROVE  CaptureTypeOK' /\ DrainedInv'
  <2>1. DrainedInv'
    BY <1>6, UnchangedDrained DEF Publish
  <2>2. CaptureTypeOK'
    BY <1>2, <1>6 DEF Publish, CaptureTypeOK, Known
  <2> QED
    BY <2>1, <2>2
<1>7. ASSUME NEW c \in Channel, NEW on \in BOOLEAN, ToggleCapture(c, on)
      PROVE  CaptureTypeOK' /\ DrainedInv'
  BY <1>7, ToggleType, ToggleDrained DEF ToggleCapture
<1>8. ASSUME NEW s \in Sender, NEW id \in UserStream \cup {None}, SetSender(s, id)
      PROVE  CaptureTypeOK' /\ DrainedInv'
  BY <1>1, <1>2, <1>8 DEF SetSender
<1>9. ASSUME NEW set \in SUBSET UserStream, StreamNamesChanged(set)
      PROVE  CaptureTypeOK' /\ DrainedInv'
  BY <1>1, <1>2, <1>9 DEF StreamNamesChanged
<1>10. ASSUME NEW n \in 0 .. Capacity, OthersChange(n) PROVE CaptureTypeOK' /\ DrainedInv'
  BY <1>1, <1>2, <1>10 DEF OthersChange
<1>11. CASE Newcomer
  BY <1>1, <1>2, <1>11 DEF Newcomer
<1>12. CASE (\E due \in BOOLEAN : StatusTick(due)) \/ HandleEvent \/ RelayReads \/ Drop \/ Reconnect
  BY <1>3, <1>12 DEF StatusTick, HandleEvent, RelayReads, Drop, Reconnect
<1>13. CASE UNCHANGED sendVars
  BY <1>3, <1>13 DEF sendVars
<1> QED
  BY <1>4, <1>5, <1>6, <1>7, <1>8, <1>9, <1>10, <1>11, <1>12, <1>13 DEF Next

LEMMA InitEngine == Init => EngineInv
<1> SUFFICES ASSUME Init PROVE EngineInv
  OBVIOUS
<1>1. OwnInv
  BY InitInv DEF Init
<1>2. Known = {}
  BY DEF Init, CaptureInit, Known
<1>3. CaptureTypeOK
  <2>1. lan \in [Channel -> Key \cup {None}]
    BY DEF Init, CaptureInit
  <2>2. 0 \in 0 .. MaxStreams /\ 0 \in 0 .. MaxActs
    BY Numbers
  <2>3. restore \subseteq Key
    BY CaptureAssumption DEF Init, CaptureInit
  <2>4. /\ nextStream = 0 /\ acts = 0 /\ open = {} /\ drains = {}
        /\ discovery = TRUE /\ life = "running" /\ dead = FALSE
    BY DEF Init, CaptureInit
  <2> QED
    BY <1>2, <2>1, <2>2, <2>3, <2>4 DEF CaptureTypeOK
<1>4. DrainedInv
  BY <1>2 DEF Init, CaptureInit, DrainedInv
<1> QED
  BY <1>1, <1>3, <1>4 DEF EngineInv

\* Whatever becomes of the channels, the sources that are open are those of the
\* channels that are sent, one each, each has the one goroutine that drains it,
\* and an engine that stopped has neither.
THEOREM SourcesStayOwned == Spec => []SourcesAreOwned
  BY InitEngine, NextEngine, InvOwns, PTL DEF Spec

-----------------------------------------------------------------------------
\* What a session says it sends.  The messages of a queue:

LEMMA Appended ==
  ASSUME NEW S, NEW q \in Seq(S), NEW m \in S
  PROVE  /\ Append(q, m) \in Seq(S)
         /\ Len(q) \in Nat /\ DOMAIN q = 1 .. Len(q)
         /\ DOMAIN Append(q, m) = 1 .. (Len(q) + 1)
         /\ Append(q, m)[Len(q) + 1] = m
         /\ \A i \in 1 .. Len(q) : Append(q, m)[i] = q[i]
  BY AppendProperties, LenProperties

LEMMA Shortened ==
  ASSUME NEW S, NEW q \in Seq(S), q # <<>>
  PROVE  /\ Tail(q) \in Seq(S) /\ Head(q) \in S /\ Head(q) = q[1]
         /\ Len(q) \in Nat /\ DOMAIN q = 1 .. Len(q) /\ Len(q) >= 1
         /\ DOMAIN Tail(q) = 1 .. (Len(q) - 1)
         /\ \A i \in 1 .. (Len(q) - 1) : Tail(q)[i] = q[i + 1]
<1>1. Len(q) \in Nat /\ DOMAIN q = 1 .. Len(q) /\ Len(q) >= 1
  BY LenProperties, EmptySeq
<1>2. /\ Tail(q) \in Seq(S) /\ Head(q) \in S /\ Len(Tail(q)) = Len(q) - 1
      /\ \A i \in 1 .. Len(Tail(q)) : Tail(q)[i] = q[i + 1]
  BY HeadTailProperties
<1>3. DOMAIN Tail(q) = 1 .. Len(Tail(q))
  BY <1>2, LenProperties
<1>4. Head(q) = q[1]
  BY <1>1
<1> QED
  BY <1>1, <1>2, <1>3, <1>4

\* m is the newest message of its type in q; q has no message of a type.
Tells(q, m) ==
  \E i \in DOMAIN q : q[i] = m /\ \A j \in DOMAIN q : q[j].type = m.type => j <= i
Silent(q, type) == \A i \in DOMAIN q : q[i].type # type
Holds(q, x) == \E i \in DOMAIN q : q[i] = x

LEMMA AppendTells ==
  ASSUME NEW S, NEW q \in Seq(S), NEW m \in S
  PROVE  /\ Tells(Append(q, m), m)
         /\ \A x \in S : x.type # m.type /\ Tells(q, x) => Tells(Append(q, m), x)
         /\ \A t : t # m.type /\ Silent(q, t) => Silent(Append(q, m), t)
         /\ \A x : Holds(Append(q, m), x) <=> Holds(q, x) \/ x = m
<1> DEFINE r == Append(q, m)
           n == Len(q)
<1>1. /\ n \in Nat /\ DOMAIN q = 1 .. n /\ DOMAIN r = 1 .. (n + 1)
      /\ r[n + 1] = m /\ \A i \in 1 .. n : r[i] = q[i]
  BY Appended
<1> HIDE DEF r, n
<1>2. Tells(r, m)
  <2>1. n + 1 \in DOMAIN r /\ \A j \in DOMAIN r : j <= n + 1
    BY <1>1
  <2> QED
    BY <2>1, <1>1 DEF Tells
<1>3. ASSUME NEW x \in S, x.type # m.type, Tells(q, x) PROVE Tells(r, x)
  <2>1. PICK i \in 1 .. n : q[i] = x /\ \A j \in 1 .. n : q[j].type = x.type => j <= i
    BY <1>1, <1>3 DEF Tells
  <2>2. i \in DOMAIN r /\ r[i] = x
    BY <1>1, <2>1
  <2>3. ASSUME NEW j \in DOMAIN r, r[j].type = x.type PROVE j <= i
    <3>1. j # n + 1
      BY <1>1, <1>3, <2>3
    <3>2. j \in 1 .. n
      BY <3>1, <1>1
    <3> QED
      BY <3>2, <2>1, <2>3, <1>1
  <2> QED
    BY <2>2, <2>3 DEF Tells
<1>4. ASSUME NEW t, t # m.type, Silent(q, t) PROVE Silent(r, t)
  <2> SUFFICES ASSUME NEW i \in DOMAIN r PROVE r[i].type # t
    BY DEF Silent
  <2>1. i = n + 1 \/ i \in 1 .. n
    BY <1>1
  <2> QED
    BY <2>1, <1>1, <1>4 DEF Silent
<1>5. ASSUME NEW x PROVE Holds(r, x) <=> Holds(q, x) \/ x = m
  <2>1. DOMAIN r = DOMAIN q \cup {n + 1}
    BY <1>1
  <2> QED
    BY <2>1, <1>1 DEF Holds
<1> QED
  BY <1>2, <1>3, <1>4, <1>5 DEF r

LEMMA TailTells ==
  ASSUME NEW S, NEW q \in Seq(S), q # <<>>
  PROVE  /\ \A m \in S : Tells(q, m) =>
              Tells(Tail(q), m) \/ (Head(q) = m /\ Silent(Tail(q), m.type))
         /\ \A t : Silent(q, t) => Silent(Tail(q), t) /\ Head(q).type # t
         /\ \A x : Holds(q, x) <=> Holds(Tail(q), x) \/ Head(q) = x
<1> DEFINE r == Tail(q)
           n == Len(q)
<1>1. /\ n \in Nat /\ n >= 1 /\ DOMAIN q = 1 .. n /\ DOMAIN r = 1 .. (n - 1)
      /\ Head(q) = q[1] /\ \A i \in 1 .. (n - 1) : r[i] = q[i + 1]
  BY Shortened
<1> HIDE DEF r, n
<1>2. ASSUME NEW m \in S, Tells(q, m) PROVE Tells(r, m) \/ (q[1] = m /\ Silent(r, m.type))
  <2>1. PICK i \in 1 .. n : q[i] = m /\ \A j \in 1 .. n : q[j].type = m.type => j <= i
    BY <1>1, <1>2 DEF Tells
  <2>2. CASE i = 1
    <3>1. ASSUME NEW j \in DOMAIN r PROVE r[j].type # m.type
      <4>1. j + 1 \in 1 .. n /\ r[j] = q[j + 1] /\ ~(j + 1 <= i)
        BY <1>1, <2>2
      <4> QED
        BY <4>1, <2>1
    <3> QED
      BY <3>1, <2>1, <2>2 DEF Silent
  <2>3. CASE i # 1
    <3>1. i - 1 \in DOMAIN r /\ r[i - 1] = m
      <4>1. i - 1 \in 1 .. (n - 1) /\ (i - 1) + 1 = i
        BY <2>3, <1>1
      <4> QED
        BY <4>1, <1>1, <2>1
    <3>2. ASSUME NEW j \in DOMAIN r, r[j].type = m.type PROVE j <= i - 1
      <4>1. j \in 1 .. (n - 1) /\ j + 1 \in 1 .. n
        BY <1>1
      <4>2. q[j + 1].type = m.type
        BY <4>1, <1>1, <3>2
      <4>3. j + 1 <= i
        BY <4>1, <4>2, <2>1
      <4> QED
        BY <4>1, <4>3
    <3> QED
      BY <3>1, <3>2 DEF Tells
  <2> QED
    BY <2>2, <2>3
<1>3. ASSUME NEW t, Silent(q, t) PROVE Silent(r, t) /\ q[1].type # t
  <2>1. \A i \in DOMAIN r : i + 1 \in DOMAIN q /\ r[i] = q[i + 1]
    BY <1>1
  <2> QED
    BY <2>1, <1>1, <1>3 DEF Silent
<1>4. ASSUME NEW x PROVE Holds(q, x) <=> Holds(r, x) \/ q[1] = x
  <2>1. \A i \in DOMAIN r : i + 1 \in DOMAIN q /\ r[i] = q[i + 1]
    BY <1>1
  <2>2. \A i \in DOMAIN q : i = 1 \/ (i - 1 \in DOMAIN r /\ r[i - 1] = q[i])
    <3> SUFFICES ASSUME NEW i \in 1 .. n, i # 1 PROVE i - 1 \in DOMAIN r /\ r[i - 1] = q[i]
      BY <1>1
    <3>1. i - 1 \in 1 .. (n - 1) /\ (i - 1) + 1 = i
      BY <1>1
    <3> QED
      BY <3>1, <1>1
  <2>3. 1 \in DOMAIN q
    BY <1>1
  <2> QED
    BY <2>1, <2>2, <2>3 DEF Holds
<1> QED
  BY <1>1, <1>2, <1>3, <1>4 DEF r

LEMMA NothingTold == Silent(<<>>, "count") /\ Silent(<<>>, "names")
  BY DEF Silent

LEMMA Told ==
  /\ \A n \in Nat : Count(n) \in Message /\ Count(n).type = "count" /\ Count(n).n = n
  /\ \A set \in SUBSET AnyStream :
       Names(set) \in Message /\ Names(set).type = "names" /\ Names(set).streams = set
  BY DEF Count, Names, Message

LEMMA Messages ==
  ASSUME NEW m \in Message
  PROVE  \/ m.type = "names" /\ m.streams \subseteq AnyStream /\ m = Names(m.streams)
         \/ m.type = "count" /\ m.n \in Nat /\ m = Count(m.n)
<1>1. CASE m \in [type : {"names"}, streams : SUBSET AnyStream]
  BY <1>1 DEF Names
<1>2. CASE m \in [type : {"count"}, n : Nat]
  BY <1>2 DEF Count
<1> QED
  BY <1>1, <1>2 DEF Message

LEMMA MaxOfOne == \A n \in Nat : Max({1, n}) \in Nat /\ Max({1, n}) >= 1
<1> SUFFICES ASSUME NEW n \in Nat PROVE Max({1, n}) \in Nat /\ Max({1, n}) >= 1
  OBVIOUS
<1>1. \E x \in {1, n} : \A y \in {1, n} : x >= y
  <2>1. CASE n >= 1
    BY <2>1
  <2>2. CASE ~(n >= 1)
    BY <2>2
  <2> QED
    BY <2>1, <2>2
<1>2. Max({1, n}) \in {1, n} /\ \A y \in {1, n} : Max({1, n}) >= y
  BY <1>1 DEF Max
<1> QED
  BY <1>2

LEMMA StreamsType == CaptureTypeOK => CaptureStreams(capture) \subseteq Stream
  BY DEF CaptureStreams, CaptureTypeOK, Known, CaptureChannel

\* The count the session wants is a count.
LEMMA WantedType == CaptureTypeOK => Wanted \in Nat
<1> SUFFICES ASSUME CaptureTypeOK PROVE Wanted \in Nat
  OBVIOUS
<1>1. IsFiniteSet(Stream)
  BY FS_Interval, Numbers DEF Stream
<1>2. IsFiniteSet(CaptureStreams(capture))
  BY <1>1, StreamsType, FS_Subset
<1>3. IsFiniteSet(Senders(sending))
  BY FS_Subset, SendsAssumption DEF Senders
<1>4. Cardinality(CaptureStreams(capture)) \in Nat /\ Cardinality(Senders(sending)) \in Nat
  BY <1>2, <1>3, FS_CardinalityType
<1>5. Cardinality(CaptureStreams(capture)) + Cardinality(Senders(sending)) \in Nat
  BY <1>4
<1> QED
  BY <1>5, MaxOfOne DEF Wanted

LEMMA EffectiveType ==
  ASSUME CaptureTypeOK, NEW set \in SUBSET UserStream
  PROVE  Effective(capture, set) \subseteq AnyStream
  BY StreamsType DEF Effective, AnyStream

-----------------------------------------------------------------------------
\* The slots that are taken are no more than there are.
RoomNotOverbooked == others + count <= Capacity

\* What is under way, in these words.  A connection that was lost carries
\* nothing.
LinkInv ==
  /\ link \/ (outbox = <<>> /\ inbox = <<>>)
  /\ drops = 0 => link

CountInv ==
  link => \/ Tells(outbox, Count(last))
          \/ Silent(outbox, "count") /\ (count = last \/ rejected \/ Holds(inbox, "error"))

NamesInv ==
  drops = 0 /\ sent # {} /\ ~Holds(inbox, "joined") =>
    \/ Tells(outbox, Names(sent))
    \/ Silent(outbox, "names") /\ heard = sent

ToldInv == EngineInv /\ SendsTypeOK /\ RoomNotOverbooked /\ LinkInv /\ CountInv /\ NamesInv

\* The newest message of a type tells what it is to tell.
LEMMA NewestTells ==
  ASSUME outbox \in Seq(Message)
  PROVE  /\ \A n \in Nat : Tells(outbox, Count(n)) =>
              UnderWay("count") # {} /\ \E i \in Newest("count") : outbox[i].n = n
         /\ \A set \in SUBSET AnyStream : Tells(outbox, Names(set)) =>
              UnderWay("names") # {} /\ \E i \in Newest("names") : outbox[i].streams = set
         /\ \A t : Silent(outbox, t) => UnderWay(t) = {}
<1>1. ASSUME NEW n \in Nat, Tells(outbox, Count(n))
      PROVE  UnderWay("count") # {} /\ \E i \in Newest("count") : outbox[i].n = n
  <2>1. Count(n).type = "count" /\ Count(n).n = n
    BY Told
  <2>2. PICK i \in DOMAIN outbox : outbox[i] = Count(n)
                                   /\ \A j \in DOMAIN outbox : outbox[j].type = "count" => j <= i
    BY <1>1, <2>1 DEF Tells
  <2> QED
    BY <2>1, <2>2 DEF UnderWay, Newest
<1>2. ASSUME NEW set \in SUBSET AnyStream, Tells(outbox, Names(set))
      PROVE  UnderWay("names") # {} /\ \E i \in Newest("names") : outbox[i].streams = set
  <2>1. Names(set).type = "names" /\ Names(set).streams = set
    BY Told
  <2>2. PICK i \in DOMAIN outbox : outbox[i] = Names(set)
                                   /\ \A j \in DOMAIN outbox : outbox[j].type = "names" => j <= i
    BY <1>2, <2>1 DEF Tells
  <2> QED
    BY <2>1, <2>2 DEF UnderWay, Newest
<1>3. ASSUME NEW t, Silent(outbox, t) PROVE UnderWay(t) = {}
  BY <1>3 DEF Silent, UnderWay
<1> QED
  BY <1>1, <1>2, <1>3

LEMMA InvKnows == ToldInv => CountIsKnown /\ NamesAreKnown
<1> SUFFICES ASSUME ToldInv PROVE CountIsKnown /\ NamesAreKnown
  OBVIOUS
<1>1. outbox \in Seq(Message) /\ last \in Nat /\ sent \in SUBSET AnyStream
  BY DEF ToldInv, SendsTypeOK
<1>2. \A x : Holds(inbox, x) <=> x \in Range(inbox)
  BY DEF Holds, Range
<1>3. CountIsKnown
  BY <1>1, <1>2, NewestTells DEF ToldInv, CountInv, CountIsKnown
<1>4. NamesAreKnown
  BY <1>1, <1>2, NewestTells DEF ToldInv, NamesInv, NamesAreKnown
<1> QED
  BY <1>3, <1>4

\* Names that are told, if they changed since the session told them last.
LEMMA SyncTold ==
  ASSUME outbox \in Seq(Message), link, NEW now \in SUBSET AnyStream, NEW told, NEW q,
         q = IF now = told THEN outbox ELSE Queue(outbox, Names(now))
  PROVE  /\ q \in Seq(Message)
         /\ \A n \in Nat : Tells(outbox, Count(n)) => Tells(q, Count(n))
         /\ Silent(outbox, "count") => Silent(q, "count")
         /\ now = told => q = outbox
         /\ now # told => Tells(q, Names(now))
<1>1. CASE now = told
  BY <1>1
<1>2. CASE now # told
  <2>1. q = Append(outbox, Names(now))
    BY <1>2 DEF Queue
  <2>2. Names(now) \in Message /\ Names(now).type = "names"
    BY Told
  <2>4. q \in Seq(Message)
    BY <2>1, <2>2, Appended
  <2> DEFINE m == Names(now)
  <2> HIDE DEF m
  <2>8. m \in Message /\ m.type = "names" /\ q = Append(outbox, m)
    BY <2>1, <2>2 DEF m
  <2>9. /\ Tells(Append(outbox, m), m)
        /\ \A x \in Message : x.type # m.type /\ Tells(outbox, x) => Tells(Append(outbox, m), x)
        /\ \A t : t # m.type /\ Silent(outbox, t) => Silent(Append(outbox, m), t)
    BY <2>8, AppendTells
  <2>5. Tells(q, Names(now))
    BY <2>8, <2>9 DEF m
  <2>6. ASSUME NEW n \in Nat, Tells(outbox, Count(n)) PROVE Tells(q, Count(n))
    BY <2>6, <2>8, <2>9, Told
  <2>7. Silent(outbox, "count") => Silent(q, "count")
    BY <2>8, <2>9
  <2> QED
    BY <1>2, <2>4, <2>5, <2>6, <2>7
<1> QED
  BY <1>1, <1>2

\* syncStreamNames keeps it, whether it goes by what was told or tells anew.
LEMMA SyncInv ==
  ASSUME ToldInv, NEW now \in SUBSET AnyStream, NEW told,
         outbox' = IF now = told THEN outbox ELSE Queue(outbox, Names(now)), sent' = now,
         told = {} \/ (told = sent /\ UNCHANGED inbox),
         Holds(inbox, "error") => Holds(inbox', "error"), ~link => inbox' = <<>>,
         UNCHANGED <<last, rejected, link, count, heard, drops>>
  PROVE  outbox' \in Seq(Message) /\ LinkInv' /\ CountInv' /\ NamesInv'
<1>1. outbox \in Seq(Message) /\ last \in Nat
  BY DEF ToldInv, SendsTypeOK
<1>2. CASE ~link
  <2>1. outbox' = outbox /\ outbox' = <<>>
    BY <1>2 DEF Queue, ToldInv, LinkInv
  <2> QED
    BY <1>1, <1>2, <2>1 DEF ToldInv, LinkInv, CountInv, NamesInv
<1>3. CASE link
  <2>1. /\ outbox' \in Seq(Message)
        /\ Tells(outbox, Count(last)) => Tells(outbox', Count(last))
        /\ Silent(outbox, "count") => Silent(outbox', "count")
        /\ now = told => outbox' = outbox
        /\ now # told => Tells(outbox', Names(now))
    BY <1>1, <1>3, SyncTold
  <2>2. Count(last)' = Count(last) /\ Names(sent)' = Names(now)
    BY DEF Count, Names
  <2>3. CountInv'
    BY <1>3, <2>1, <2>2 DEF ToldInv, CountInv
  <2>4. NamesInv'
    <3>1. CASE now # told
      BY <2>1, <2>2, <3>1 DEF NamesInv
    <3>2. CASE now = told /\ told = {}
      BY <3>2 DEF NamesInv
    <3>3. CASE now = told /\ told = sent /\ UNCHANGED inbox
      <4>1. UNCHANGED <<sent, outbox, inbox, heard, drops>>
        BY <2>1, <3>3
      <4> QED
        BY <4>1, <2>2, <3>3 DEF ToldInv, NamesInv, Holds
    <3> QED
      BY <3>1, <3>2, <3>3
  <2> QED
    BY <1>3, <2>1, <2>3, <2>4 DEF ToldInv, LinkInv
<1> QED
  BY <1>2, <1>3

\* What concerns neither the session's messages nor the room.
LEMMA QuietTold ==
  ASSUME ToldInv, EngineInv', UNCHANGED <<sessionVars, roomVars>>
  PROVE  ToldInv'
<1>1. SendsTypeOK' /\ RoomNotOverbooked'
  BY DEF ToldInv, SendsTypeOK, EngineInv, RoomNotOverbooked, sessionVars, roomVars
<1>2. LinkInv' /\ CountInv' /\ NamesInv'
  BY DEF ToldInv, LinkInv, CountInv, NamesInv, Tells, Silent, Holds, Count, Names,
         sessionVars, roomVars
<1> QED
  BY <1>1, <1>2 DEF ToldInv

\* Commands that may change what is sent, and tell it.
LEMMA CommandTold ==
  ASSUME ToldInv, EngineInv',
         names' \in SUBSET UserStream, NEW now \in SUBSET AnyStream,
         sending' \in [Sender -> UserStream \cup {None}], saved' \subseteq Key,
         outbox' = IF now = sent THEN outbox ELSE Queue(outbox, Names(now)),
         sent' = now, eff' = now,
         UNCHANGED <<last, rejected, link, inbox, count, others, heard, drops>>
  PROVE  ToldInv'
<1>1. outbox' \in Seq(Message) /\ LinkInv' /\ CountInv' /\ NamesInv'
  <2>1. ~link => inbox' = <<>>
    BY DEF ToldInv, LinkInv
  <2>2. Holds(inbox, "error") => Holds(inbox', "error")
    BY DEF Holds
  <2> QED
    BY <2>1, <2>2, SyncInv
<1>2. SendsTypeOK' /\ RoomNotOverbooked'
  BY <1>1 DEF ToldInv, SendsTypeOK, EngineInv, RoomNotOverbooked
<1> QED
  BY <1>1, <1>2 DEF ToldInv

LEMMA SetSenderTold ==
  ASSUME ToldInv, EngineInv', NEW s \in Sender, NEW id \in UserStream \cup {None}, SetSender(s, id)
  PROVE  ToldInv'
<1>1. CaptureTypeOK /\ SendsTypeOK
  BY DEF ToldInv, EngineInv
<1>2. names' \in SUBSET UserStream /\ sending' \in [Sender -> UserStream \cup {None}]
  BY <1>1 DEF SetSender, SendsTypeOK
<1>3. Effective(capture, names') \in SUBSET AnyStream
  BY <1>1, <1>2, EffectiveType
<1>4. /\ outbox' = IF Effective(capture, names') = sent THEN outbox
                   ELSE Queue(outbox, Names(Effective(capture, names')))
      /\ sent' = Effective(capture, names') /\ eff' = Effective(capture, names')
      /\ UNCHANGED <<last, rejected, saved, link, inbox, count, others, heard, drops>>
  BY DEF SetSender, SyncStreamNames
<1>5. saved' \subseteq Key
  BY <1>1, <1>4 DEF SendsTypeOK
<1> QED
  BY <1>2, <1>3, <1>4, <1>5, CommandTold

LEMMA StreamNamesTold ==
  ASSUME ToldInv, EngineInv', NEW set \in SUBSET UserStream, StreamNamesChanged(set)
  PROVE  ToldInv'
<1>1. CaptureTypeOK /\ SendsTypeOK
  BY DEF ToldInv, EngineInv
<1>2. names' \in SUBSET UserStream
  BY DEF StreamNamesChanged
<1>3. Effective(capture, set) \in SUBSET AnyStream
  BY <1>1, EffectiveType
<1>4. /\ outbox' = IF Effective(capture, set) = sent THEN outbox
                   ELSE Queue(outbox, Names(Effective(capture, set)))
      /\ sent' = Effective(capture, set) /\ eff' = Effective(capture, set)
      /\ UNCHANGED <<sending, last, rejected, saved, link, inbox, count, others, heard, drops>>
  BY DEF StreamNamesChanged, SyncStreamNames
<1>5. saved' \subseteq Key /\ sending' \in [Sender -> UserStream \cup {None}]
  BY <1>1, <1>4 DEF SendsTypeOK
<1> QED
  BY <1>2, <1>3, <1>4, <1>5, CommandTold

LEMMA ToggleTold ==
  ASSUME ToldInv, EngineInv', NEW c \in Channel, NEW on \in BOOLEAN, ToggleCapture(c, on)
  PROVE  ToldInv'
<1>1. CaptureTypeOK /\ SendsTypeOK /\ CaptureTypeOK'
  BY DEF ToldInv, EngineInv
<1>2. names' \in SUBSET UserStream /\ names' = names
  BY <1>1 DEF ToggleCapture, SendsTypeOK
<1>3. Effective(capture', names) \in SUBSET AnyStream
  <2>1. CaptureStreams(capture') \subseteq Stream
    BY <1>1 DEF CaptureStreams, CaptureTypeOK, Known, CaptureChannel
  <2> QED
    BY <1>1, <2>1 DEF Effective, AnyStream, SendsTypeOK
<1>4. /\ outbox' = IF Effective(capture', names) = sent THEN outbox
                   ELSE Queue(outbox, Names(Effective(capture', names)))
      /\ sent' = Effective(capture', names) /\ eff' = Effective(capture', names)
      /\ UNCHANGED <<sending, last, rejected, link, inbox, count, others, heard, drops>>
  BY DEF ToggleCapture, SyncStreamNames
<1>5. saved' \subseteq Key
  BY <1>1 DEF ToggleCapture, CaptureTypeOK, Known, CaptureChannel
<1>6. sending' \in [Sender -> UserStream \cup {None}]
  BY <1>1, <1>4 DEF SendsTypeOK
<1> QED
  BY <1>2, <1>3, <1>4, <1>5, <1>6, CommandTold

LEMMA StatusTold ==
  ASSUME ToldInv, EngineInv', NEW due \in BOOLEAN, StatusTick(due)
  PROVE  ToldInv'
<1> DEFINE now == Effective(capture, names)
           q   == IF now = sent THEN outbox ELSE Queue(outbox, Names(now))
<1>1. CaptureTypeOK /\ SendsTypeOK
  BY DEF ToldInv, EngineInv
<1>2. now \in SUBSET AnyStream /\ Wanted \in Nat /\ outbox \in Seq(Message)
  BY <1>1, EffectiveType, WantedType DEF SendsTypeOK
<1>3. /\ outbox' = IF ShouldDeclare(due) THEN Queue(q, Count(Wanted)) ELSE q
      /\ sent' = now /\ eff' = now /\ last' = Wanted
      /\ rejected' = (rejected /\ ~ShouldDeclare(due))
      /\ UNCHANGED <<sending, names, saved, link, inbox, count, others, heard, drops>>
  BY DEF StatusTick
<1> DEFINE m == Count(Wanted)
<1>4. m \in Message /\ m.type = "count"
  BY <1>2, Told
<1>5. Count(last)' = m /\ Names(sent)' = Names(now)
  BY <1>3 DEF Count, Names
<1>6. Names(now) \in Message /\ Names(now).type = "names"
  BY <1>2, Told
<1>7. CASE ~link
  <2>1. outbox = <<>> /\ inbox = <<>> /\ drops # 0
    BY <1>7 DEF ToldInv, LinkInv
  <2>2. outbox' = <<>>
    BY <1>3, <1>7, <2>1 DEF Queue
  <2> QED
    BY <1>2, <1>3, <1>7, <2>1, <2>2 DEF LinkInv, CountInv, NamesInv, ToldInv, SendsTypeOK,
         EngineInv, RoomNotOverbooked
<1>8. CASE link
  <2>1. /\ q \in Seq(Message)
        /\ Tells(outbox, Count(last)) => Tells(q, Count(last))
        /\ Silent(outbox, "count") => Silent(q, "count")
        /\ now = sent => q = outbox
        /\ now # sent => Tells(q, Names(now))
    <3> DEFINE w == now
    <3>1. w \in SUBSET AnyStream /\ q = IF w = sent THEN outbox ELSE Queue(outbox, Names(w))
      BY <1>2
    <3>2. last \in Nat
      BY <1>1 DEF SendsTypeOK
    <3> HIDE DEF w, q
    <3>3. /\ q \in Seq(Message)
          /\ Tells(outbox, Count(last)) => Tells(q, Count(last))
          /\ Silent(outbox, "count") => Silent(q, "count")
          /\ w = sent => q = outbox
          /\ w # sent => Tells(q, Names(w))
      BY <1>2, <1>8, <3>1, <3>2, SyncTold
    <3> QED
      BY <3>3 DEF w
  <2>2. outbox' = IF ShouldDeclare(due) THEN Append(q, m) ELSE q
    BY <1>3, <1>8 DEF Queue
  <2> HIDE DEF q, m, now
  <2>3. /\ Append(q, m) \in Seq(Message) /\ Tells(Append(q, m), m)
        /\ Tells(q, Names(now)) => Tells(Append(q, m), Names(now))
        /\ Silent(q, "names") => Silent(Append(q, m), "names")
    BY <1>4, <1>6, <2>1, Appended, AppendTells
  <2>4. outbox' \in Seq(Message)
    BY <2>1, <2>2, <2>3
  <2>5. CountInv'
    <3>1. CASE ShouldDeclare(due)
      BY <1>5, <2>2, <2>3, <3>1 DEF CountInv
    <3>2. CASE ~ShouldDeclare(due)
      <4>1. last' = last /\ m = Count(last) /\ rejected' = rejected
        BY <1>1, <1>3, <3>2 DEF ShouldDeclare, m, SendsTypeOK
      <4>2. Holds(inbox, "error") = Holds(inbox, "error")'
        BY <1>3 DEF Holds
      <4> QED
        BY <1>3, <1>5, <1>8, <2>1, <2>2, <3>2, <4>1, <4>2 DEF ToldInv, CountInv
    <3> QED
      BY <3>1, <3>2
  <2>6. NamesInv'
    <3>1. ASSUME now = sent, Tells(outbox, Names(sent)) PROVE Tells(outbox', Names(now))
      BY <2>1, <2>2, <2>3, <3>1
    <3>2. ASSUME now = sent, Silent(outbox, "names") PROVE Silent(outbox', "names")
      BY <2>1, <2>2, <2>3, <3>2
    <3>3. ASSUME now # sent PROVE Tells(outbox', Names(now))
      BY <2>1, <2>2, <2>3, <3>3
    <3>4. Holds(inbox, "joined") = Holds(inbox, "joined")'
      BY <1>3 DEF Holds
    <3> QED
      BY <1>3, <1>5, <3>1, <3>2, <3>3, <3>4 DEF ToldInv, NamesInv
  <2>7. LinkInv'
    BY <1>3, <1>8 DEF LinkInv
  <2>8. SendsTypeOK' /\ RoomNotOverbooked'
    BY <1>2, <1>3, <2>4 DEF ToldInv, SendsTypeOK, EngineInv, RoomNotOverbooked
  <2> QED
    BY <2>5, <2>6, <2>7, <2>8 DEF ToldInv
<1> QED
  BY <1>7, <1>8

LEMMA HandleEventTold == ToldInv /\ EngineInv' /\ HandleEvent => ToldInv'
<1> SUFFICES ASSUME ToldInv, EngineInv', HandleEvent PROVE ToldInv'
  OBVIOUS
<1>1. CaptureTypeOK /\ SendsTypeOK
  BY DEF ToldInv, EngineInv
<1>2. /\ inbox # <<>> /\ inbox' = Tail(inbox) /\ inbox \in Seq({"joined", "error"})
      /\ UNCHANGED <<sending, names, last, saved, link, count, others, heard, drops>>
  BY <1>1 DEF HandleEvent, SendsTypeOK
<1>3. /\ Tail(inbox) \in Seq({"joined", "error"})
      /\ \A x : Holds(inbox, x) <=> Holds(Tail(inbox), x) \/ Head(inbox) = x
  BY <1>2, Shortened, TailTells
<1>4. link
  BY <1>2 DEF ToldInv, LinkInv
<1>5. CASE Head(inbox) = "joined" /\ SyncStreamNames(capture, names, Forgotten, outbox)
           /\ UNCHANGED rejected
  <2>1. Effective(capture, names) \in SUBSET AnyStream
    BY <1>1, EffectiveType DEF SendsTypeOK
  <2>2. /\ outbox' = IF Effective(capture, names) = {} THEN outbox
                     ELSE Queue(outbox, Names(Effective(capture, names)))
        /\ sent' = Effective(capture, names) /\ eff' = Effective(capture, names)
    BY <1>5 DEF SyncStreamNames, Forgotten
  <2>3. Holds(inbox, "error") => Holds(inbox', "error")
    BY <1>2, <1>3, <1>5
  <2>4. outbox' \in Seq(Message) /\ LinkInv' /\ CountInv' /\ NamesInv'
    BY <1>2, <1>4, <1>5, <2>1, <2>2, <2>3, SyncInv
  <2>5. SendsTypeOK' /\ RoomNotOverbooked'
    BY <1>2, <1>3, <1>5, <2>1, <2>2, <2>4
    DEF ToldInv, SendsTypeOK, EngineInv, RoomNotOverbooked
  <2> QED
    BY <2>4, <2>5 DEF ToldInv
<1>6. CASE Head(inbox) = "error" /\ rejected' = TRUE /\ UNCHANGED <<eff, sent, outbox>>
  <2>1. Holds(inbox, "joined") <=> Holds(inbox', "joined")
    BY <1>2, <1>3, <1>6
  <2>2. Count(last)' = Count(last) /\ Names(sent)' = Names(sent)
    BY <1>2, <1>6 DEF Count, Names
  <2>3. CountInv'
    BY <1>2, <1>4, <1>6, <2>2 DEF ToldInv, CountInv
  <2>5. NamesInv'
    <3>1. Holds(inbox, "joined") <=> Holds(inbox, "joined")'
      BY <2>1 DEF Holds
    <3>2. /\ Tells(outbox, Names(sent))' <=> Tells(outbox, Names(sent))
          /\ Silent(outbox, "names")' <=> Silent(outbox, "names")
      BY <1>6, <2>2 DEF Tells, Silent
    <3> QED
      BY <1>2, <1>6, <3>1, <3>2 DEF ToldInv, NamesInv
  <2>6. SendsTypeOK' /\ RoomNotOverbooked' /\ LinkInv'
    BY <1>2, <1>3, <1>4, <1>6 DEF ToldInv, SendsTypeOK, EngineInv, RoomNotOverbooked, LinkInv
  <2> QED
    BY <2>3, <2>5, <2>6 DEF ToldInv
<1> QED
  BY <1>5, <1>6 DEF HandleEvent

LEMMA RelayReadsTold == ToldInv /\ EngineInv' /\ RelayReads => ToldInv'
<1> SUFFICES ASSUME ToldInv, EngineInv', RelayReads PROVE ToldInv'
  OBVIOUS
<1> DEFINE msg == Head(outbox)
<1>1. SendsTypeOK
  BY DEF ToldInv
<1>2. /\ outbox # <<>> /\ outbox' = Tail(outbox) /\ outbox \in Seq(Message)
      /\ inbox \in Seq({"joined", "error"}) /\ last \in Nat /\ sent \in SUBSET AnyStream
      /\ UNCHANGED <<captureVars, sessionVars, link, others, drops>>
  BY <1>1 DEF RelayReads, SendsTypeOK
<1>3. link
  BY <1>2 DEF ToldInv, LinkInv
<1>4. /\ outbox' \in Seq(Message) /\ msg \in Message
      /\ \A m \in Message : Tells(outbox, m) =>
            Tells(Tail(outbox), m) \/ (msg = m /\ Silent(Tail(outbox), m.type))
      /\ \A t : Silent(outbox, t) => Silent(Tail(outbox), t) /\ msg.type # t
  BY <1>2, Shortened, TailTells
<1>5. /\ Count(last) \in Message /\ Count(last).type = "count" /\ Count(last).n = last
      /\ Names(sent) \in Message /\ Names(sent).type = "names" /\ Names(sent).streams = sent
  BY <1>2, Told
<1>6. /\ Count(last)' = Count(last) /\ Names(sent)' = Names(sent)
      /\ last' = last /\ sent' = sent /\ rejected' = rejected
  BY <1>2 DEF Count, Names, sessionVars
<1>7. /\ msg.type = "names" => msg.streams \in SUBSET AnyStream
      /\ msg.type = "count" => msg.n \in Nat
  BY <1>4, Messages
<1>8. /\ count \in 0 .. Capacity /\ others \in 0 .. Capacity /\ others + count <= Capacity
      /\ Capacity \in Nat
  BY <1>1, Numbers DEF SendsTypeOK, ToldInv, RoomNotOverbooked
<1>9. ASSUME outbox' \in Seq(Message), inbox' \in Seq({"joined", "error"}),
             heard' \subseteq AnyStream, count' \in Nat, others + count' <= Capacity,
             CountInv', NamesInv'
      PROVE  ToldInv'
  <2>1. count' \in 0 .. Capacity
    <3>1. \A k, n \in Nat : k + n <= Capacity => n \in 0 .. Capacity
      BY <1>8
    <3>2. others \in Nat
      BY <1>8
    <3> QED
      BY <3>1, <3>2, <1>9
  <2>2. SendsTypeOK' /\ RoomNotOverbooked' /\ LinkInv'
    BY <1>1, <1>2, <1>3, <1>9, <2>1
    DEF ToldInv, SendsTypeOK, EngineInv, RoomNotOverbooked, LinkInv, sessionVars
  <2> QED
    BY <1>9, <2>2 DEF ToldInv
<1> HIDE DEF msg
<1>10. ASSUME UNCHANGED inbox \/ inbox' = Append(inbox, "error")
       PROVE  /\ inbox' \in Seq({"joined", "error"})
              /\ Holds(inbox, "joined")' <=> Holds(inbox, "joined")
              /\ Holds(inbox, "error") => Holds(inbox, "error")'
              /\ inbox' = Append(inbox, "error") => Holds(inbox, "error")'
  <2>1. CASE UNCHANGED inbox
    BY <1>2, <2>1, Appended, AppendTells DEF Holds
  <2>2. CASE inbox' = Append(inbox, "error")
    <3>1. /\ Append(inbox, "error") \in Seq({"joined", "error"})
          /\ \A x : Holds(Append(inbox, "error"), x) <=> Holds(inbox, x) \/ x = "error"
      BY <1>2, Appended, AppendTells
    <3> QED
      BY <2>2, <3>1 DEF Holds
  <2> QED
    BY <1>10, <2>1, <2>2
<1>11. /\ Tells(outbox, Count(last))' <=> Tells(Tail(outbox), Count(last))
       /\ Tells(outbox, Names(sent))' <=> Tells(Tail(outbox), Names(sent))
       /\ Silent(outbox, "count")' <=> Silent(Tail(outbox), "count")
       /\ Silent(outbox, "names")' <=> Silent(Tail(outbox), "names")
  BY <1>2, <1>6 DEF Tells, Silent
\* What the relay reads of another type leaves the newest message as it is.
<1>12. ASSUME msg.type = "names", UNCHANGED <<count, inbox>> PROVE CountInv'
  BY <1>3, <1>4, <1>5, <1>6, <1>10, <1>11, <1>12 DEF ToldInv, CountInv
<1>13. ASSUME msg.type = "count", UNCHANGED heard,
              UNCHANGED inbox \/ inbox' = Append(inbox, "error")
       PROVE  NamesInv'
  <2>1. drops' = drops
    BY <1>2
  <2> QED
    BY <2>1, <1>4, <1>5, <1>6, <1>10, <1>11, <1>13 DEF ToldInv, NamesInv
<1>14. CASE msg.type = "names" /\ heard' = msg.streams /\ UNCHANGED <<count, inbox>>
  <2>1. NamesInv'
    <3>1. drops' = drops
      BY <1>2
    <3> QED
      BY <3>1, <1>4, <1>5, <1>6, <1>10, <1>11, <1>14 DEF ToldInv, NamesInv
  <2> QED
    BY <2>1, <1>4, <1>7, <1>8, <1>9, <1>10, <1>12, <1>14
<1>15. CASE msg.type = "count" /\ (msg.n = count \/ Granted(msg.n)) /\ count' = msg.n
            /\ UNCHANGED <<inbox, heard>>
  <2>1. CountInv'
    BY <1>3, <1>4, <1>5, <1>6, <1>10, <1>11, <1>15 DEF ToldInv, CountInv
  <2>2. count' \in Nat /\ others + count' <= Capacity /\ heard' \subseteq AnyStream
    BY <1>1, <1>7, <1>8, <1>15 DEF Granted, SendsTypeOK
  <2> QED
    BY <2>1, <2>2, <1>4, <1>9, <1>10, <1>13, <1>15
<1>16. CASE msg.type = "count" /\ inbox' = Append(inbox, "error") /\ UNCHANGED <<count, heard>>
  <2>1. CountInv'
    BY <1>3, <1>4, <1>5, <1>6, <1>10, <1>11, <1>16 DEF ToldInv, CountInv
  <2>2. count' \in Nat /\ others + count' <= Capacity /\ heard' \subseteq AnyStream
    BY <1>1, <1>8, <1>16 DEF SendsTypeOK
  <2> QED
    BY <2>1, <2>2, <1>4, <1>9, <1>10, <1>13, <1>16
<1> QED
  BY <1>14, <1>15, <1>16 DEF RelayReads, msg

LEMMA RoomTold ==
  ASSUME ToldInv, EngineInv', (\E n \in 0 .. Capacity : OthersChange(n)) \/ Newcomer \/ Drop \/ Reconnect
  PROVE  ToldInv'
<1>1. SendsTypeOK
  BY DEF ToldInv
<1>2. /\ outbox \in Seq(Message) /\ inbox \in Seq({"joined", "error"})
      /\ count \in 0 .. Capacity /\ others + count <= Capacity
  BY <1>1 DEF ToldInv, SendsTypeOK, RoomNotOverbooked
<1>3. CASE \E n \in 0 .. Capacity : OthersChange(n)
  <2>1. UNCHANGED <<sessionVars, link, outbox, inbox, count, heard, drops>>
    BY <1>3 DEF OthersChange
  <2>2. LinkInv' /\ CountInv' /\ NamesInv'
    BY <2>1 DEF ToldInv, LinkInv, CountInv, NamesInv, Tells, Silent, Holds, Count, Names, sessionVars
  <2>3. SendsTypeOK' /\ RoomNotOverbooked'
    BY <1>1, <1>3, <2>1 DEF OthersChange, SendsTypeOK, EngineInv, RoomNotOverbooked, sessionVars
  <2> QED
    BY <2>2, <2>3 DEF ToldInv
<1>4. CASE Newcomer
  <2>1. /\ link /\ heard' = {} /\ inbox' = Append(inbox, "joined")
        /\ UNCHANGED <<sessionVars, link, outbox, count, others, drops>>
    BY <1>4 DEF Newcomer
  <2>2. /\ inbox' \in Seq({"joined", "error"})
        /\ Holds(inbox', "joined") /\ (Holds(inbox, "error") => Holds(inbox', "error"))
    BY <1>2, <2>1, Appended, AppendTells
  <2>3. Holds(inbox, "joined")' /\ (Holds(inbox, "error") => Holds(inbox, "error")')
    BY <2>2 DEF Holds
  <2>4. NamesInv'
    BY <2>3 DEF NamesInv
  <2>5. CountInv'
    BY <2>1, <2>3 DEF ToldInv, CountInv, Tells, Silent, Count, sessionVars
  <2>6. LinkInv' /\ SendsTypeOK' /\ RoomNotOverbooked'
    BY <1>1, <2>1, <2>2 DEF ToldInv, LinkInv, SendsTypeOK, EngineInv, RoomNotOverbooked, sessionVars
  <2> QED
    BY <2>4, <2>5, <2>6 DEF ToldInv
<1>5. CASE Drop
  <2>1. /\ ~link' /\ link' = FALSE /\ drops' = drops + 1 /\ drops < MaxDrops
        /\ outbox' = <<>> /\ inbox' = <<>> /\ count' = 0
        /\ UNCHANGED <<sessionVars, others, heard>>
    BY <1>5 DEF Drop
  <2>2. drops' \in 0 .. MaxDrops /\ drops' # 0
    BY <1>1, <2>1, Numbers DEF SendsTypeOK
  <2>3. LinkInv' /\ CountInv' /\ NamesInv'
    BY <2>1, <2>2 DEF LinkInv, CountInv, NamesInv
  <2>4. others + 0 <= Capacity /\ 0 \in 0 .. Capacity
    BY <1>1, Numbers DEF SendsTypeOK
  <2>5. SendsTypeOK' /\ RoomNotOverbooked'
    <3>1. <<>> \in Seq(Message) /\ <<>> \in Seq({"joined", "error"})
      BY EmptySeq
    <3> QED
      BY <1>1, <2>1, <2>2, <2>4, <3>1 DEF ToldInv, SendsTypeOK, EngineInv, RoomNotOverbooked, sessionVars
  <2> QED
    BY <2>3, <2>5 DEF ToldInv
<1>6. CASE Reconnect
  <2>1. /\ ~link /\ link' = TRUE /\ others + Declared <= Capacity
        /\ count' = Declared /\ last' = Declared
        /\ UNCHANGED <<sending, names, eff, sent, rejected, saved, outbox, inbox, others, heard, drops>>
    BY <1>6 DEF Reconnect
  <2>2. outbox' = <<>> /\ inbox' = <<>> /\ drops' # 0
    BY <2>1 DEF ToldInv, LinkInv
  <2>3. LinkInv' /\ NamesInv'
    BY <2>1, <2>2 DEF LinkInv, NamesInv
  <2>4. CountInv'
    <3>1. Silent(outbox, "count")'
      BY <2>2, NothingTold DEF Silent
    <3> QED
      BY <2>1, <3>1 DEF CountInv
  <2>5. count' \in 0 .. Capacity /\ last' \in Nat
    BY <1>1, <2>1, Numbers DEF SendsTypeOK
  <2>6. SendsTypeOK' /\ RoomNotOverbooked'
    BY <1>1, <2>1, <2>5 DEF ToldInv, SendsTypeOK, EngineInv, RoomNotOverbooked
  <2> QED
    BY <2>3, <2>4, <2>6 DEF ToldInv
<1> QED
  BY <1>3, <1>4, <1>5, <1>6

LEMMA NextTold == ToldInv /\ [Next]_sendVars => ToldInv'
<1> SUFFICES ASSUME ToldInv, [Next]_sendVars PROVE ToldInv'
  OBVIOUS
<1>1. EngineInv'
  BY NextEngine DEF ToldInv
<1>2. CASE (CaptureStep /\ OnCapture) \/ (StopBegin /\ OnCapture)
           \/ ((\E c \in Channel, k \in Key \cup {None} : Publish(c, k)) /\ OnCapture)
           \/ UNCHANGED sendVars
  BY <1>1, <1>2, QuietTold DEF OnCapture, sendVars
<1>3. ASSUME NEW c \in Channel, NEW on \in BOOLEAN, ToggleCapture(c, on) PROVE ToldInv'
  BY <1>1, <1>3, ToggleTold
<1>4. ASSUME NEW s \in Sender, NEW id \in UserStream \cup {None}, SetSender(s, id) PROVE ToldInv'
  BY <1>1, <1>4, SetSenderTold
<1>5. ASSUME NEW set \in SUBSET UserStream, StreamNamesChanged(set) PROVE ToldInv'
  BY <1>1, <1>5, StreamNamesTold
<1>6. ASSUME NEW due \in BOOLEAN, StatusTick(due) PROVE ToldInv'
  BY <1>1, <1>6, StatusTold
<1>7. CASE HandleEvent \/ RelayReads
  BY <1>1, <1>7, HandleEventTold, RelayReadsTold
<1>8. CASE (\E n \in 0 .. Capacity : OthersChange(n)) \/ Newcomer \/ Drop \/ Reconnect
  BY <1>1, <1>8, RoomTold
<1> QED
  BY <1>2, <1>3, <1>4, <1>5, <1>6, <1>7, <1>8 DEF Next

LEMMA InitTold == Init => ToldInv
<1> SUFFICES ASSUME Init PROVE ToldInv
  OBVIOUS
<1>1. EngineInv
  BY InitEngine
<1>2. /\ sending = [s \in Sender |-> None] /\ names = {} /\ eff = {} /\ sent = {}
      /\ last = Declared /\ rejected = FALSE /\ saved = Remembered
      /\ link = TRUE /\ outbox = <<>> /\ inbox = <<>> /\ count = Declared
      /\ others \in 0 .. (Capacity - Declared) /\ heard = {} /\ drops = 0
  BY DEF Init
<1>3. others \in 0 .. Capacity /\ count \in 0 .. Capacity /\ others + count <= Capacity
      /\ drops \in 0 .. MaxDrops
  BY <1>2, Numbers
<1>4. outbox \in Seq(Message) /\ inbox \in Seq({"joined", "error"})
  BY <1>2, EmptySeq
<1>5. last \in Nat /\ saved \subseteq Key
  BY <1>2, Numbers, CaptureAssumption
<1>6. SendsTypeOK /\ RoomNotOverbooked
  BY <1>1, <1>2, <1>3, <1>4, <1>5 DEF SendsTypeOK, EngineInv, RoomNotOverbooked
<1>7. LinkInv /\ CountInv /\ NamesInv
  BY <1>2, NothingTold DEF LinkInv, CountInv, NamesInv
<1> QED
  BY <1>1, <1>6, <1>7 DEF ToldInv

LEMMA AlwaysTold == Spec => []ToldInv
  BY InitTold, NextTold, PTL DEF Spec

\* Every variable of the captured channels and of what the session says of them
\* keeps its type, whatever the bounds.
THEOREM SendsTypeCorrect == Spec => []SendsTypeOK
<1>1. ToldInv => SendsTypeOK
  BY DEF ToldInv
<1> QED
  BY <1>1, AlwaysTold, PTL

\* The count a session takes for declared is the relay's, or on its way to be,
\* or the session knows or is being told that it was refused.
THEOREM CountStaysKnown == Spec => []CountIsKnown
<1>1. ToldInv => CountIsKnown
  BY InvKnows
<1> QED
  BY <1>1, AlwaysTold, PTL

\* The names a session takes for sent are what the other session has heard, or
\* will hear next of it, unless a newcomer is yet to be noticed.
THEOREM NamesStayKnown == Spec => []NamesAreKnown
<1>1. ToldInv => NamesAreKnown
  BY InvKnows
<1> QED
  BY <1>1, AlwaysTold, PTL
=============================================================================
