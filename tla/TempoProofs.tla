----------------------------- MODULE TempoProofs -----------------------------
(***************************************************************************)
(* Theorems about Tempo, alone and beside the Link bridges of Daw, for     *)
(* every set of sessions, tempos and clocks.                               *)
(***************************************************************************)
EXTENDS Daw, TLAPS, FiniteSetTheorems, WellFoundedInduction

-----------------------------------------------------------------------------
(* Messages in queues. *)

LEMMA EmptyRange == Range(<<>>) = {}
  BY DEF Range

LEMMA AppendRange ==
  ASSUME NEW S, NEW s \in Seq(S), NEW m \in S
  PROVE  Range(Append(s, m)) = Range(s) \cup {m}
<1>1. /\ DOMAIN s = 1..Len(s)
      /\ DOMAIN Append(s, m) = 1..(Len(s) + 1)
      /\ \A i \in 1..Len(s) : Append(s, m)[i] = s[i]
      /\ Append(s, m)[Len(s) + 1] = m
      /\ Len(s) \in Nat
  OBVIOUS
<1>2. Range(s) = {s[i] : i \in 1..Len(s)}
  BY <1>1 DEF Range
<1>3. Range(Append(s, m)) = {Append(s, m)[i] : i \in 1..(Len(s) + 1)}
  BY <1>1 DEF Range
<1>4. \A i \in 1..(Len(s) + 1) : i \in 1..Len(s) \/ i = Len(s) + 1
  BY <1>1
<1> QED
  BY <1>1, <1>2, <1>3, <1>4

LEMMA TailRange ==
  ASSUME NEW S, NEW s \in Seq(S), s # <<>>
  PROVE  /\ Tail(s) \in Seq(S)
         /\ Head(s) \in S
         /\ Head(s) \in Range(s)
         /\ Range(Tail(s)) \subseteq Range(s)
<1>1. /\ DOMAIN s = 1..Len(s)
      /\ Len(s) \in Nat \ {0}
      /\ Tail(s) \in Seq(S)
      /\ DOMAIN Tail(s) = 1..(Len(s) - 1)
      /\ \A i \in 1..(Len(s) - 1) : Tail(s)[i] = s[i + 1]
      /\ Head(s) = s[1]
      /\ Head(s) \in S
  OBVIOUS
<1>2. \A i \in 1..(Len(s) - 1) : i + 1 \in 1..Len(s)
  BY <1>1
<1> QED
  BY <1>1, <1>2 DEF Range

LEMMA ConcatRange ==
  ASSUME NEW S, NEW s \in Seq(S), NEW t \in Seq(S)
  PROVE  /\ s \o t \in Seq(S)
         /\ Range(s \o t) \subseteq Range(s) \cup Range(t)
<1>1. /\ s \o t \in Seq(S)
      /\ DOMAIN s = 1..Len(s) /\ DOMAIN t = 1..Len(t)
      /\ DOMAIN (s \o t) = 1..(Len(s) + Len(t))
      /\ Len(s) \in Nat /\ Len(t) \in Nat
  OBVIOUS
<1>2. ASSUME NEW i \in 1..(Len(s) + Len(t))
      PROVE  (s \o t)[i] \in Range(s) \cup Range(t)
  <2>1. CASE i \in 1..Len(s)
    BY <1>1, <2>1 DEF Range
  <2>2. CASE i \notin 1..Len(s)
    <3>1. i - Len(s) \in 1..Len(t) /\ (s \o t)[i] = t[i - Len(s)]
      BY <1>1, <2>2
    <3> QED
      BY <1>1, <3>1 DEF Range
  <2> QED
    BY <2>1, <2>2
<1> QED
  BY <1>1, <1>2 DEF Range

LEMMA PrefixRange ==
  ASSUME NEW S, NEW s \in Seq(S), NEW n \in 0..Len(s)
  PROVE  /\ SubSeq(s, 1, n) \in Seq(S)
         /\ Range(SubSeq(s, 1, n)) \subseteq Range(s)
<1>1. /\ Len(s) \in Nat
      /\ DOMAIN s = 1..Len(s)
      /\ SubSeq(s, 1, n) \in Seq(S)
      /\ DOMAIN SubSeq(s, 1, n) = 1..n
      /\ \A i \in 1..n : SubSeq(s, 1, n)[i] = s[i]
  OBVIOUS
<1> QED
  BY <1>1 DEF Range

-----------------------------------------------------------------------------
(* Type correctness. *)

LEMMA MessageTypes ==
  ASSUME TypeOK
  PROVE  /\ IntervalConfig \in Msg
         /\ \A b \in Bpm : Anchor(b) \in Msg
         /\ \A b \in Bpm, s \in Stamp : Declare(b, s) \in Msg
         /\ \A p \in Peer, b \in Bpm : Change(p, b) \in Msg
         /\ \A ph \in Phase : At(ph) \in [phase : Phase, msg : Msg, to : SUBSET Peer]
  BY TempoAssumption
     DEF IntervalConfig, Anchor, Declare, Change, At, Msg, Stamp

\* A pump whose recipients change is still one.
LEMMA PumpTypes ==
  ASSUME NEW r \in [phase : Phase, msg : Msg, to : SUBSET Peer],
         NEW ph \in Phase, NEW t \in SUBSET Peer
  PROVE  /\ [r EXCEPT !.to = t] \in [phase : Phase, msg : Msg, to : SUBSET Peer]
         /\ [r EXCEPT !.phase = ph, !.to = t] \in [phase : Phase, msg : Msg, to : SUBSET Peer]
         /\ r.msg \in Msg /\ r.to \in SUBSET Peer
         /\ [r EXCEPT !.to = t].msg = r.msg
         /\ [r EXCEPT !.phase = ph, !.to = t].msg = r.msg
  OBVIOUS

\* What declareTempo leaves: a stamp that beats the old one, and the messages
\* of one declaration added to the queue of a session that has a connection.
LEMMA DeclareTempoStep ==
  ASSUME TypeOK,
         NEW p \in Peer, NEW b \in Bpm, NEW now \in Clock,
         NEW more \in Seq(Msg),
         DeclareTempo(p, b, now, more)
  PROVE  /\ NextStamp(p, now) \in Stamp
         /\ NextStamp(p, now).origin > stamp[p].origin
         /\ NextStamp(p, now).owner = Identity[p]
         /\ stamp' = [stamp EXCEPT ![p] = NextStamp(p, now)]
         /\ Broadcast(p, <<Declare(b, NextStamp(p, now)), Change(p, b)>> \o more)
         /\ <<Declare(b, NextStamp(p, now)), Change(p, b)>> \o more \in Seq(Msg)
<1>1. stamp[p] \in Stamp /\ stamp[p].origin \in Nat
  BY DEF TypeOK, Stamp
<1>2. now \in Nat /\ Identity[p] \in Nat
  BY TempoAssumption
<1>3. /\ NextStamp(p, now) \in Stamp
      /\ NextStamp(p, now).origin > stamp[p].origin
      /\ NextStamp(p, now).owner = Identity[p]
  BY <1>1, <1>2 DEF NextStamp, Stamp
<1>4. <<Declare(b, NextStamp(p, now)), Change(p, b)>> \in Seq(Msg)
  BY <1>3, MessageTypes
<1>5. <<Declare(b, NextStamp(p, now)), Change(p, b)>> \o more \in Seq(Msg)
  BY <1>4, ConcatRange
<1> QED
  BY <1>3, <1>5 DEF DeclareTempo

LEMMA BroadcastType ==
  ASSUME TypeOK, NEW p \in Peer, NEW ms \in Seq(Msg), Broadcast(p, ms)
  PROVE  up' \in [Peer -> Seq(Msg)]
<1>1. up[p] \o ms \in Seq(Msg)
  BY ConcatRange DEF TypeOK
<1> QED
  BY <1>1 DEF Broadcast, TypeOK

LEMMA TakeType ==
  ASSUME TypeOK, NEW p \in Peer, NEW type, Take(p, type)
  PROVE  /\ Head(down[p]) \in Msg
         /\ Head(down[p]).type = type
         /\ Head(down[p]) \in Range(down[p])
         /\ down' \in [Peer -> Seq(Msg)]
         /\ UNCHANGED <<conn, notice, up, pump, room, drops, acts, rejects>>
<1>1. down[p] \in Seq(Msg) /\ down[p] # <<>>
  BY DEF TypeOK, Take
<1>2. Head(down[p]) \in Msg /\ Tail(down[p]) \in Seq(Msg) /\ Head(down[p]) \in Range(down[p])
  BY <1>1, TailRange
<1> QED
  BY <1>2 DEF Take, TypeOK, bounds

LEMMA OnIsPeers == On \subseteq Peer
  BY DEF On

\* One step keeps the types.
LEMMA TypeStep == TypeOK /\ [Next]_vars => TypeOK'
<1> SUFFICES ASSUME TypeOK, [Next]_vars
             PROVE  TypeOK'
  OBVIOUS
<1> DEFINE Pump == [phase : Phase, msg : Msg, to : SUBSET Peer]
<1>0. /\ Bpm \subseteq Nat \ {0} /\ DefaultBpm \in Bpm
      /\ Clock \subseteq Nat \ {0}
      /\ JoinBpm \in [Peer -> Bpm]
      /\ PeerId \in [Peer -> Nat \ {0}]
      /\ MaxDrops \in Nat /\ MaxActs \in Nat /\ MaxRejects \in Nat
  BY TempoAssumption
<1>1. ASSUME NEW p \in Peer, Join(p)
      PROVE  TypeOK'
  <2>1. At("joinok") \in Pump
    BY MessageTypes DEF Phase
  <2>2. notice' \in [Peer -> Nat]
    BY <1>1 DEF Join, TypeOK
  <2> QED
    BY <1>1, <2>1, <2>2 DEF Join, TypeOK, bounds
<1>2. ASSUME NEW p \in Peer, JoinOk(p)
      PROVE  TypeOK'
  <2>1. At("seed") \in Pump
    BY MessageTypes DEF Phase
  <2> QED
    BY <1>2, <2>1 DEF JoinOk, TypeOK, bounds, sessionVars
<1>3. ASSUME NEW p \in Peer, Seed(p)
      PROVE  TypeOK'
  <2>1. At("idle") \in Pump
    BY MessageTypes DEF Phase
  <2>2. down' \in [Peer -> Seq(Msg)]
    <3>1. CASE room = 0
      BY <1>3, <3>1 DEF Seed, TypeOK
    <3>2. CASE room # 0
      <4>1. Anchor(room) \in Msg
        BY <3>2, MessageTypes DEF TypeOK
      <4> QED
        BY <1>3, <3>2, <4>1 DEF Seed, TypeOK
    <3> QED
      BY <3>1, <3>2
  <2> QED
    BY <1>3, <2>1, <2>2 DEF Seed, TypeOK, bounds, sessionVars
<1>4. ASSUME NEW p \in Peer, Drop(p)
      PROVE  TypeOK'
  <2>1. PICK n \in 0..Len(down[p]) : down' = [down EXCEPT ![p] = SubSeq(@, 1, n)]
    BY <1>4 DEF Drop
  <2>2. SubSeq(down[p], 1, n) \in Seq(Msg)
    BY PrefixRange DEF TypeOK
  <2>3. pump' \in [Peer -> Pump]
    <3>1. At("idle") \in Pump
      BY MessageTypes DEF Phase
    <3>2. \A q \in Peer : [pump[q] EXCEPT !.to = @ \ {p}] \in Pump
      BY PumpTypes DEF TypeOK
    <3>3. \A q \in Peer : Sent(pump[q], p) \in Pump
      BY <3>1, <3>2 DEF Sent
    <3> QED
      BY <1>4, <3>3 DEF Drop
  <2>4. drops' \in 0..MaxDrops
    BY <1>0, <1>4 DEF Drop, TypeOK
  <2> QED
    <3>1. down' \in [Peer -> Seq(Msg)]
      BY <2>1, <2>2 DEF TypeOK
    <3>2. up' \in [Peer -> Seq(Msg)]
      BY <1>4 DEF Drop, TypeOK
    <3>3. conn' \in [Peer -> {"out", "on", "lost"}] /\ notice' \in [Peer -> Nat]
      BY <1>4 DEF Drop, TypeOK
    <3>4. room' \in Bpm \cup {0}
      BY <1>4 DEF Drop, TypeOK
    <3> QED
      BY <1>4, <2>3, <2>4, <3>1, <3>2, <3>3, <3>4 DEF Drop, TypeOK, sessionVars
<1>5. ASSUME NEW p \in Peer, NEW b \in Bpm, NEW now \in Clock,
             ChangeBpm(p, b, now) \/ TempoChanged(p, b, now)
      PROVE  TypeOK'
  <2>1. DeclareTempo(p, b, now, <<>>) /\ <<>> \in Seq(Msg)
    BY <1>5 DEF ChangeBpm, TempoChanged
  <2>2. up' \in [Peer -> Seq(Msg)] /\ stamp' \in [Peer -> Stamp]
    BY <2>1, DeclareTempoStep, BroadcastType DEF TypeOK
  <2>3. acts' \in 0..MaxActs
    BY <1>0, <1>5 DEF ChangeBpm, TempoChanged, Act, TypeOK
  <2> QED
    BY <1>5, <2>2, <2>3 DEF ChangeBpm, TempoChanged, TypeOK
<1>6. ASSUME NEW p \in Peer, SetInterval(p)
      PROVE  TypeOK'
  <2>1. <<IntervalConfig>> \in Seq(Msg)
    BY MessageTypes
  <2>2. up' \in [Peer -> Seq(Msg)]
    BY <1>6, <2>1, BroadcastType DEF SetInterval
  <2>3. acts' \in 0..MaxActs
    BY <1>0, <1>6 DEF SetInterval, Act, TypeOK
  <2> QED
    BY <1>6, <2>2, <2>3 DEF SetInterval, TypeOK, sessionVars
<1>7. ASSUME NEW p \in Peer, NEW now \in Clock, UpdateStreamsError(p, now)
      PROVE  TypeOK'
  <2>1. <<IntervalConfig>> \in Seq(Msg) /\ JoinBpm[p] \in Bpm
    BY <1>0, MessageTypes
  <2>4. DeclareTempo(p, JoinBpm[p], now, <<IntervalConfig>>)
    BY <1>7 DEF UpdateStreamsError
  <2>2. up' \in [Peer -> Seq(Msg)] /\ stamp' \in [Peer -> Stamp]
    <3> DEFINE s == NextStamp(p, now)
               ms == <<Declare(JoinBpm[p], s), Change(p, JoinBpm[p])>> \o <<IntervalConfig>>
    <3>1. s \in Stamp /\ stamp' = [stamp EXCEPT ![p] = s] /\ Broadcast(p, ms) /\ ms \in Seq(Msg)
      BY <2>1, <2>4, DeclareTempoStep
    <3> QED
      BY <3>1, BroadcastType DEF TypeOK
  <2>3. rejects' \in 0..MaxRejects
    BY <1>0, <1>7 DEF UpdateStreamsError, TypeOK
  <2> QED
    BY <1>7, <2>2, <2>3 DEF UpdateStreamsError, TypeOK
<1>8. ASSUME NEW p \in Peer, PeerJoined(p)
      PROVE  TypeOK'
  <2>1. <<IntervalConfig>> \in Seq(Msg)
    BY MessageTypes
  <2>2. up' \in [Peer -> Seq(Msg)]
    BY <1>8, <2>1, BroadcastType DEF PeerJoined
  <2> QED
    <3>1. notice' \in [Peer -> Nat]
      BY <1>8 DEF PeerJoined, TypeOK
    <3> QED
      BY <1>8, <2>2, <3>1 DEF PeerJoined, TypeOK, bounds, sessionVars
<1>9. ASSUME NEW p \in Peer, Read(p)
      PROVE  TypeOK'
  <2>1. up[p] \in Seq(Msg) /\ up[p] # <<>>
    BY <1>9 DEF Read, TypeOK
  <2>2. Head(up[p]) \in Msg /\ Tail(up[p]) \in Seq(Msg)
    BY <2>1, TailRange
  <2>3. [phase |-> "forward", msg |-> Head(up[p]), to |-> On \ {p}] \in Pump
    BY <2>2, OnIsPeers DEF Phase
  <2> QED
    BY <1>9, <2>2, <2>3 DEF Read, TypeOK, bounds, sessionVars
<1>10. ASSUME NEW p \in Peer, NEW q \in Peer, Send(p, q)
       PROVE  TypeOK'
  <2>1. pump[p] \in Pump /\ At("idle") \in Pump
    BY MessageTypes DEF TypeOK, Phase
  <2>2. pump[p].msg \in Msg /\ [pump[p] EXCEPT !.to = @ \ {q}] \in Pump
    BY <2>1, PumpTypes
  <2>3. Append(down[q], pump[p].msg) \in Seq(Msg)
    BY <2>2 DEF TypeOK
  <2> QED
    <3>1. pump' \in [Peer -> Pump]
      <4>1. Sent(pump[p], q) \in Pump
        BY <2>1, <2>2 DEF Sent
      <4> QED
        BY <1>10, <4>1 DEF Send, TypeOK
    <3>2. down' \in [Peer -> Seq(Msg)]
      BY <1>10, <2>3 DEF Send, TypeOK
    <3> QED
      BY <1>10, <3>1, <3>2 DEF Send, TypeOK, bounds, sessionVars
<1>11. ASSUME NEW p \in Peer, Observe(p)
       PROVE  TypeOK'
  <2>1. PICK reshaped \in BOOLEAN :
          /\ room' = Observed(pump[p].msg)
          /\ pump' = [pump EXCEPT ![p] =
                        IF Observed(pump[p].msg) = room /\ ~reshaped
                        THEN At("idle")
                        ELSE [At("observed") EXCEPT !.msg = Anchor(Observed(pump[p].msg))]]
    BY <1>11 DEF Observe
  <2>2. Observed(pump[p].msg) \in Bpm
    BY <1>0 DEF Observed, TypeOK, Msg
  <2>3. Anchor(Observed(pump[p].msg)) \in Msg
    BY <2>2, MessageTypes
  <2>4. At("idle") \in Pump /\ At("observed") \in Pump
    BY MessageTypes DEF Phase
  <2> QED
    BY <1>11, <2>1, <2>2, <2>3, <2>4 DEF Observe, TypeOK, bounds, sessionVars
<1>12. ASSUME NEW p \in Peer, Announce(p)
       PROVE  TypeOK'
  <2>1. pump[p] \in Pump
    BY DEF TypeOK
  <2>2. [pump[p] EXCEPT !.phase = "anchor", !.to = On] \in Pump
    BY <2>1, PumpTypes, OnIsPeers DEF Phase
  <2>3. pump' \in [Peer -> Pump]
    BY <1>12, <2>2 DEF Announce, TypeOK
  <2> QED
    BY <1>12, <2>3 DEF Announce, TypeOK, bounds, sessionVars
<1>13. ASSUME NEW p \in Peer, OnAnchor(p)
       PROVE  TypeOK'
  <2>1. Take(p, "Anchor")
    BY <1>13 DEF OnAnchor
  <2> QED
    <3>1. Head(down[p]).bpm \in Bpm
      BY <2>1, TakeType DEF Msg
    <3>2. bpm' \in [Peer -> Bpm] /\ adopted' \in [Peer -> BOOLEAN] /\ stamp' = stamp
      BY <1>13, <3>1 DEF OnAnchor, TypeOK
    <3> QED
      BY <2>1, <3>2, TakeType DEF TypeOK
<1>14. ASSUME NEW p \in Peer, OnDeclare(p)
       PROVE  TypeOK'
  <2>1. Take(p, "Declare")
    BY <1>14 DEF OnDeclare
  <2>2. [origin |-> Head(down[p]).origin, owner |-> Head(down[p]).owner] \in Stamp
    BY <2>1, TakeType DEF Msg, Stamp
  <2> QED
    <3>1. Head(down[p]).bpm \in Bpm
      BY <2>1, TakeType DEF Msg
    <3>2. bpm' \in [Peer -> Bpm] /\ stamp' \in [Peer -> Stamp] /\ adopted' = adopted
      BY <1>14, <2>2, <3>1 DEF OnDeclare, TypeOK
    <3> QED
      BY <2>1, <3>2, TakeType DEF TypeOK
<1>15. ASSUME NEW p \in Peer, OnIntervalConfig(p)
       PROVE  TypeOK'
  BY <1>15, TakeType DEF OnIntervalConfig, TypeOK, sessionVars
<1>16. ASSUME NEW p \in Peer, NEW now \in Clock, OnChange(p, now)
       PROVE  TypeOK'
  <2>1. Take(p, "Change")
    BY <1>16 DEF OnChange
  <2>2. [origin |-> now, owner |-> Head(down[p]).owner] \in Stamp
    BY <1>0, <2>1, TakeType DEF Msg, Stamp
  <2> QED
    <3>1. Head(down[p]).bpm \in Bpm
      BY <2>1, TakeType DEF Msg
    <3>2. bpm' \in [Peer -> Bpm] /\ stamp' \in [Peer -> Stamp] /\ adopted' = adopted
      BY <1>16, <2>2, <3>1 DEF OnChange, TypeOK
    <3> QED
      BY <2>1, <3>2, TakeType DEF TypeOK
<1>17. CASE UNCHANGED vars
  BY <1>17 DEF vars, sessionVars, bounds, TypeOK
<1> QED
  BY <1>1, <1>2, <1>3, <1>4, <1>5, <1>6, <1>7, <1>8, <1>9, <1>10, <1>11, <1>12,
     <1>13, <1>14, <1>15, <1>16, <1>17
     DEF Next

LEMMA TypeInit == Init => TypeOK
  BY TempoAssumption, MessageTypes
     DEF Init, TypeOK, NoStamp, Stamp, At, Phase, IntervalConfig, Msg

\* The variables of the model of tempo declarations keep their types
\* (session.go's tempo state, the relay's queues and its room's tempo).
THEOREM TypeCorrect == Spec => []TypeOK
<1>1. Init => TypeOK
  BY TypeInit
<1>2. TypeOK /\ [Next]_vars => TypeOK'
  BY TypeStep
<1> QED
  BY <1>1, <1>2, PTL DEF Spec

-----------------------------------------------------------------------------
(* The arbitration rule. *)

\* tempoDeclareAdopts orders the stamps of declarations strictly and totally:
\* none beats itself, so echoes and duplicates are inert; of two different
\* ones exactly one beats the other, whichever arrives first; and what wins
\* against the winner wins against the loser.
THEOREM ArbitrationOrders ==
  ASSUME NEW s \in Stamp, NEW t \in Stamp, NEW u \in Stamp, t.owner # 0
  PROVE  /\ ~Beats(s, s)
         /\ ~(Beats(s, t) /\ Beats(t, s))
         /\ s # t => Beats(s, t) \/ Beats(t, s)
         /\ Beats(s, t) /\ Beats(t, u) => Beats(s, u)
<1>1. /\ s.origin \in Nat /\ t.origin \in Nat /\ u.origin \in Nat
      /\ s.owner \in Nat /\ t.owner \in Nat /\ u.owner \in Nat
  BY DEF Stamp
<1>2. s.origin = t.origin /\ s.owner = t.owner => s = t
  BY DEF Stamp
<1> QED
  BY <1>1, <1>2 DEF Beats

-----------------------------------------------------------------------------
(* Stamps only grow. *)

LEMMA StampStep ==
  TypeOK /\ [Next]_vars
    => \A p \in Peer : stamp'[p] = stamp[p] \/ Beats(stamp'[p], stamp[p])
<1> SUFFICES ASSUME TypeOK, [Next]_vars, NEW q \in Peer
             PROVE  stamp'[q] = stamp[q] \/ Beats(stamp'[q], stamp[q])
  OBVIOUS
<1>1. ASSUME NEW p \in Peer, NEW b \in Bpm, NEW now \in Clock, NEW more \in Seq(Msg),
             DeclareTempo(p, b, now, more)
      PROVE  stamp'[q] = stamp[q] \/ Beats(stamp'[q], stamp[q])
  <2>1. /\ NextStamp(p, now).origin > stamp[p].origin
        /\ stamp' = [stamp EXCEPT ![p] = NextStamp(p, now)]
    BY <1>1, DeclareTempoStep
  <2>2. Beats(NextStamp(p, now), stamp[p])
    BY <2>1 DEF Beats
  <2> QED
    BY <2>1, <2>2 DEF TypeOK
<1>2. CASE \E p \in Peer, b \in Bpm, now \in Clock : ChangeBpm(p, b, now) \/ TempoChanged(p, b, now)
  <2>1. PICK p \in Peer, b \in Bpm, now \in Clock : ChangeBpm(p, b, now) \/ TempoChanged(p, b, now)
    BY <1>2
  <2>2. DeclareTempo(p, b, now, <<>>) /\ <<>> \in Seq(Msg)
    BY <2>1 DEF ChangeBpm, TempoChanged
  <2> QED
    BY <1>1, <2>2
<1>3. CASE \E p \in Peer, now \in Clock : UpdateStreamsError(p, now)
  <2>1. PICK p \in Peer, now \in Clock : UpdateStreamsError(p, now)
    BY <1>3
  <2>2. JoinBpm[p] \in Bpm /\ <<IntervalConfig>> \in Seq(Msg)
    BY TempoAssumption, MessageTypes
  <2> QED
    BY <1>1, <2>1, <2>2 DEF UpdateStreamsError
<1>4. CASE \E p \in Peer : OnDeclare(p)
  <2>1. PICK p \in Peer : OnDeclare(p)
    BY <1>4
  <2> DEFINE s == [origin |-> Head(down[p]).origin, owner |-> Head(down[p]).owner]
  <2>2. CASE Beats(s, stamp[p])
    <3>1. stamp' = [stamp EXCEPT ![p] = s]
      BY <2>1, <2>2 DEF OnDeclare
    <3> QED
      BY <2>2, <3>1 DEF TypeOK
  <2>3. CASE ~Beats(s, stamp[p])
    BY <2>1, <2>3 DEF OnDeclare
  <2> QED
    BY <2>2, <2>3
<1>5. CASE \E p \in Peer, now \in Clock : OnChange(p, now)
  <2>1. PICK p \in Peer, now \in Clock : OnChange(p, now)
    BY <1>5
  <2> DEFINE s == [origin |-> now, owner |-> Head(down[p]).owner]
  <2>2. stamp' = stamp \/ (now > stamp[p].origin /\ stamp' = [stamp EXCEPT ![p] = s])
    BY <2>1 DEF OnChange
  <2>3. now > stamp[p].origin => Beats(s, stamp[p])
    BY DEF Beats
  <2> QED
    BY <2>2, <2>3 DEF TypeOK
<1>6. CASE UNCHANGED stamp
  BY <1>6
<1> QED
  BY <1>2, <1>3, <1>4, <1>5, <1>6
     DEF Next, vars, sessionVars, Join, JoinOk, Seed, Drop, SetInterval, PeerJoined,
         Read, Send, Observe, Announce, OnAnchor, OnIntervalConfig

\* A session's stamp is replaced only by one that beats it, whatever the
\* clocks read and however the messages interleave.
THEOREM StampsGrow == Spec => StampsOnlyGrow
<1>1. TypeOK /\ [Next]_vars
        => [\A p \in Peer : stamp'[p] = stamp[p] \/ Beats(stamp'[p], stamp[p])]_vars
  BY StampStep
<1> QED
  BY <1>1, TypeCorrect, PTL DEF Spec, StampsOnlyGrow

LEMMA OriginsGrow ==
  ASSUME TypeOK, [Next]_vars, NEW p \in Peer
  PROVE  stamp[p].origin \in Nat /\ stamp'[p].origin \in Nat
         /\ stamp'[p].origin >= stamp[p].origin
<1>1. TypeOK'
  BY TypeStep
<1>2. stamp[p].origin \in Nat /\ stamp'[p].origin \in Nat
  BY <1>1 DEF TypeOK, Stamp
<1> QED
  BY <1>2, StampStep DEF Beats

-----------------------------------------------------------------------------
(* A stamp names one declaration. *)

\* Every message somewhere between two sessions.
Carried == UNION {InFlight(p) : p \in Peer}

\* m is on its way already, is no declaration, or is the new declaration d.
Expected(m, d) == m \in Carried \/ m.type # "Declare" \/ m = d

LEMMA CarriedParts ==
  \A p \in Peer : /\ pump[p].msg \in Carried
                  /\ Range(up[p]) \subseteq Carried
                  /\ Range(down[p]) \subseteq Carried
  BY DEF Carried, InFlight

LEMMA UnderwayBound ==
  ASSUME NEW d,
         \A q \in Peer : /\ Expected(pump'[q].msg, d)
                         /\ \A m \in Range(up'[q]) : Expected(m, d)
                         /\ \A m \in Range(down'[q]) : Expected(m, d)
  PROVE  Underway' \subseteq Underway \cup {d}
<1> SUFFICES ASSUME NEW m \in Underway'
             PROVE  m \in Underway \cup {d}
  OBVIOUS
<1>1. m.type = "Declare" /\ \E q \in Peer : m \in InFlight(q)'
  BY DEF Underway
<1>2. PICK q \in Peer : m \in InFlight(q)'
  BY <1>1
<1>3. m = pump'[q].msg \/ m \in Range(up'[q]) \/ m \in Range(down'[q])
  BY <1>2 DEF InFlight
<1>4. Expected(m, d)
  BY <1>3
<1> QED
  BY <1>1, <1>4 DEF Expected, Underway, Carried

\* What a session broadcasts is all that is new in the queues to the relay.
LEMMA BroadcastExpected ==
  ASSUME TypeOK, NEW d, NEW p \in Peer, NEW ms \in Seq(Msg),
         Broadcast(p, ms),
         \A m \in Range(ms) : m.type # "Declare" \/ m = d
  PROVE  \A q \in Peer : \A m \in Range(up'[q]) : Expected(m, d)
<1> SUFFICES ASSUME NEW q \in Peer, NEW m \in Range(up'[q])
             PROVE  Expected(m, d)
  OBVIOUS
<1>1. up[p] \in Seq(Msg)
  BY DEF TypeOK
<1>2. Range(up[p] \o ms) \subseteq Range(up[p]) \cup Range(ms)
  BY <1>1, ConcatRange
<1>3. up'[q] = up[q] \/ (q = p /\ up'[q] = up[p] \o ms)
  BY DEF Broadcast, TypeOK
<1> QED
  BY <1>2, <1>3, CarriedParts DEF Expected

LEMMA PairRange ==
  ASSUME NEW a, NEW b
  PROVE  Range(<<a, b>>) = {a, b}
<1>1. DOMAIN <<a, b>> = {1, 2}
  OBVIOUS
<1> QED
  BY <1>1 DEF Range

LEMMA SingleRange ==
  ASSUME NEW a
  PROVE  Range(<<a>>) = {a}
<1>1. DOMAIN <<a>> = {1}
  OBVIOUS
<1> QED
  BY <1>1 DEF Range

\* A declaration adds itself to what is under way, and nothing else does.
LEMMA DeclareUnderway ==
  ASSUME TypeOK,
         NEW p \in Peer, NEW b \in Bpm, NEW now \in Clock,
         NEW more \in Seq(Msg),
         \A m \in Range(more) : m.type # "Declare",
         DeclareTempo(p, b, now, more),
         UNCHANGED <<pump, down>>
  PROVE  Underway' \subseteq Underway \cup {Declare(b, NextStamp(p, now))}
<1> SUFFICES ASSUME NEW d, d = Declare(b, NextStamp(p, now))
             PROVE  Underway' \subseteq Underway \cup {d}
  OBVIOUS
<1> DEFINE pair == <<Declare(b, NextStamp(p, now)), Change(p, b)>>
<1>1. pair \in Seq(Msg) /\ pair \o more \in Seq(Msg) /\ Broadcast(p, pair \o more)
  <2>1. pair \o more \in Seq(Msg) /\ Broadcast(p, pair \o more) /\ NextStamp(p, now) \in Stamp
    BY DeclareTempoStep
  <2> QED
    BY <2>1, MessageTypes
<1>2. Range(pair \o more) \subseteq Range(pair) \cup Range(more)
  <2> HIDE DEF pair
  <2> QED
    BY <1>1, ConcatRange
<1>3. Range(pair) = {d, Change(p, b)}
  BY PairRange
<1>4. \A m \in Range(pair \o more) : m.type # "Declare" \/ m = d
  BY <1>2, <1>3 DEF Change
<1>5. \A q \in Peer : \A m \in Range(up'[q]) : Expected(m, d)
  <2> HIDE DEF pair
  <2>1. ASSUME NEW ms, ms = pair \o more
        PROVE  \A q \in Peer : \A m \in Range(up'[q]) : Expected(m, d)
    <3>1. ms \in Seq(Msg) /\ Broadcast(p, ms) /\ \A m \in Range(ms) : m.type # "Declare" \/ m = d
      BY <1>1, <1>4, <2>1
    <3> QED
      BY <3>1, BroadcastExpected
  <2> QED
    BY <2>1
<1> QED
  BY <1>5, CarriedParts, UnderwayBound DEF Expected

\* Every other step only moves or loses declarations.
LEMMA OtherUnderway ==
  ASSUME TypeOK, NEW p \in Peer,
         \/ Join(p) \/ JoinOk(p) \/ Seed(p) \/ Drop(p)
         \/ SetInterval(p) \/ PeerJoined(p)
         \/ Read(p) \/ (\E q \in Peer : Send(p, q)) \/ Observe(p) \/ Announce(p)
         \/ OnAnchor(p) \/ OnDeclare(p) \/ OnIntervalConfig(p)
         \/ \E now \in Clock : OnChange(p, now)
  PROVE  Underway' \subseteq Underway
<1> DEFINE d == IntervalConfig
<1>0. \A m : m \in Carried \/ m.type # "Declare" => Expected(m, d)
  BY DEF Expected
<1>a. /\ \A ph \in Phase : At(ph).msg.type = "Config"
      /\ \A b : Anchor(b).type = "Anchor"
      /\ d.type = "Config"
  BY DEF At, Anchor, IntervalConfig
<1> SUFFICES \A q \in Peer : /\ Expected(pump'[q].msg, d)
                             /\ \A m \in Range(up'[q]) : Expected(m, d)
                             /\ \A m \in Range(down'[q]) : Expected(m, d)
  <2>1. Underway' \subseteq Underway \cup {d}
    BY UnderwayBound
  <2>2. d \notin Underway'
    BY <1>a DEF Underway
  <2> QED
    BY <2>1, <2>2
<1> SUFFICES ASSUME NEW q \in Peer
             PROVE  /\ Expected(pump'[q].msg, d)
                    /\ \A m \in Range(up'[q]) : Expected(m, d)
                    /\ \A m \in Range(down'[q]) : Expected(m, d)
  OBVIOUS
<1> HIDE DEF d
<1>b. /\ Expected(pump[q].msg, d)
      /\ \A m \in Range(up[q]) : Expected(m, d)
      /\ \A m \in Range(down[q]) : Expected(m, d)
  BY <1>0, CarriedParts
<1>c. \A m \in Range(<<>>) : Expected(m, d)
  BY EmptyRange
<1>d. \A ph \in Phase : Expected(At(ph).msg, d)
  BY <1>0, <1>a
<1>1. CASE Join(p)
  BY <1>1, <1>b, <1>c, <1>d DEF Join, TypeOK, Phase
<1>2. CASE JoinOk(p)
  BY <1>2, <1>b, <1>c, <1>d DEF JoinOk, TypeOK, Phase
<1>3. CASE Seed(p)
  <2>1. down'[q] = down[q] \/ (room # 0 /\ down'[q] = Append(down[q], Anchor(room)))
    BY <1>3 DEF Seed, TypeOK
  <2>2. room # 0 => Range(Append(down[q], Anchor(room))) = Range(down[q]) \cup {Anchor(room)}
    BY AppendRange, MessageTypes DEF TypeOK
  <2> QED
    BY <1>0, <1>3, <1>a, <1>b, <1>d, <2>1, <2>2 DEF Seed, TypeOK, Phase
<1>4. CASE Drop(p)
  <2>1. PICK n \in 0..Len(down[p]) : down' = [down EXCEPT ![p] = SubSeq(@, 1, n)]
    BY <1>4 DEF Drop
  <2>2. Range(SubSeq(down[p], 1, n)) \subseteq Range(down[p])
    BY PrefixRange DEF TypeOK
  <2>3. \A m \in Range(down'[q]) : Expected(m, d)
    BY <1>0, <2>1, <2>2, CarriedParts DEF TypeOK
  <2>4. \A m \in Range(up'[q]) : Expected(m, d)
    BY <1>4, <1>b, <1>c DEF Drop, TypeOK
  <2>5. Expected(pump'[q].msg, d)
    <3>1. [pump[q] EXCEPT !.to = @ \ {p}].msg = pump[q].msg
      BY PumpTypes DEF TypeOK
    <3>2. Expected(Sent(pump[q], p).msg, d)
      BY <1>b, <1>d, <3>1 DEF Sent, Phase
    <3> QED
      BY <1>4, <3>2 DEF Drop
  <2> QED
    BY <1>b, <2>3, <2>4, <2>5
<1>5. CASE SetInterval(p) \/ PeerJoined(p)
  <2>1. Broadcast(p, <<IntervalConfig>>) /\ <<IntervalConfig>> \in Seq(Msg) /\ UNCHANGED <<pump, down>>
    BY <1>5, MessageTypes DEF SetInterval, PeerJoined
  <2>2. \A m \in Range(<<IntervalConfig>>) : m.type # "Declare"
    BY SingleRange DEF IntervalConfig
  <2>3. \A m \in Range(up'[q]) : Expected(m, d)
    BY <2>1, <2>2, BroadcastExpected
  <2> QED
    BY <1>b, <2>1, <2>3
<1>6. CASE Read(p)
  <2>1. up[p] \in Seq(Msg) /\ up[p] # <<>>
    BY <1>6 DEF Read, TypeOK
  <2>2. Head(up[p]) \in Range(up[p]) /\ Range(Tail(up[p])) \subseteq Range(up[p])
    BY <2>1, TailRange
  <2>3. Expected(Head(up[p]), d) /\ \A m \in Range(Tail(up[p])) : Expected(m, d)
    BY <1>0, <2>2, CarriedParts
  <2> QED
    BY <1>6, <1>b, <2>3 DEF Read, TypeOK
<1>7. CASE \E r \in Peer : Send(p, r)
  <2>1. PICK r \in Peer : Send(p, r)
    BY <1>7
  <2>2. pump[p].msg \in Msg /\ down[q] \in Seq(Msg)
    BY PumpTypes DEF TypeOK
  <2>3. Range(Append(down[q], pump[p].msg)) = Range(down[q]) \cup {pump[p].msg}
    BY <2>2, AppendRange
  <2>4. down'[q] = down[q] \/ down'[q] = Append(down[q], pump[p].msg)
    BY <2>1 DEF Send, TypeOK
  <2>5. \A m \in Range(down'[q]) : Expected(m, d)
    <3>1. Expected(pump[p].msg, d)
      BY <1>0, CarriedParts
    <3>2. CASE down'[q] = down[q]
      BY <1>b, <3>2
    <3>3. CASE down'[q] = Append(down[q], pump[p].msg)
      <4>1. Range(down'[q]) = Range(down[q]) \cup {pump[p].msg}
        BY <2>3, <3>3
      <4> QED
        BY <1>b, <3>1, <4>1
    <3> QED
      BY <2>4, <3>2, <3>3
  <2>6. Expected(Sent(pump[p], r).msg, d)
    <3>1. [pump[p] EXCEPT !.to = @ \ {r}].msg = pump[p].msg
      BY PumpTypes DEF TypeOK
    <3> QED
      BY <1>0, <1>d, <3>1, CarriedParts DEF Sent, Phase
  <2> QED
    BY <1>b, <2>1, <2>5, <2>6 DEF Send, TypeOK
<1>8. CASE Observe(p)
  <2>1. PICK b : \/ pump' = [pump EXCEPT ![p] = At("idle")]
                 \/ pump' = [pump EXCEPT ![p] = [At("observed") EXCEPT !.msg = Anchor(b)]]
    BY <1>8 DEF Observe
  <2>2. [At("observed") EXCEPT !.msg = Anchor(b)].msg = Anchor(b)
    BY DEF At
  <2>3. Expected(Anchor(b), d)
    BY <1>0, <1>a
  <2> QED
    BY <1>8, <1>b, <1>d, <2>1, <2>2, <2>3 DEF Observe, TypeOK, Phase
<1>9. CASE Announce(p)
  <2>1. [pump[p] EXCEPT !.phase = "anchor", !.to = On].msg = pump[p].msg
    <3>1. /\ pump[p] \in [phase : Phase, msg : Msg, to : SUBSET Peer]
          /\ "anchor" \in Phase /\ On \in SUBSET Peer
      BY OnIsPeers DEF TypeOK, Phase
    <3> QED
      BY <3>1, PumpTypes
  <2>2. pump'[q].msg = pump[q].msg
    BY <1>9, <2>1 DEF Announce, TypeOK
  <2> QED
    BY <1>9, <1>b, <2>2 DEF Announce
<1>10. CASE \/ OnAnchor(p) \/ OnDeclare(p) \/ OnIntervalConfig(p)
            \/ \E now \in Clock : OnChange(p, now)
  <2>1. \E type : Take(p, type)
    BY <1>10 DEF OnAnchor, OnDeclare, OnIntervalConfig, OnChange
  <2>2. down[p] \in Seq(Msg) /\ down[p] # <<>> /\ down' = [down EXCEPT ![p] = Tail(@)]
        /\ UNCHANGED <<up, pump>>
    BY <2>1 DEF Take, TypeOK
  <2>3. Range(Tail(down[p])) \subseteq Range(down[p])
    BY <2>2, TailRange
  <2> QED
    BY <1>0, <1>b, <2>2, <2>3, CarriedParts DEF TypeOK
<1> QED
  BY <1>1, <1>2, <1>3, <1>4, <1>5, <1>6, <1>7, <1>8, <1>9, <1>10

\* Invariant: no declaration under way is later than what its owner knows, so
\* the owner's next stamp is new.
OwnStampsKnown ==
  \A m \in Underway, p \in Peer : m.owner = Identity[p] => m.origin <= stamp[p].origin

StampInv == OwnStampsKnown /\ StampNamesOneTempo

LEMMA UnderwayMsg ==
  ASSUME TypeOK
  PROVE  \A m \in Underway : m.origin \in Nat
<1>1. \A p \in Peer : InFlight(p) \subseteq Msg
  BY DEF InFlight, TypeOK, Range
<1> QED
  BY <1>1 DEF Underway, Msg

\* A step that puts nothing new on its way keeps the invariant.
LEMMA StampInvMoved ==
  ASSUME TypeOK, StampInv, [Next]_vars, Underway' \subseteq Underway
  PROVE  StampInv'
<1>1. OwnStampsKnown'
  <2> SUFFICES ASSUME NEW m \in Underway', NEW p \in Peer, m.owner = Identity[p]
               PROVE  m.origin <= stamp'[p].origin
    BY DEF OwnStampsKnown
  <2>1. m.origin \in Nat /\ m.origin <= stamp[p].origin
    BY UnderwayMsg DEF StampInv, OwnStampsKnown
  <2> QED
    BY <2>1, OriginsGrow
<1>2. StampNamesOneTempo'
  BY DEF StampInv, StampNamesOneTempo
<1> QED
  BY <1>1, <1>2 DEF StampInv

\* So does a declaration: its stamp is later than all the owner gave away.
LEMMA StampInvDeclared ==
  ASSUME TypeOK, StampInv, [Next]_vars,
         NEW p \in Peer, NEW b \in Bpm, NEW now \in Clock, NEW more \in Seq(Msg),
         \A m \in Range(more) : m.type # "Declare",
         DeclareTempo(p, b, now, more),
         UNCHANGED <<pump, down>>
  PROVE  StampInv'
<1> SUFFICES ASSUME NEW s, s = NextStamp(p, now),
                    NEW d, d = Declare(b, s)
             PROVE  StampInv'
  OBVIOUS
<1>1. Underway' \subseteq Underway \cup {d}
  BY DeclareUnderway
<1>2. /\ d.owner = Identity[p] /\ d.origin = s.origin /\ d.origin \in Nat
      /\ s.origin > stamp[p].origin
      /\ stamp'[p].origin = s.origin
  <2>1. s \in Stamp /\ s.origin > stamp[p].origin /\ s.owner = Identity[p]
        /\ stamp' = [stamp EXCEPT ![p] = s]
    BY DeclareTempoStep
  <2> QED
    BY <2>1 DEF Declare, Stamp, TypeOK
<1>3. \A m \in Underway : m.owner = Identity[p] => m.origin < d.origin
  BY <1>2, UnderwayMsg, OriginsGrow DEF StampInv, OwnStampsKnown
<1>4. OwnStampsKnown'
  <2> SUFFICES ASSUME NEW m \in Underway', NEW q \in Peer, m.owner = Identity[q]
               PROVE  m.origin <= stamp'[q].origin
    BY DEF OwnStampsKnown
  <2>1. CASE m \in Underway
    <3>1. m.origin \in Nat /\ m.origin <= stamp[q].origin
      BY <2>1, UnderwayMsg DEF StampInv, OwnStampsKnown
    <3> QED
      BY <3>1, OriginsGrow
  <2>2. CASE m = d
    <3>1. q = p
      BY <1>2, <2>2, TempoAssumption
    <3> QED
      BY <1>2, <2>2, <3>1
  <2> QED
    BY <1>1, <2>1, <2>2
<1>5. StampNamesOneTempo'
  <2> SUFFICES ASSUME NEW m \in Underway', NEW n \in Underway',
                      m.origin = n.origin, m.owner = n.owner
               PROVE  m.bpm = n.bpm
    BY DEF StampNamesOneTempo
  <2>1. CASE m \in Underway /\ n \in Underway
    BY <2>1 DEF StampInv, StampNamesOneTempo
  <2>2. CASE m = d /\ n = d
    BY <2>2
  <2>3. ASSUME NEW k \in Underway
        PROVE  ~(k.owner = d.owner /\ k.origin = d.origin)
    BY <1>2, <1>3, UnderwayMsg
  <2> QED
    BY <1>1, <2>1, <2>2, <2>3
<1> QED
  BY <1>4, <1>5 DEF StampInv

LEMMA StampInvStep == TypeOK /\ StampInv /\ [Next]_vars => StampInv'
<1> SUFFICES ASSUME TypeOK, StampInv, [Next]_vars
             PROVE  StampInv'
  OBVIOUS
<1>1. CASE \E p \in Peer, b \in Bpm, now \in Clock : ChangeBpm(p, b, now) \/ TempoChanged(p, b, now)
  <2>1. PICK p \in Peer, b \in Bpm, now \in Clock : ChangeBpm(p, b, now) \/ TempoChanged(p, b, now)
    BY <1>1
  <2>2. DeclareTempo(p, b, now, <<>>) /\ <<>> \in Seq(Msg) /\ UNCHANGED <<pump, down>>
    BY <2>1 DEF ChangeBpm, TempoChanged
  <2> QED
    BY <2>2, StampInvDeclared, EmptyRange
<1>2. CASE \E p \in Peer, now \in Clock : UpdateStreamsError(p, now)
  <2>1. PICK p \in Peer, now \in Clock : UpdateStreamsError(p, now)
    BY <1>2
  <2>2. /\ DeclareTempo(p, JoinBpm[p], now, <<IntervalConfig>>)
        /\ JoinBpm[p] \in Bpm /\ <<IntervalConfig>> \in Seq(Msg)
        /\ UNCHANGED <<pump, down>>
    BY <2>1, TempoAssumption, MessageTypes DEF UpdateStreamsError
  <2>3. \A m \in Range(<<IntervalConfig>>) : m.type # "Declare"
    BY SingleRange DEF IntervalConfig
  <2> QED
    BY <2>2, <2>3, StampInvDeclared
<1>3. CASE \E p \in Peer :
             \/ Join(p) \/ JoinOk(p) \/ Seed(p) \/ Drop(p)
             \/ SetInterval(p) \/ PeerJoined(p)
             \/ Read(p) \/ (\E q \in Peer : Send(p, q)) \/ Observe(p) \/ Announce(p)
             \/ OnAnchor(p) \/ OnDeclare(p) \/ OnIntervalConfig(p)
             \/ \E now \in Clock : OnChange(p, now)
  BY <1>3, OtherUnderway, StampInvMoved
<1>4. CASE UNCHANGED vars
  <2>1. Underway' = Underway
    BY <1>4 DEF vars, Underway, InFlight
  <2> QED
    BY <2>1, StampInvMoved
<1> QED
  BY <1>1, <1>2, <1>3, <1>4 DEF Next

LEMMA StampInvInit == Init => StampInv
<1> SUFFICES ASSUME Init
             PROVE  Underway = {}
  BY DEF StampInv, OwnStampsKnown, StampNamesOneTempo
<1>1. \A p \in Peer : InFlight(p) = {IntervalConfig}
  BY EmptyRange DEF Init, InFlight, At
<1> QED
  BY <1>1 DEF Underway, IntervalConfig

\* Two declarations under way with one origin and one owner carry one tempo,
\* however fast a session declares and whatever its clock reads.
THEOREM StampsNameTempos == Spec => []StampNamesOneTempo
<1>1. Init => TypeOK /\ StampInv
  BY TypeInit, StampInvInit
<1>2. TypeOK /\ StampInv /\ [Next]_vars => TypeOK' /\ StampInv'
  BY TypeStep, StampInvStep
<1>3. StampInv => StampNamesOneTempo
  BY DEF StampInv
<1> QED
  BY <1>1, <1>2, <1>3, PTL DEF Spec
-----------------------------------------------------------------------------
(* A room in which nothing is under way agrees on its tempo. *)

Still(p) == up[p] = <<>> /\ pump[p].phase = "idle"

\* An anchor is on its way to q, or will be once q has joined.
AnchorComes(q) ==
  \/ pump[q].phase \in {"joinok", "seed"}
  \/ \E m \in Range(down[q]) : m.type = "Anchor"
  \/ \E p \in Peer : \/ pump[p].phase = "observed"
                     \/ pump[p].phase = "anchor" /\ q \in pump[p].to

\* p says nothing of a tempo but what the relay knows.
Greeting(p) ==
  /\ \A m \in Range(up[p]) : m.type = "Config"
  /\ pump[p].phase = "forward" => pump[p].msg.type = "Config"
  /\ pump[p].phase \in {"observed", "anchor"} => pump[p].msg = Anchor(room)
  /\ p \notin On => Still(p)

\* q plays the room's tempo, or has an anchor to take it from.
Following(q) ==
  /\ \A m \in Range(down[q]) : m.type = "Config" \/ m = Anchor(room)
  /\ room = 0 => ~adopted[q]
  /\ room # 0 => bpm[q] = room \/ (~adopted[q] /\ AnchorComes(q))

\* Nobody declares a tempo.
Greets == (\A p \in Peer : Greeting(p)) /\ (\A q \in On : Following(q))

\* What the declaration of tempo b by p goes through at the relay.
Declared(p, b) ==
  /\ pump[p].phase = "idle"
  /\ \E s \in Stamp : up[p] = <<Declare(b, s), Change(p, b)>>
ForwardsIt(p, b) ==
  /\ pump[p].phase = "forward" /\ pump[p].msg.type = "Declare" /\ pump[p].msg.bpm = b
  /\ up[p] = <<Change(p, b)>>
CopyIsNext(p, b) ==
  room = b /\ pump[p].phase = "idle" /\ up[p] = <<Change(p, b)>>
ForwardsCopy(p, b) ==
  /\ room = b /\ pump[p].phase = "forward" /\ pump[p].msg = Change(p, b)
  /\ up[p] = <<>>
Anchors(p, b) ==
  /\ room = b /\ pump[p].phase \in {"observed", "anchor"} /\ pump[p].msg = Anchor(b)
  /\ up[p] \in {<<>>, <<Change(p, b)>>}

Stage(p, b) ==
  \/ Declared(p, b) \/ ForwardsIt(p, b) \/ CopyIsNext(p, b)
  \/ ForwardsCopy(p, b) \/ Anchors(p, b)

\* All that is on its way to q carries tempo b.
Carries(q, b) == \A m \in Range(down[q]) : m.bpm = b

\* q plays b or will adopt it from the copy of the declaration.
Converges(q, b) == bpm[q] = b \/ \E m \in Range(down[q]) : m.type = "Change"

\* The copy of p's declaration is yet to be sent to q.
CopyComes(p, q) ==
  up[p] # <<>> \/ (pump[p].phase = "forward" /\ q \in pump[p].to)

\* The declaration of p is with the relay.
Spreads(p, b) ==
  /\ p \in On
  /\ \A q \in Peer \ {p} : Still(q)
  /\ \A q \in On : notice[q] = 0 /\ Carries(q, b)
  /\ bpm[p] = b
  /\ Stage(p, b)
  /\ \A q \in On \ {p} : Converges(q, b) \/ CopyComes(p, q)

\* The relay is done with it; the members have yet to handle it.
Delivers(b) ==
  /\ \A q \in Peer : Still(q)
  /\ room = b
  /\ \A q \in On : notice[q] = 0 /\ Carries(q, b) /\ Converges(q, b)

\* A readPump sends only when it forwards or announces.
Targets == \A p \in Peer : pump[p].to # {} => pump[p].phase \in {"forward", "anchor"}

\* Invariant: at any time one declaration at most is under way, and while there
\* is none each member follows the relay.
Agreement == Greets \/ \E b \in Bpm : Delivers(b) \/ \E p \in Peer : Spreads(p, b)
AgreeInv == Targets /\ (rejects = 0 => Agreement)

\* A declaration of b is with the relay or its members, or was and they have left.
Told(b) == Delivers(b) \/ (\E p \in Peer : Spreads(p, b)) \/ (On = {} /\ Greets)

\* What is true at the start, and of the readPumps' recipients at each step.
LEMMA AgreeInit == Init => AgreeInv
<1> SUFFICES ASSUME Init PROVE Targets /\ Greets
  BY DEF AgreeInv, Agreement
<1>1. \A p \in Peer : pump[p] = At("idle") /\ up[p] = <<>>
  BY DEF Init
<1>2. At("idle").phase = "idle" /\ At("idle").to = {}
  BY DEF At
<1>3. On = {}
  BY DEF Init, On
<1> QED
  BY <1>1, <1>2, <1>3, EmptyRange DEF Targets, Greets, Greeting, Still

LEMMA PhaseOfAt == \A ph \in Phase : At(ph).phase = ph /\ At(ph).to = {}
  BY DEF At

\* Of a pump that has sent to q: it goes on, or it was announcing and is done.
LEMMA SentParts ==
  ASSUME NEW r \in [phase : Phase, msg : Msg, to : SUBSET Peer], NEW q \in Peer
  PROVE  /\ Sent(r, q) = At("idle") \/ Sent(r, q) = [r EXCEPT !.to = @ \ {q}]
         /\ Sent(r, q).to = r.to \ {q}
         /\ \/ Sent(r, q).phase = r.phase /\ Sent(r, q).msg = r.msg
            \/ r.phase = "anchor" /\ r.to = {q} /\ Sent(r, q).phase = "idle"
<1>1. CASE r.phase = "anchor" /\ r.to = {q}
  <2>1. Sent(r, q) = At("idle")
    BY <1>1 DEF Sent
  <2> QED
    BY <1>1, <2>1, PhaseOfAt DEF Phase
<1>2. CASE ~(r.phase = "anchor" /\ r.to = {q})
  <2>1. Sent(r, q) = [r EXCEPT !.to = @ \ {q}]
    BY <1>2 DEF Sent
  <2> QED
    BY <2>1
<1> QED
  BY <1>1, <1>2

LEMMA TailKeeps ==
  ASSUME NEW S, NEW s \in Seq(S), s # <<>>
  PROVE  \A m \in Range(s) : m = Head(s) \/ m \in Range(Tail(s))
<1>1. /\ DOMAIN s = 1..Len(s)
      /\ DOMAIN Tail(s) = 1..(Len(s) - 1)
      /\ \A i \in 1..(Len(s) - 1) : Tail(s)[i] = s[i + 1]
      /\ Head(s) = s[1] /\ Len(s) \in Nat
  OBVIOUS
<1> SUFFICES ASSUME NEW i \in 1..Len(s), i # 1
             PROVE  s[i] \in Range(Tail(s))
  BY <1>1 DEF Range
<1>2. i - 1 \in 1..(Len(s) - 1) /\ (i - 1) + 1 = i
  BY <1>1
<1> QED
  BY <1>1, <1>2 DEF Range

LEMMA TargetsStep == TypeOK /\ Targets /\ [Next]_vars => Targets'
<1> SUFFICES ASSUME TypeOK, Targets, [Next]_vars, NEW r \in Peer
             PROVE  pump'[r].to # {} => pump'[r].phase \in {"forward", "anchor"}
  BY DEF Targets
<1>0. pump[r].to # {} => pump[r].phase \in {"forward", "anchor"}
  BY DEF Targets
<1>1. ASSUME NEW p \in Peer, Join(p) \/ JoinOk(p) \/ Seed(p)
      PROVE  pump'[r].to = {} \/ pump'[r] = pump[r]
  BY <1>1, PhaseOfAt DEF Join, JoinOk, Seed, TypeOK, Phase
<1>2. ASSUME NEW p \in Peer, NEW q \in Peer, pump'[r] = pump[r] \/ pump'[r] = Sent(pump[r], q)
      PROVE  pump'[r].to # {} => pump'[r].phase \in {"forward", "anchor"}
  <2>1. pump[r] \in [phase : Phase, msg : Msg, to : SUBSET Peer]
    BY DEF TypeOK
  <2> QED
    BY <1>0, <1>2, <2>1, SentParts
<1>3. ASSUME NEW p \in Peer, Drop(p) \/ \E q \in Peer : Send(p, q)
      PROVE  \E q \in Peer : pump'[r] = pump[r] \/ pump'[r] = Sent(pump[r], q)
  BY <1>3 DEF Drop, Send, TypeOK
<1>4. ASSUME NEW p \in Peer, Read(p) \/ Observe(p) \/ Announce(p)
      PROVE  pump'[r].to # {} => pump'[r].phase \in {"forward", "anchor"}
  <2>1. CASE Read(p)
    BY <1>0, <2>1 DEF Read, TypeOK
  <2>2. CASE Observe(p)
    <3>1. PICK b : \/ pump' = [pump EXCEPT ![p] = At("idle")]
                   \/ pump' = [pump EXCEPT ![p] = [At("observed") EXCEPT !.msg = Anchor(b)]]
      BY <2>2 DEF Observe
    <3>2. [At("observed") EXCEPT !.msg = Anchor(b)].to = {} /\ At("idle").to = {}
      BY DEF At
    <3> QED
      BY <1>0, <3>1, <3>2 DEF TypeOK
  <2>3. CASE Announce(p)
    <3>1. pump' = [pump EXCEPT ![p] = [@ EXCEPT !.phase = "anchor", !.to = On]]
      BY <2>3 DEF Announce
    <3>2. pump[p] \in [phase : Phase, msg : Msg, to : SUBSET Peer]
      BY DEF TypeOK
    <3>3. [pump[p] EXCEPT !.phase = "anchor", !.to = On].phase = "anchor"
      BY <3>2
    <3> QED
      BY <1>0, <3>1, <3>3 DEF TypeOK
  <2> QED
    BY <1>4, <2>1, <2>2, <2>3
<1>5. CASE UNCHANGED pump
  BY <1>0, <1>5
<1> QED
  BY <1>0, <1>1, <1>2, <1>3, <1>4, <1>5
     DEF Next, vars, ChangeBpm, TempoChanged, SetInterval, UpdateStreamsError, PeerJoined,
         OnAnchor, OnDeclare, OnIntervalConfig, OnChange, Take

\* What a session does when it takes a message.
Hears(p) ==
  \/ OnAnchor(p) \/ OnDeclare(p) \/ OnIntervalConfig(p)
  \/ \E now \in Clock : OnChange(p, now)

LEMMA HearsStep ==
  ASSUME TypeOK, NEW p \in Peer, Hears(p)
  PROVE  \E m \in Range(down[p]) :
           /\ m \in Msg
           /\ UNCHANGED <<conn, notice, up, pump, room, rejects>>
           /\ \A q \in Peer \ {p} : /\ bpm'[q] = bpm[q] /\ adopted'[q] = adopted[q]
                                    /\ down'[q] = down[q]
           /\ Range(down'[p]) \subseteq Range(down[p])
           /\ \A n \in Range(down[p]) : n = m \/ n \in Range(down'[p])
           /\ bpm'[p] = bpm[p] \/ bpm'[p] = m.bpm
           /\ m.type = "Change" => bpm'[p] = m.bpm
           /\ m.type = "Config" => bpm'[p] = bpm[p] /\ adopted'[p] = adopted[p]
           /\ m.type = "Anchor" => bpm'[p] = IF adopted[p] THEN bpm[p] ELSE m.bpm
<1> DEFINE m == Head(down[p])
<1>1. \E type : Take(p, type)
  BY DEF Hears, OnAnchor, OnDeclare, OnIntervalConfig, OnChange
<1>2. /\ down[p] \in Seq(Msg) /\ down[p] # <<>>
      /\ down' = [down EXCEPT ![p] = Tail(@)]
      /\ UNCHANGED <<conn, notice, up, pump, room, rejects>>
  BY <1>1 DEF Take, TypeOK, bounds
<1>3. down'[p] = Tail(down[p]) /\ \A q \in Peer \ {p} : down'[q] = down[q]
  BY <1>2 DEF TypeOK
<1>4. /\ m \in Range(down[p]) /\ m \in Msg /\ Range(down'[p]) \subseteq Range(down[p])
      /\ \A n \in Range(down[p]) : n = m \/ n \in Range(down'[p])
  BY <1>2, <1>3, TailRange, TailKeeps
<1>5. /\ \A q \in Peer \ {p} : bpm'[q] = bpm[q] /\ adopted'[q] = adopted[q]
      /\ bpm'[p] = bpm[p] \/ bpm'[p] = m.bpm
      /\ m.type = "Change" => bpm'[p] = m.bpm
      /\ m.type = "Config" => bpm'[p] = bpm[p] /\ adopted'[p] = adopted[p]
      /\ m.type = "Anchor" => bpm'[p] = IF adopted[p] THEN bpm[p] ELSE m.bpm
  <2>1. CASE OnAnchor(p)
    BY <2>1 DEF OnAnchor, Take, TypeOK
  <2>2. CASE OnDeclare(p)
    BY <2>2 DEF OnDeclare, Take, TypeOK
  <2>3. CASE OnIntervalConfig(p)
    BY <2>3 DEF OnIntervalConfig, Take, TypeOK, sessionVars
  <2>4. CASE \E now \in Clock : OnChange(p, now)
    BY <2>4 DEF OnChange, Take, TypeOK
  <2> QED
    BY <2>1, <2>2, <2>3, <2>4 DEF Hears
<1> QED
  BY <1>2, <1>3, <1>4, <1>5

\* An anchor that is to come to q still is, unless its sender is done with it.
LEMMA AnchorStillComes ==
  ASSUME NEW q \in Peer, AnchorComes(q),
         \A m \in Range(down[q]) : m.type = "Anchor" => m \in Range(down'[q]),
         \A r \in Peer : \/ pump'[r] = pump[r]
                         \/ pump[r].phase \in {"idle", "forward"}
                         \/ AnchorComes(q)'
  PROVE  AnchorComes(q)'
<1>1. CASE pump[q].phase \in {"joinok", "seed"}
  BY <1>1 DEF AnchorComes
<1>2. CASE \E m \in Range(down[q]) : m.type = "Anchor"
  BY <1>2 DEF AnchorComes
<1>3. CASE \E r \in Peer : \/ pump[r].phase = "observed"
                           \/ pump[r].phase = "anchor" /\ q \in pump[r].to
  BY <1>3 DEF AnchorComes
<1> QED
  BY <1>1, <1>2, <1>3 DEF AnchorComes

\* While nobody declares a tempo, nobody does until the musicians act.
LEMMA GreetsGoesOn ==
  ASSUME TypeOK, Targets, Greets, NEW p \in Peer,
         \/ JoinOk(p) \/ Seed(p) \/ PeerJoined(p) \/ SetInterval(p)
         \/ Read(p) \/ (\E q \in Peer : Send(p, q)) \/ Announce(p) \/ Hears(p)
  PROVE  Greets'
<1>0. \A q \in Peer : Greeting(q) /\ (q \in On => Following(q))
  BY DEF Greets
<1>a. On' = On /\ room' = room
  <2>1. CASE Hears(p)
    BY <2>1, HearsStep DEF On
  <2> QED
    BY <2>1 DEF JoinOk, Seed, PeerJoined, SetInterval, Read, Send, Announce, On
<1>b. On \subseteq Peer
  BY OnIsPeers
<1>c. \A q \in Peer : /\ pump[q] \in [phase : Phase, msg : Msg, to : SUBSET Peer]
                      /\ up[q] \in Seq(Msg) /\ down[q] \in Seq(Msg)
  BY DEF TypeOK
<1> SUFFICES ASSUME NEW q \in Peer
             PROVE  Greeting(q)' /\ (q \in On => Following(q)')
  BY <1>a, <1>b DEF Greets
<1>1. CASE JoinOk(p)
  <2>1. pump'[p] = At("seed") /\ pump'[p].phase = "seed"
    BY <1>1, PhaseOfAt DEF JoinOk, TypeOK, Phase
  <2>2. pump[p].phase = "joinok" /\ \A r \in Peer \ {p} : pump'[r] = pump[r]
    BY <1>1 DEF JoinOk, TypeOK
  <2>3. up' = up /\ bpm' = bpm /\ adopted' = adopted
    BY <1>1 DEF JoinOk, sessionVars
  <2>4. down'[q] = down[q] \/ (q = p /\ down'[q] = <<>>)
    BY <1>1 DEF JoinOk, TypeOK
  <2>5. Greeting(q)'
    BY <1>0, <1>a, <2>1, <2>2, <2>3 DEF Greeting, Still
  <2>6. AnchorComes(q) => AnchorComes(q)'
    <3>1. CASE q = p
      BY <2>1, <3>1 DEF AnchorComes
    <3>2. CASE q # p
      BY <2>1, <2>2, <2>4, <3>2 DEF AnchorComes
    <3> QED
      BY <3>1, <3>2
  <2> QED
    BY <1>0, <1>a, <2>3, <2>4, <2>5, <2>6, EmptyRange DEF Following
<1>2. CASE Seed(p)
  <2>1. pump'[p] = At("idle") /\ pump'[p].phase = "idle"
    BY <1>2, PhaseOfAt DEF Seed, TypeOK, Phase
  <2>2. pump[p].phase = "seed" /\ \A r \in Peer \ {p} : pump'[r] = pump[r]
    BY <1>2 DEF Seed, TypeOK
  <2>3. up' = up /\ bpm' = bpm /\ adopted' = adopted
    BY <1>2 DEF Seed, sessionVars
  <2>4. Greeting(q)'
    BY <1>0, <1>a, <2>1, <2>2, <2>3 DEF Greeting, Still
  <2>5. down'[q] = down[q] \/ (room # 0 /\ down'[q] = Append(down[q], Anchor(room)))
    BY <1>2 DEF Seed, TypeOK
  <2>6. room # 0 => Range(Append(down[q], Anchor(room))) = Range(down[q]) \cup {Anchor(room)}
    BY <1>c, AppendRange, MessageTypes DEF TypeOK
  <2>7. room # 0 /\ AnchorComes(q) => AnchorComes(q)'
    <3> SUFFICES ASSUME room # 0, AnchorComes(q) PROVE AnchorComes(q)'
      OBVIOUS
    <3>1. CASE q = p
      <4>1. down'[q] = Append(down[q], Anchor(room))
        BY <1>2, <3>1 DEF Seed, TypeOK
      <4>2. Anchor(room) \in Range(down'[q]) /\ Anchor(room).type = "Anchor"
        BY <2>6, <4>1 DEF Anchor
      <4> QED
        BY <4>2 DEF AnchorComes
    <3>2. CASE q # p
      <4>1. down'[q] = down[q]
        BY <1>2, <3>2 DEF Seed, TypeOK
      <4> QED
        BY <2>1, <2>2, <3>2, <4>1 DEF AnchorComes
    <3> QED
      BY <3>1, <3>2
  <2>8. Following(q) => \A m \in Range(down'[q]) : m.type = "Config" \/ m = Anchor(room)
    BY <2>5, <2>6 DEF Following
  <2> QED
    BY <1>0, <1>a, <2>3, <2>4, <2>7, <2>8 DEF Following
<1>3. CASE PeerJoined(p) \/ SetInterval(p)
  <2>1. UNCHANGED <<bpm, adopted, pump, down>> /\ Broadcast(p, <<IntervalConfig>>)
    BY <1>3 DEF PeerJoined, SetInterval, sessionVars
  <2>2. AnchorComes(q)' <=> AnchorComes(q)
    BY <2>1 DEF AnchorComes
  <2>3. Following(q) => Following(q)'
    BY <1>a, <2>1, <2>2 DEF Following
  <2>4. Greeting(q)'
    <3>1. up'[q] = up[q] \/ (q \in On /\ up'[q] = up[q] \o <<IntervalConfig>>)
      BY <2>1 DEF Broadcast, TypeOK
    <3>2. <<IntervalConfig>> \in Seq(Msg) /\ Range(<<IntervalConfig>>) = {IntervalConfig}
      BY MessageTypes, SingleRange
    <3>3. Range(up[q] \o <<IntervalConfig>>) \subseteq Range(up[q]) \cup {IntervalConfig}
      BY <1>c, <3>2, ConcatRange
    <3>4. IntervalConfig.type = "Config"
      BY DEF IntervalConfig
    <3>5. \A m \in Range(up'[q]) : m \in Range(up[q]) \/ m = IntervalConfig
      BY <3>1, <3>3
    <3> QED
      BY <1>0, <1>a, <2>1, <3>1, <3>4, <3>5 DEF Greeting, Still
  <2> QED
    BY <1>0, <2>3, <2>4
<1>4. CASE Read(p)
  <2>1. UNCHANGED <<bpm, adopted, down>> /\ p \in On /\ pump[p].phase = "idle" /\ up[p] # <<>>
    BY <1>4 DEF Read, sessionVars
  <2>2. /\ pump'[p] = [phase |-> "forward", msg |-> Head(up[p]), to |-> On \ {p}]
        /\ up'[p] = Tail(up[p])
        /\ \A r \in Peer \ {p} : pump'[r] = pump[r] /\ up'[r] = up[r]
    BY <1>4 DEF Read, TypeOK
  <2>3. Head(up[p]) \in Range(up[p]) /\ Range(Tail(up[p])) \subseteq Range(up[p])
    BY <1>c, <2>1, TailRange
  <2>4. Greeting(q)'
    BY <1>0, <1>a, <2>1, <2>2, <2>3 DEF Greeting, Still
  <2>5. AnchorComes(q) => AnchorComes(q)'
    BY <2>1, <2>2, AnchorStillComes
  <2> QED
    BY <1>0, <1>a, <2>1, <2>4, <2>5 DEF Following
<1>5. CASE \E r \in Peer : Send(p, r)
  <2>1. PICK r \in Peer : Send(p, r)
    BY <1>5
  <2>2. /\ UNCHANGED <<bpm, adopted, up>>
        /\ r \in pump[p].to
        /\ pump'[p] = Sent(pump[p], r)
        /\ \A s \in Peer \ {p} : pump'[s] = pump[s]
        /\ down'[r] = Append(down[r], pump[p].msg)
        /\ q # r => down'[q] = down[q]
    BY <2>1 DEF Send, TypeOK, sessionVars
  <2>3. pump[p].phase \in {"forward", "anchor"} /\ pump[p].msg \in Msg
    BY <1>c, <2>2 DEF Targets
  <2>4. Range(down'[r]) = Range(down[r]) \cup {pump[p].msg}
    BY <1>c, <2>2, <2>3, AppendRange
  <2>5. Greeting(q)'
    BY <1>0, <1>a, <1>c, <2>2, <2>3, SentParts DEF Greeting, Still
  <2>6. pump[p].msg.type = "Config" \/ (pump[p].phase = "anchor" /\ pump[p].msg = Anchor(room))
    BY <1>0, <2>3 DEF Greeting
  <2>7. Following(q) => \A m \in Range(down'[q]) : m.type = "Config" \/ m = Anchor(room)
    <3>1. \A m \in Range(down'[q]) : m \in Range(down[q]) \/ m = pump[p].msg
      <4>1. CASE q = r
        BY <2>4, <4>1
      <4>2. CASE q # r
        BY <2>2, <4>2
      <4> QED
        BY <4>1, <4>2
    <3> QED
      BY <2>6, <3>1 DEF Following
  <2>8. AnchorComes(q) => AnchorComes(q)'
    <3> SUFFICES ASSUME AnchorComes(q) PROVE AnchorComes(q)'
      OBVIOUS
    <3>1. \A m \in Range(down[q]) : m \in Range(down'[q])
      BY <2>2, <2>4
    <3>2. pump[p].phase = "forward" \/ AnchorComes(q)' \/ ~(q \in pump[p].to)
      <4> SUFFICES ASSUME pump[p].phase = "anchor", q \in pump[p].to PROVE AnchorComes(q)'
        BY <2>3
      <4>1. pump[p].msg.type = "Anchor"
        BY <1>0 DEF Greeting, Anchor
      <4>2. CASE q = r
        BY <2>4, <4>1, <4>2 DEF AnchorComes
      <4>3. CASE q # r
        <5>1. pump[p].to # {r}
          BY <4>3
        <5>2. Sent(pump[p], r) = [pump[p] EXCEPT !.to = @ \ {r}]
          BY <5>1 DEF Sent
        <5>3. q \in Sent(pump[p], r).to /\ Sent(pump[p], r).phase = "anchor"
          BY <1>c, <4>3, <5>2
        <5> QED
          BY <2>2, <5>3 DEF AnchorComes
      <4> QED
        BY <4>2, <4>3
    <3> QED
      BY <2>2, <2>3, <3>1, <3>2 DEF AnchorComes
  <2> QED
    BY <1>0, <1>a, <2>2, <2>5, <2>7, <2>8 DEF Following
<1>6. CASE Announce(p)
  <2>1. UNCHANGED <<bpm, adopted, up, down>> /\ pump[p].phase = "observed"
    BY <1>6 DEF Announce, sessionVars
  <2>2. /\ pump'[p] = [pump[p] EXCEPT !.phase = "anchor", !.to = On]
        /\ \A r \in Peer \ {p} : pump'[r] = pump[r]
    BY <1>6 DEF Announce, TypeOK
  <2>3. pump'[p].phase = "anchor" /\ pump'[p].to = On /\ pump'[p].msg = pump[p].msg
    BY <1>c, <2>2
  <2>4. Greeting(q)'
    BY <1>0, <1>a, <2>1, <2>2, <2>3 DEF Greeting, Still
  <2>5. q \in On => AnchorComes(q)'
    BY <2>3 DEF AnchorComes
  <2> QED
    BY <1>0, <1>a, <2>1, <2>4, <2>5 DEF Following
<1>7. CASE Hears(p)
  <2>1. PICK m \in Range(down[p]) :
          /\ UNCHANGED <<up, pump>>
          /\ \A r \in Peer \ {p} : /\ bpm'[r] = bpm[r] /\ adopted'[r] = adopted[r]
                                   /\ down'[r] = down[r]
          /\ Range(down'[p]) \subseteq Range(down[p])
          /\ \A n \in Range(down[p]) : n = m \/ n \in Range(down'[p])
          /\ m.type = "Config" => bpm'[p] = bpm[p] /\ adopted'[p] = adopted[p]
          /\ m.type = "Anchor" => bpm'[p] = IF adopted[p] THEN bpm[p] ELSE m.bpm
          /\ m \in Msg
    BY <1>7, HearsStep
  <2>2. Greeting(q)'
    BY <1>0, <1>a, <2>1 DEF Greeting, Still
  <2>3. CASE q # p
    <3>1. AnchorComes(q) => AnchorComes(q)'
      BY <2>1, <2>3, AnchorStillComes
    <3> QED
      BY <1>0, <1>a, <2>1, <2>2, <2>3, <3>1 DEF Following
  <2>4. CASE q = p /\ q \in On /\ m.type = "Config"
    <3>1. AnchorComes(q) => AnchorComes(q)'
      BY <2>1, <2>4, AnchorStillComes
    <3> QED
      BY <1>0, <1>a, <2>1, <2>2, <2>4, <3>1 DEF Following
  <2>5. CASE q = p /\ q \in On /\ m.type # "Config"
    <3>1. m = Anchor(room)
      BY <1>0, <2>5 DEF Following
    <3>2. room # 0 /\ m.bpm = room /\ m.type = "Anchor"
      BY <2>1, <3>1, TempoAssumption DEF Anchor, Msg
    <3>3. bpm'[q] = room
      BY <1>0, <2>1, <2>5, <3>2 DEF Following
    <3> QED
      BY <1>0, <1>a, <2>1, <2>2, <2>5, <3>2, <3>3 DEF Following
  <2> QED
    BY <2>2, <2>3, <2>4, <2>5
<1> QED
  BY <1>1, <1>2, <1>3, <1>4, <1>5, <1>6, <1>7

\* The relay may take the default tempo from a shape, and announces it then.
LEMMA GreetsObserves ==
  ASSUME TypeOK, Targets, Greets, NEW p \in Peer, Observe(p)
  PROVE  Greets'
<1>0. \A q \in Peer : Greeting(q) /\ (q \in On => Following(q))
  BY DEF Greets
<1>1. pump[p].phase = "forward" /\ pump[p].msg.type = "Config" /\ pump[p].msg \in Msg
  BY <1>0 DEF Observe, Greeting, TypeOK
<1>2. Observed(pump[p].msg) = IF room = 0 THEN DefaultBpm ELSE room
  BY <1>1 DEF Observed, Msg
<1>3. /\ room' = IF room = 0 THEN DefaultBpm ELSE room
      /\ room' # 0
      /\ On' = On
      /\ UNCHANGED <<bpm, adopted, up, down>>
      /\ \A r \in Peer \ {p} : pump'[r] = pump[r]
  BY <1>2, TempoAssumption DEF Observe, On, TypeOK, sessionVars
<1>4. PICK reshaped \in BOOLEAN :
        pump' = [pump EXCEPT ![p] = IF room' = room /\ ~reshaped
                                    THEN At("idle")
                                    ELSE [At("observed") EXCEPT !.msg = Anchor(room')]]
  BY DEF Observe
<1>5. \/ room' = room /\ pump'[p].phase = "idle"
      \/ pump'[p].phase = "observed" /\ pump'[p].msg = Anchor(room')
  <2>1. \/ room' = room /\ pump'[p] = At("idle")
        \/ pump'[p] = [At("observed") EXCEPT !.msg = Anchor(room')]
    BY <1>4 DEF TypeOK
  <2>2. /\ At("idle").phase = "idle"
        /\ [At("observed") EXCEPT !.msg = Anchor(room')].phase = "observed"
        /\ [At("observed") EXCEPT !.msg = Anchor(room')].msg = Anchor(room')
    BY DEF At
  <2> QED
    BY <2>1, <2>2
<1>6. room = 0 => /\ \A r \in Peer : pump[r].phase \notin {"observed", "anchor"}
                  /\ \A r \in On : \A m \in Range(down[r]) : m.type = "Config"
  <2>1. room = 0 => Anchor(room) \notin Msg
    BY TempoAssumption DEF Anchor, Msg
  <2>2. \A r \in Peer : pump[r].msg \in Msg /\ Range(down[r]) \subseteq Msg
    BY DEF TypeOK, Range
  <2> QED
    BY <1>0, <2>1, <2>2, OnIsPeers DEF Greeting, Following
<1> SUFFICES ASSUME NEW q \in Peer
             PROVE  Greeting(q)' /\ (q \in On => Following(q)')
  BY <1>3, OnIsPeers DEF Greets
<1>7. Greeting(q)'
  <2>1. CASE q = p
    BY <1>0, <1>1, <1>3, <1>5, <2>1 DEF Greeting, Still
  <2>2. CASE q # p
    BY <1>0, <1>3, <1>6, <2>2 DEF Greeting, Still
  <2> QED
    BY <2>1, <2>2
<1>8. ASSUME q \in On PROVE Following(q)'
  <2>1. CASE room' = room
    <3>1. AnchorComes(q) => AnchorComes(q)'
      BY <1>1, <1>3, AnchorStillComes
    <3> QED
      BY <1>0, <1>3, <1>8, <2>1, <3>1 DEF Following
  <2>2. CASE room' # room
    <3>1. room = 0 /\ pump'[p].phase = "observed"
      BY <1>3, <1>5, <2>2
    <3>2. ~adopted'[q] /\ \A m \in Range(down'[q]) : m.type = "Config"
      BY <1>0, <1>3, <1>6, <1>8, <3>1 DEF Following
    <3>3. AnchorComes(q)'
      BY <3>1 DEF AnchorComes
    <3> QED
      BY <1>3, <3>2, <3>3 DEF Following
  <2> QED
    BY <2>1, <2>2
<1> QED
  BY <1>7, <1>8

\* A member that leaves takes its own queues along; with the last one the
\* relay forgets the tempo.
LEMMA GreetsDrops ==
  ASSUME TypeOK, Targets, Greets, NEW p \in Peer, Drop(p)
  PROVE  Greets'
<1>0. \A q \in Peer : Greeting(q) /\ (q \in On => Following(q))
  BY DEF Greets
<1>1. /\ p \in On /\ pump[p].phase = "idle"
      /\ On' = On \ {p}
      /\ UNCHANGED <<bpm, adopted>>
      /\ up'[p] = <<>>
      /\ \A q \in Peer \ {p} : up'[q] = up[q] /\ down'[q] = down[q]
      /\ \A q \in Peer : pump'[q] = Sent(pump[q], p)
      /\ room' = IF On = {p} THEN 0 ELSE room
  BY DEF Drop, TypeOK, On, sessionVars
<1>2. ASSUME NEW q \in Peer
      PROVE  /\ pump'[q].to = pump[q].to \ {p}
             /\ \/ pump'[q].phase = pump[q].phase /\ pump'[q].msg = pump[q].msg
                \/ /\ pump[q].phase = "anchor" /\ pump[q].to = {p}
                   /\ pump'[q].phase = "idle"
  <2>1. pump[q] \in [phase : Phase, msg : Msg, to : SUBSET Peer]
    BY DEF TypeOK
  <2> QED
    BY <1>1, <2>1, SentParts
<1>3. On = {p} => \A q \in Peer : pump'[q].phase = "idle"
  <2> SUFFICES ASSUME On = {p}, NEW q \in Peer PROVE pump'[q].phase = "idle"
    OBVIOUS
  <2>1. pump[q].phase = "idle"
    BY <1>0, <1>1 DEF Greeting, Still
  <2> QED
    BY <1>2, <2>1
<1>4. ASSUME NEW q \in Peer PROVE Greeting(q)'
  <2>1. CASE q = p
    BY <1>1, <1>2, <2>1, EmptyRange DEF Greeting, Still
  <2>2. CASE q # p
    BY <1>0, <1>1, <1>2, <1>3, <2>2 DEF Greeting, Still
  <2> QED
    BY <2>1, <2>2
<1>5. ASSUME NEW q \in On \ {p} PROVE Following(q)'
  <2>1. q \in Peer /\ room' = room
    BY <1>1, OnIsPeers
  <2>2. AnchorComes(q) => AnchorComes(q)'
    <3> SUFFICES ASSUME AnchorComes(q) PROVE AnchorComes(q)'
      OBVIOUS
    <3>1. CASE pump[q].phase \in {"joinok", "seed"}
      BY <1>2, <2>1, <3>1 DEF AnchorComes
    <3>2. CASE \E m \in Range(down[q]) : m.type = "Anchor"
      BY <1>1, <2>1, <3>2 DEF AnchorComes
    <3>3. CASE \E r \in Peer : \/ pump[r].phase = "observed"
                               \/ pump[r].phase = "anchor" /\ q \in pump[r].to
      <4>1. PICK r \in Peer : \/ pump[r].phase = "observed"
                              \/ pump[r].phase = "anchor" /\ q \in pump[r].to
        BY <3>3
      <4>2. pump'[r].phase = pump[r].phase
        BY <1>2, <4>1
      <4>3. q \in pump[r].to => q \in pump'[r].to
        BY <1>2
      <4> QED
        BY <4>1, <4>2, <4>3 DEF AnchorComes
    <3> QED
      BY <3>1, <3>2, <3>3 DEF AnchorComes
  <2> QED
    BY <1>0, <1>1, <2>1, <2>2 DEF Following
<1> QED
  BY <1>1, <1>4, <1>5 DEF Greets

\* A joiner has its anchor coming with the end of its join.
LEMMA GreetsJoins ==
  ASSUME TypeOK, Targets, Greets, NEW p \in Peer, Join(p)
  PROVE  Greets'
<1>0. \A q \in Peer : Greeting(q) /\ (q \in On => Following(q))
  BY DEF Greets
<1>1. /\ p \notin On
      /\ On' = On \cup {p}
      /\ UNCHANGED <<bpm, up, room>>
      /\ adopted'[p] = FALSE
      /\ down'[p] = <<>>
      /\ pump'[p] = At("joinok")
      /\ \A q \in Peer \ {p} : adopted'[q] = adopted[q] /\ down'[q] = down[q]
                               /\ pump'[q] = pump[q]
  BY DEF Join, TypeOK, On
<1>2. pump'[p].phase = "joinok" /\ pump[p].phase = "idle" /\ up[p] = <<>>
  BY <1>0, <1>1, PhaseOfAt DEF Phase, Greeting, Still
<1>3. ASSUME NEW q \in Peer PROVE Greeting(q)'
  BY <1>0, <1>1, <1>2 DEF Greeting, Still
<1>4. Following(p)'
  <2>1. AnchorComes(p)'
    BY <1>2 DEF AnchorComes
  <2> QED
    BY <1>1, <2>1, EmptyRange DEF Following
<1>5. ASSUME NEW q \in On PROVE Following(q)'
  <2>1. q \in Peer /\ q # p
    BY <1>1, OnIsPeers
  <2>2. AnchorComes(q) => AnchorComes(q)'
    BY <1>1, <1>2, <2>1, AnchorStillComes
  <2> QED
    BY <1>0, <1>1, <2>1, <2>2 DEF Following
<1> QED
  BY <1>1, <1>3, <1>4, <1>5 DEF Greets

\* What a musician's change of tempo starts in a quiet room.
LEMMA GreetsActs ==
  ASSUME TypeOK, Greets, Quiet, NEW p \in Peer, NEW b \in Bpm, NEW now \in Clock,
         ChangeBpm(p, b, now) \/ TempoChanged(p, b, now)
  PROVE  IF p \in On THEN Spreads(p, b)' ELSE Greets'
<1>0. \A q \in Peer : Greeting(q) /\ (q \in On => Following(q))
  BY DEF Greets
<1> DEFINE s == NextStamp(p, now)
           pair == <<Declare(b, s), Change(p, b)>>
<1>1. /\ UNCHANGED <<adopted, notice, pump, down, room>>
      /\ On' = On
      /\ bpm' = [bpm EXCEPT ![p] = b]
      /\ DeclareTempo(p, b, now, <<>>)
  BY DEF ChangeBpm, TempoChanged, On
<1>2. s \in Stamp /\ Broadcast(p, pair \o <<>>) /\ pair \in Seq(Msg)
  <2>1. <<>> \in Seq(Msg)
    OBVIOUS
  <2>2. NextStamp(p, now) \in Stamp
        /\ Broadcast(p, <<Declare(b, NextStamp(p, now)), Change(p, b)>> \o <<>>)
    BY <1>1, <2>1, DeclareTempoStep
  <2>3. Declare(b, s) \in Msg /\ Change(p, b) \in Msg
    BY <2>2, MessageTypes
  <2> QED
    BY <2>2, <2>3
<1>3. pair \o <<>> = pair /\ <<>> \o pair = pair
  <2> HIDE DEF pair
  <2> QED
    BY <1>2
<1>4. CASE p \notin On
  <2>1. up' = up
    BY <1>2, <1>4 DEF Broadcast
  <2>2. \A q \in Peer : Greeting(q)'
    BY <1>0, <1>1, <2>1 DEF Greeting, Still
  <2>3. \A q \in On : bpm'[q] = bpm[q]
    BY <1>1, <1>4, OnIsPeers DEF TypeOK
  <2>4. \A q \in On : AnchorComes(q)' <=> AnchorComes(q)
    BY <1>1 DEF AnchorComes
  <2>5. \A q \in On : Following(q)'
    BY <1>0, <1>1, <2>3, <2>4, OnIsPeers DEF Following
  <2> QED
    BY <1>1, <1>4, <2>2, <2>5 DEF Greets
<1>5. CASE p \in On
  <2>1. \A q \in Peer : Still(q)
    BY <1>0 DEF Quiet, Greeting, Still
  <2>2. up' = [up EXCEPT ![p] = pair]
    <3>1. up[p] = <<>>
      BY <2>1 DEF Still
    <3>2. up' = [up EXCEPT ![p] = up[p] \o (pair \o <<>>)]
      BY <1>2, <1>5 DEF Broadcast
    <3> HIDE DEF pair
    <3> QED
      BY <1>3, <3>1, <3>2
  <2>3. up'[p] = pair /\ \A q \in Peer \ {p} : up'[q] = up[q]
    BY <2>2 DEF TypeOK
  <2>4. Declared(p, b)'
    <3>1. pump'[p].phase = "idle"
      BY <1>1, <2>1 DEF Still
    <3> QED
      BY <1>2, <2>3, <3>1 DEF Declared
  <2>5. \A q \in Peer \ {p} : Still(q)'
    BY <1>1, <2>1, <2>3 DEF Still
  <2>6. \A q \in On : notice'[q] = 0 /\ Carries(q, b)'
    BY <1>1, EmptyRange DEF Quiet, Carries
  <2>7. bpm'[p] = b
    BY <1>1 DEF TypeOK
  <2>8. up'[p] # <<>>
    BY <2>3
  <2>9. Spreads(p, b)'
    BY <1>1, <1>5, <2>4, <2>5, <2>6, <2>7, <2>8 DEF Spreads, Stage, CopyComes
  <2> QED
    BY <1>5, <2>9
<1> QED
  BY <1>4, <1>5

\* In a quiet room no declaration is under way.
LEMMA QuietGreets ==
  ASSUME TypeOK, Quiet, Agreement
  PROVE  Greets
<1>1. ASSUME NEW b \in Bpm, NEW p \in Peer, Spreads(p, b)
      PROVE  FALSE
  <2>1. up[p] = <<>> /\ pump[p].phase = "idle"
    BY <1>1 DEF Spreads, Quiet
  <2>2. \A s \in Stamp : <<>> # <<Declare(b, s), Change(p, b)>>
    OBVIOUS
  <2>3. <<>> # <<Change(p, b)>>
    OBVIOUS
  <2> QED
    BY <1>1, <2>1, <2>2, <2>3
       DEF Spreads, Stage, Declared, ForwardsIt, CopyIsNext, ForwardsCopy, Anchors
<1>2. ASSUME NEW b \in Bpm, Delivers(b)
      PROVE  Greets
  <2>1. \A p \in Peer : Greeting(p)
    BY <1>2, EmptyRange DEF Delivers, Greeting, Still
  <2>2. \A q \in On : down[q] = <<>> /\ bpm[q] = b
    BY <1>2, EmptyRange DEF Delivers, Converges, Quiet
  <2>3. room # 0 /\ room = b
    BY <1>2, TempoAssumption DEF Delivers
  <2> QED
    BY <2>1, <2>2, <2>3, EmptyRange DEF Greets, Following
<1> QED
  BY <1>1, <1>2 DEF Agreement

\* What is delivered to q of a declaration keeps q on its way to the tempo.
LEMMA HearsConverges ==
  ASSUME TypeOK, NEW p \in Peer, Hears(p), NEW b \in Bpm, Carries(p, b)
  PROVE  /\ Carries(p, b)'
         /\ bpm[p] = b => bpm'[p] = b
         /\ Converges(p, b) => Converges(p, b)'
<1>1. PICK m \in Range(down[p]) :
        /\ Range(down'[p]) \subseteq Range(down[p])
        /\ \A n \in Range(down[p]) : n = m \/ n \in Range(down'[p])
        /\ bpm'[p] = bpm[p] \/ bpm'[p] = m.bpm
        /\ m.type = "Change" => bpm'[p] = m.bpm
  BY HearsStep
<1>2. m.bpm = b
  BY DEF Carries
<1> QED
  BY <1>1, <1>2 DEF Carries, Converges

\* The members handle what the relay sent, and may leave meanwhile.
LEMMA DeliversGoesOn ==
  ASSUME TypeOK, Targets, NEW b \in Bpm, Delivers(b), NEW p \in Peer,
         \/ JoinOk(p) \/ Seed(p) \/ Drop(p) \/ PeerJoined(p)
         \/ Read(p) \/ (\E q \in Peer : Send(p, q)) \/ Observe(p) \/ Announce(p) \/ Hears(p)
  PROVE  Told(b)'
<1>0. /\ \A q \in Peer : up[q] = <<>> /\ pump[q].phase = "idle" /\ pump[q].to = {}
      /\ room = b
      /\ \A q \in On : notice[q] = 0 /\ Carries(q, b) /\ Converges(q, b)
  BY DEF Delivers, Still, Targets
<1>1. Drop(p) \/ PeerJoined(p) \/ Hears(p)
  BY <1>0 DEF JoinOk, Seed, Read, Send, Observe, Announce
<1>2. CASE Drop(p)
  <2>1. /\ On' = On \ {p}
        /\ bpm' = bpm
        /\ up' = [up EXCEPT ![p] = <<>>]
        /\ \A q \in Peer \ {p} : down'[q] = down[q] /\ notice'[q] = notice[q]
        /\ \A q \in Peer : pump'[q] = Sent(pump[q], p)
        /\ room' = IF On = {p} THEN 0 ELSE room
    BY <1>2 DEF Drop, TypeOK, On, sessionVars
  <2>2. \A q \in Peer : Still(q)'
    <3> TAKE q \in Peer
    <3>1. pump[q] \in [phase : Phase, msg : Msg, to : SUBSET Peer]
      BY DEF TypeOK
    <3>2. pump'[q].phase = "idle"
      BY <1>0, <2>1, <3>1, SentParts
    <3> QED
      BY <1>0, <2>1, <3>2 DEF Still, TypeOK
  <2>3. CASE On = {p}
    <3>1. On' = {} /\ \A q \in Peer : Greeting(q)'
      BY <2>1, <2>2, <2>3, EmptyRange DEF Greeting, Still
    <3> QED
      BY <3>1 DEF Told, Greets
  <2>4. CASE On # {p}
    <3>1. room' = b
      BY <1>0, <2>1, <2>4
    <3>2. \A q \in On \ {p} : notice'[q] = 0 /\ Carries(q, b)' /\ Converges(q, b)'
      BY <1>0, <2>1, OnIsPeers DEF Carries, Converges
    <3> QED
      BY <2>1, <2>2, <3>1, <3>2 DEF Told, Delivers
  <2> QED
    BY <2>3, <2>4
<1>3. CASE PeerJoined(p)
  <2>1. p \notin On
    BY <1>0, <1>3 DEF PeerJoined
  <2>2. /\ UNCHANGED <<bpm, up, pump, down, room>> /\ On' = On
        /\ \A q \in On : notice'[q] = notice[q]
    BY <1>3, <2>1, OnIsPeers DEF PeerJoined, Broadcast, TypeOK, On, sessionVars
  <2>3. Delivers(b)'
    BY <1>0, <2>2 DEF Delivers, Still, Carries, Converges
  <2> QED
    BY <2>3 DEF Told
<1>4. CASE Hears(p)
  <2>1. /\ UNCHANGED <<conn, notice, up, pump, room>>
        /\ \A q \in Peer \ {p} : bpm'[q] = bpm[q] /\ down'[q] = down[q]
    BY <1>4, HearsStep
  <2>2. On' = On
    BY <2>1 DEF On
  <2>3. \A q \in On : Carries(q, b)' /\ Converges(q, b)'
    <3> TAKE q \in On
    <3>1. CASE q = p
      BY <1>0, <1>4, <3>1, HearsConverges
    <3>2. CASE q # p
      BY <1>0, <2>1, <3>2, OnIsPeers DEF Carries, Converges
    <3> QED
      BY <3>1, <3>2
  <2>4. Delivers(b)'
    BY <1>0, <2>1, <2>2, <2>3 DEF Delivers, Still
  <2> QED
    BY <2>4 DEF Told
<1> QED
  BY <1>1, <1>2, <1>3, <1>4

\* What the readPump of the declaring session does with the declaration.
LEMMA SpreadsRelays ==
  ASSUME TypeOK, Targets, NEW b \in Bpm, NEW p \in Peer, Spreads(p, b),
         Read(p) \/ Observe(p) \/ Announce(p)
  PROVE  Told(b)'
<1>0. /\ p \in On
      /\ \A q \in Peer \ {p} : up[q] = <<>> /\ pump[q].phase = "idle"
      /\ \A q \in On : notice[q] = 0 /\ Carries(q, b)
      /\ bpm[p] = b
      /\ Stage(p, b)
      /\ \A q \in On \ {p} : Converges(q, b) \/ CopyComes(p, q)
  BY DEF Spreads, Still
<1>1. /\ UNCHANGED <<bpm, adopted, notice, down>>
      /\ On' = On
      /\ \A q \in Peer \ {p} : up'[q] = up[q] /\ pump'[q] = pump[q]
  BY DEF Read, Observe, Announce, TypeOK, On, sessionVars
<1>2. /\ \A q \in Peer \ {p} : Still(q)'
      /\ \A q \in On : notice'[q] = 0 /\ Carries(q, b)' /\ (Converges(q, b)' <=> Converges(q, b))
      /\ bpm'[p] = b
  BY <1>0, <1>1 DEF Still, Carries, Converges
<1>3. ASSUME Stage(p, b)', \A q \in On \ {p} : Converges(q, b) \/ CopyComes(p, q)'
      PROVE  Told(b)'
  BY <1>0, <1>1, <1>2, <1>3 DEF Told, Spreads
<1>4. CASE Read(p)
  <2>1. /\ pump[p].phase = "idle" /\ up[p] # <<>> /\ room' = room
        /\ pump'[p] = [phase |-> "forward", msg |-> Head(up[p]), to |-> On \ {p}]
        /\ up'[p] = Tail(up[p])
    BY <1>4 DEF Read, TypeOK
  <2>2. Declared(p, b) \/ CopyIsNext(p, b)
    BY <1>0, <2>1 DEF Stage, ForwardsIt, ForwardsCopy, Anchors
  <2>3. CASE Declared(p, b)
    <3>1. PICK s \in Stamp : up[p] = <<Declare(b, s), Change(p, b)>>
      BY <2>3 DEF Declared
    <3>2. Head(up[p]) = Declare(b, s) /\ Tail(up[p]) = <<Change(p, b)>>
      BY <3>1
    <3>3. ForwardsIt(p, b)'
      BY <2>1, <3>2 DEF ForwardsIt, Declare
    <3>4. up'[p] # <<>>
      BY <2>1, <3>2
    <3> QED
      BY <1>3, <3>3, <3>4 DEF Stage, CopyComes
  <2>4. CASE CopyIsNext(p, b)
    <3>1. Head(up[p]) = Change(p, b) /\ Tail(up[p]) = <<>> /\ room = b
      BY <2>4 DEF CopyIsNext
    <3>2. ForwardsCopy(p, b)'
      BY <2>1, <3>1 DEF ForwardsCopy
    <3>3. \A q \in On \ {p} : CopyComes(p, q)'
      BY <2>1 DEF CopyComes
    <3> QED
      BY <1>3, <3>2, <3>3 DEF Stage
  <2> QED
    BY <2>2, <2>3, <2>4
<1>5. CASE Observe(p)
  <2>1. pump[p].phase = "forward" /\ pump[p].to = {} /\ up' = up
    BY <1>5 DEF Observe
  <2>2. ForwardsIt(p, b) \/ ForwardsCopy(p, b)
    BY <1>0, <2>1 DEF Stage, Declared, CopyIsNext, Anchors
  <2>3. pump[p].msg.bpm = b
    BY <2>2 DEF ForwardsIt, ForwardsCopy, Change
  <2>4. Observed(pump[p].msg) = b
    BY <2>3, TempoAssumption DEF Observed
  <2>5. room' = b /\ \/ pump'[p] = At("idle")
                     \/ pump'[p] = [At("observed") EXCEPT !.msg = Anchor(b)]
    BY <1>5, <2>4 DEF Observe, TypeOK
  <2>6. \/ pump'[p].phase = "idle"
        \/ pump'[p].phase = "observed" /\ pump'[p].msg = Anchor(b)
    BY <2>5 DEF At
  <2>7. CASE ForwardsIt(p, b)
    <3>1. up'[p] = <<Change(p, b)>> /\ up'[p] # <<>>
      BY <2>1, <2>7 DEF ForwardsIt
    <3>2. CopyIsNext(p, b)' \/ Anchors(p, b)'
      BY <2>5, <2>6, <3>1 DEF CopyIsNext, Anchors
    <3> QED
      BY <1>3, <3>1, <3>2 DEF Stage, CopyComes
  <2>8. CASE ForwardsCopy(p, b)
    <3>1. up'[p] = <<>> /\ up[p] = <<>>
      BY <2>1, <2>8 DEF ForwardsCopy
    <3>2. \A q \in On \ {p} : Converges(q, b)
      BY <1>0, <2>1, <3>1 DEF CopyComes
    <3>3. CASE pump'[p].phase = "idle"
      <4>1. \A q \in Peer : Still(q)'
        BY <1>2, <3>1, <3>3 DEF Still
      <4>2. \A q \in On : Converges(q, b)
        BY <1>0, <3>2 DEF Converges
      <4>3. Delivers(b)'
        BY <1>1, <1>2, <2>5, <4>1, <4>2 DEF Delivers
      <4> QED
        BY <4>3 DEF Told
    <3>4. CASE pump'[p].phase = "observed" /\ pump'[p].msg = Anchor(b)
      <4>1. Anchors(p, b)'
        BY <2>5, <3>1, <3>4 DEF Anchors
      <4> QED
        BY <1>3, <3>2, <4>1 DEF Stage
    <3> QED
      BY <2>6, <3>3, <3>4
  <2> QED
    BY <2>2, <2>7, <2>8
<1>6. CASE Announce(p)
  <2>1. pump[p].phase = "observed" /\ up' = up /\ room' = room
    BY <1>6 DEF Announce
  <2>2. Anchors(p, b)
    BY <1>0, <2>1 DEF Stage, Declared, ForwardsIt, CopyIsNext, ForwardsCopy
  <2>3. pump'[p].phase = "anchor" /\ pump'[p].msg = pump[p].msg
    <3>1. pump[p] \in [phase : Phase, msg : Msg, to : SUBSET Peer]
      BY DEF TypeOK
    <3>2. pump'[p] = [pump[p] EXCEPT !.phase = "anchor", !.to = On]
      BY <1>6 DEF Announce, TypeOK
    <3> QED
      BY <3>1, <3>2
  <2>4. Anchors(p, b)'
    BY <2>1, <2>2, <2>3 DEF Anchors
  <2>5. \A q \in On \ {p} : CopyComes(p, q) => CopyComes(p, q)'
    BY <2>1 DEF CopyComes
  <2> QED
    BY <1>0, <1>3, <2>4, <2>5 DEF Stage
<1> QED
  BY <1>4, <1>5, <1>6

\* The relay's readPump sends what it has to one more member.
LEMMA SpreadsSends ==
  ASSUME TypeOK, Targets, NEW b \in Bpm, NEW p \in Peer, Spreads(p, b),
         NEW r \in Peer, Send(p, r)
  PROVE  Told(b)'
<1>0. /\ p \in On
      /\ \A q \in Peer \ {p} : up[q] = <<>> /\ pump[q].phase = "idle"
      /\ \A q \in On : notice[q] = 0 /\ Carries(q, b)
      /\ bpm[p] = b
      /\ Stage(p, b)
      /\ \A q \in On \ {p} : Converges(q, b) \/ CopyComes(p, q)
  BY DEF Spreads, Still
<1>1. /\ UNCHANGED <<bpm, notice, up, room>>
      /\ On' = On
      /\ r \in pump[p].to
      /\ \A q \in Peer \ {p} : pump'[q] = pump[q]
      /\ pump'[p] = Sent(pump[p], r)
      /\ down'[r] = Append(down[r], pump[p].msg)
      /\ \A q \in Peer \ {r} : down'[q] = down[q]
  BY DEF Send, TypeOK, On, sessionVars
<1>2. /\ pump[p] \in [phase : Phase, msg : Msg, to : SUBSET Peer]
      /\ down[r] \in Seq(Msg) /\ pump[p].msg \in Msg
  BY PumpTypes DEF TypeOK
<1>3. Range(down'[r]) = Range(down[r]) \cup {pump[p].msg}
  BY <1>1, <1>2, AppendRange
<1>4. pump[p].phase \in {"forward", "anchor"}
  BY <1>1 DEF Targets
<1>5. ForwardsIt(p, b) \/ ForwardsCopy(p, b) \/ Anchors(p, b)
  BY <1>0, <1>4 DEF Stage, Declared, CopyIsNext
<1>6. pump[p].msg.bpm = b
  BY <1>5 DEF ForwardsIt, ForwardsCopy, Anchors, Change, Anchor
<1>7. \A q \in On : Carries(q, b)' /\ (Converges(q, b) => Converges(q, b)')
  <2> TAKE q \in On
  <2>1. CASE q = r
    BY <1>0, <1>1, <1>3, <1>6, <2>1 DEF Carries, Converges
  <2>2. CASE q # r
    BY <1>0, <1>1, <2>2, OnIsPeers DEF Carries, Converges
  <2> QED
    BY <2>1, <2>2
<1>8. \A q \in Peer \ {p} : Still(q)'
  BY <1>0, <1>1 DEF Still
<1>9. CASE pump[p].phase = "forward"
  <2>2. /\ pump'[p].phase = "forward" /\ pump'[p].msg = pump[p].msg
        /\ pump'[p].to = pump[p].to \ {r}
    BY <1>1, <1>2, <1>9, SentParts
  <2>3. ForwardsIt(p, b)' \/ ForwardsCopy(p, b)'
    BY <1>1, <1>5, <1>9, <2>2 DEF ForwardsIt, ForwardsCopy, Anchors
  <2>4. \A q \in On \ {p} : Converges(q, b)' \/ CopyComes(p, q)'
    <3> TAKE q \in On \ {p}
    <3>1. CASE up[p] # <<>>
      BY <1>1, <3>1 DEF CopyComes
    <3>2. CASE up[p] = <<>> /\ q = r
      <4>1. ForwardsCopy(p, b)
        <5>1. <<Change(p, b)>> # <<>>
          OBVIOUS
        <5> QED
          BY <1>5, <1>9, <3>2, <5>1 DEF ForwardsIt, Anchors
      <4>2. pump[p].msg.type = "Change"
        BY <4>1 DEF ForwardsCopy, Change
      <4> QED
        BY <1>3, <3>2, <4>2 DEF Converges
    <3>3. CASE up[p] = <<>> /\ q # r
      BY <1>0, <1>7, <2>2, <3>3 DEF CopyComes
    <3> QED
      BY <3>1, <3>2, <3>3
  <2>5. Spreads(p, b)'
    BY <1>0, <1>1, <1>7, <1>8, <2>3, <2>4 DEF Spreads, Stage
  <2> QED
    BY <2>5 DEF Told
<1>10. CASE pump[p].phase = "anchor"
  <2>1. Anchors(p, b)
    BY <1>5, <1>10 DEF ForwardsIt, ForwardsCopy
  <2>2. \/ pump'[p].phase = "anchor" /\ pump'[p].msg = pump[p].msg
        \/ pump'[p].phase = "idle"
    BY <1>1, <1>2, <1>10, SentParts
  <2>3. \A q \in On \ {p} : CopyComes(p, q) => CopyComes(p, q)'
    BY <1>1, <1>10 DEF CopyComes
  <2>4. \A q \in On \ {p} : Converges(q, b)' \/ CopyComes(p, q)'
    BY <1>0, <1>7, <2>3
  <2>5. CASE pump'[p].phase = "anchor" /\ pump'[p].msg = pump[p].msg
    <3>1. Anchors(p, b)'
      BY <1>1, <2>1, <2>5 DEF Anchors
    <3>2. Spreads(p, b)'
      BY <1>0, <1>1, <1>7, <1>8, <2>4, <3>1 DEF Spreads, Stage
    <3> QED
      BY <3>2 DEF Told
  <2>6. CASE pump'[p].phase = "idle" /\ up[p] # <<>>
    <3>1. CopyIsNext(p, b)'
      BY <1>1, <2>1, <2>6 DEF Anchors, CopyIsNext
    <3>2. Spreads(p, b)'
      BY <1>0, <1>1, <1>7, <1>8, <2>4, <3>1 DEF Spreads, Stage
    <3> QED
      BY <3>2 DEF Told
  <2>7. CASE pump'[p].phase = "idle" /\ up[p] = <<>>
    <3>1. \A q \in Peer : Still(q)'
      BY <1>1, <1>8, <2>7 DEF Still
    <3>2. \A q \in On : Converges(q, b)'
      <4>1. Converges(p, b)'
        BY <1>0, <1>1 DEF Converges
      <4>2. \A q \in On \ {p} : ~CopyComes(p, q)'
        BY <1>1, <2>7 DEF CopyComes
      <4> QED
        BY <2>4, <4>1, <4>2
    <3>3. room' = b
      BY <1>1, <2>1 DEF Anchors
    <3>4. Delivers(b)'
      BY <1>0, <1>1, <1>7, <3>1, <3>2, <3>3 DEF Delivers
    <3> QED
      BY <3>4 DEF Told
  <2> QED
    BY <2>2, <2>5, <2>6, <2>7
<1> QED
  BY <1>4, <1>9, <1>10

\* Meanwhile the members handle what they have, and others may leave.
LEMMA SpreadsGoesOn ==
  ASSUME TypeOK, Targets, ~Overlap, NEW b \in Bpm, NEW p \in Peer, Spreads(p, b), NEW r \in Peer,
         \/ JoinOk(r) \/ Seed(r) \/ Drop(r) \/ PeerJoined(r)
         \/ Read(r) \/ (\E q \in Peer : Send(r, q)) \/ Observe(r) \/ Announce(r) \/ Hears(r)
  PROVE  Told(b)'
<1>0. /\ p \in On
      /\ \A q \in Peer \ {p} : up[q] = <<>> /\ pump[q].phase = "idle"
      /\ \A q \in On : notice[q] = 0 /\ Carries(q, b)
      /\ bpm[p] = b
      /\ Stage(p, b)
      /\ \A q \in On \ {p} : Converges(q, b) \/ CopyComes(p, q)
  BY DEF Spreads, Still
<1>a. pump[p].phase \in {"idle", "forward", "observed", "anchor"}
  BY <1>0 DEF Stage, Declared, ForwardsIt, CopyIsNext, ForwardsCopy, Anchors
<1>b. pump[p].phase = "idle" => up[p] # <<>>
  <2>1. <<Change(p, b)>> # <<>> /\ \A s \in Stamp : <<Declare(b, s), Change(p, b)>> # <<>>
    OBVIOUS
  <2> QED
    BY <1>0, <2>1 DEF Stage, Declared, ForwardsIt, CopyIsNext, ForwardsCopy, Anchors
<1>1. CASE Read(r) \/ Observe(r) \/ Announce(r) \/ \E q \in Peer : Send(r, q)
  <2>1. r = p
    BY <1>0, <1>1 DEF Read, Observe, Announce, Send, Targets
  <2> QED
    BY <1>1, <2>1, SpreadsRelays, SpreadsSends
<1>2. ~JoinOk(r) /\ ~Seed(r)
  BY <1>0, <1>a DEF JoinOk, Seed
<1>3. CASE Drop(r)
  <2>1. r # p /\ r \in On
    BY <1>3, <1>b DEF Drop
  <2>2. /\ On' = On \ {r}
        /\ bpm' = bpm
        /\ room' = room
        /\ up' = [up EXCEPT ![r] = <<>>]
        /\ \A q \in Peer \ {r} : down'[q] = down[q] /\ notice'[q] = notice[q]
        /\ \A q \in Peer : pump'[q] = Sent(pump[q], r)
    BY <1>0, <1>3, <2>1 DEF Drop, TypeOK, On, sessionVars
  <2>3. up'[p] = up[p] /\ \A q \in Peer \ {p} : up'[q] = <<>>
    BY <1>0, <2>1, <2>2 DEF TypeOK
  <2>4. ASSUME NEW q \in Peer
        PROVE  /\ pump'[q].to = pump[q].to \ {r}
               /\ \/ pump'[q].phase = pump[q].phase /\ pump'[q].msg = pump[q].msg
                  \/ pump[q].phase = "anchor" /\ pump'[q].phase = "idle"
    <3>1. pump[q] \in [phase : Phase, msg : Msg, to : SUBSET Peer]
      BY DEF TypeOK
    <3> QED
      BY <2>2, <3>1, SentParts
  <2>5. \A q \in Peer \ {p} : Still(q)'
    BY <1>0, <2>3, <2>4 DEF Still
  <2>6. \A q \in On \ {r} : notice'[q] = 0 /\ Carries(q, b)' /\ (Converges(q, b) <=> Converges(q, b)')
    BY <1>0, <2>2, OnIsPeers DEF Carries, Converges
  <2>7. p \in On' /\ bpm'[p] = b
    BY <1>0, <2>1, <2>2
  <2>8. CASE pump'[p].phase = pump[p].phase /\ pump'[p].msg = pump[p].msg
    <3>1. Stage(p, b)'
      BY <1>0, <2>2, <2>3, <2>8
         DEF Stage, Declared, ForwardsIt, CopyIsNext, ForwardsCopy, Anchors
    <3>2. \A q \in On' \ {p} : CopyComes(p, q) => CopyComes(p, q)'
      BY <2>2, <2>3, <2>4, <2>8 DEF CopyComes
    <3>3. Spreads(p, b)'
      BY <1>0, <2>2, <2>5, <2>6, <2>7, <3>1, <3>2 DEF Spreads
    <3> QED
      BY <3>3 DEF Told
  <2>9. CASE pump[p].phase = "anchor" /\ pump'[p].phase = "idle"
    <3>1. room = b /\ up[p] \in {<<>>, <<Change(p, b)>>}
      BY <1>0, <2>9 DEF Stage, Declared, ForwardsIt, CopyIsNext, ForwardsCopy, Anchors
    <3>2. CASE up[p] = <<>>
      <4>1. \A q \in Peer : Still(q)'
        BY <2>3, <2>5, <2>9, <3>2 DEF Still
      <4>2. \A q \in On \ {r} : Converges(q, b)
        BY <1>0, <2>9, <3>2 DEF Converges, CopyComes
      <4>3. Delivers(b)'
        BY <2>2, <2>6, <3>1, <4>1, <4>2 DEF Delivers
      <4> QED
        BY <4>3 DEF Told
    <3>3. CASE up[p] = <<Change(p, b)>>
      <4>1. CopyIsNext(p, b)'
        BY <2>2, <2>3, <2>9, <3>1, <3>3 DEF CopyIsNext
      <4>2. up'[p] # <<>>
        BY <2>3, <3>3
      <4>3. Spreads(p, b)'
        BY <2>2, <2>5, <2>6, <2>7, <4>1, <4>2 DEF Spreads, Stage, CopyComes
      <4> QED
        BY <4>3 DEF Told
    <3> QED
      BY <3>1, <3>2, <3>3
  <2> QED
    BY <2>4, <2>8, <2>9
<1>4. CASE PeerJoined(r)
  <2>1. r \notin On
    BY <1>0, <1>4 DEF PeerJoined
  <2>2. /\ UNCHANGED <<bpm, up, pump, down, room>> /\ On' = On
        /\ \A q \in On : notice'[q] = notice[q]
    BY <1>4, <2>1, OnIsPeers DEF PeerJoined, Broadcast, TypeOK, On, sessionVars
  <2>3. Stage(p, b)'
    BY <1>0, <2>2 DEF Stage, Declared, ForwardsIt, CopyIsNext, ForwardsCopy, Anchors
  <2>4. Spreads(p, b)'
    BY <1>0, <2>2, <2>3 DEF Spreads, Still, Carries, Converges, CopyComes
  <2> QED
    BY <2>4 DEF Told
<1>5. CASE Hears(r)
  <2>1. /\ UNCHANGED <<conn, notice, up, pump, room>>
        /\ \A q \in Peer \ {r} : bpm'[q] = bpm[q] /\ down'[q] = down[q]
    BY <1>5, HearsStep
  <2>2. On' = On
    BY <2>1 DEF On
  <2>3. \A q \in On : Carries(q, b)' /\ (Converges(q, b) => Converges(q, b)')
    <3> TAKE q \in On
    <3>1. CASE q = r
      BY <1>0, <1>5, <3>1, HearsConverges
    <3>2. CASE q # r
      BY <1>0, <2>1, <3>2, OnIsPeers DEF Carries, Converges
    <3> QED
      BY <3>1, <3>2
  <2>4. bpm'[p] = b
    BY <1>0, <1>5, <2>1, HearsConverges
  <2>5. Stage(p, b)'
    BY <1>0, <2>1 DEF Stage, Declared, ForwardsIt, CopyIsNext, ForwardsCopy, Anchors
  <2>6. Spreads(p, b)'
    BY <1>0, <2>1, <2>2, <2>3, <2>4, <2>5 DEF Spreads, Still, CopyComes
  <2> QED
    BY <2>6 DEF Told
<1> QED
  BY <1>1, <1>2, <1>3, <1>4, <1>5

\* One step keeps the agreement, where nobody acts or joins while something is
\* under way and no stream count is rejected.
LEMMA AgreeStep ==
  ASSUME ~Overlap
  PROVE  TypeOK /\ AgreeInv /\ [Next]_vars => AgreeInv'
<1> SUFFICES ASSUME TypeOK, Targets, Agreement, [Next]_vars, rejects = 0, rejects' = 0
             PROVE  Agreement'
  <2>1. ASSUME TypeOK, [Next]_vars, rejects' = 0
        PROVE  rejects = 0
    <3>1. rejects \in Nat
      BY <2>1, TempoAssumption DEF TypeOK
    <3>2. ASSUME NEW p \in Peer, NEW now \in Clock, UpdateStreamsError(p, now)
          PROVE  rejects' = rejects + 1
      BY <3>2 DEF UpdateStreamsError
    <3>3. ASSUME NEW p \in Peer,
                 \/ Join(p) \/ JoinOk(p) \/ Seed(p) \/ Drop(p)
                 \/ \E b \in Bpm, now \in Clock : ChangeBpm(p, b, now) \/ TempoChanged(p, b, now)
                 \/ SetInterval(p) \/ PeerJoined(p)
                 \/ Read(p) \/ Observe(p) \/ Announce(p) \/ (\E q \in Peer : Send(p, q))
                 \/ Hears(p)
          PROVE  rejects' = rejects
      BY <2>1, <3>3, HearsStep
         DEF bounds, Join, JoinOk, Seed, Drop, ChangeBpm, TempoChanged, SetInterval,
             PeerJoined, Read, Observe, Announce, Send
    <3>4. CASE Next
      BY <2>1, <3>1, <3>2, <3>3, <3>4 DEF Next, Hears
    <3>5. CASE UNCHANGED vars
      BY <2>1, <3>5 DEF vars, bounds
    <3> QED
      BY <2>1, <3>4, <3>5
  <2> QED
    BY <2>1, TargetsStep DEF AgreeInv
<1>1. Quiet => Greets
  BY QuietGreets
<1>2. ASSUME NEW p \in Peer,
             Join(p) \/ SetInterval(p)
             \/ \E b \in Bpm, now \in Clock : ChangeBpm(p, b, now) \/ TempoChanged(p, b, now)
      PROVE  Agreement'
  <2>1. Quiet
    BY <1>2 DEF Join, SetInterval, ChangeBpm, TempoChanged, Act
  <2>2. Greets
    BY <1>1, <2>1
  <2> QED
    BY <1>2, <2>1, <2>2, GreetsJoins, GreetsGoesOn, GreetsActs DEF Agreement
<1>3. ASSUME NEW p \in Peer,
             \/ JoinOk(p) \/ Seed(p) \/ Drop(p) \/ PeerJoined(p)
             \/ Read(p) \/ (\E q \in Peer : Send(p, q)) \/ Observe(p) \/ Announce(p) \/ Hears(p)
      PROVE  Agreement'
  <2>1. CASE Greets
    <3>1. Greets'
      BY <1>3, <2>1, GreetsGoesOn, GreetsObserves, GreetsDrops
    <3> QED
      BY <3>1 DEF Agreement
  <2>2. ASSUME NEW b \in Bpm, Delivers(b)
        PROVE  Agreement'
    BY <1>3, <2>2, DeliversGoesOn DEF Told, Agreement
  <2>3. ASSUME NEW b \in Bpm, NEW q \in Peer, Spreads(q, b)
        PROVE  Agreement'
    BY <1>3, <2>3, SpreadsGoesOn DEF Told, Agreement
  <2> QED
    BY <2>1, <2>2, <2>3 DEF Agreement
<1>4. ASSUME NEW p \in Peer, NEW now \in Clock, UpdateStreamsError(p, now)
      PROVE  FALSE
  BY <1>4 DEF UpdateStreamsError
<1>5. CASE UNCHANGED vars
  <2>1. UNCHANGED <<conn, bpm, adopted, notice, up, pump, down, room>> /\ On' = On
    BY <1>5 DEF vars, sessionVars, On
  <2>2. Greets => Greets'
    BY <2>1 DEF Greets, Greeting, Following, Still, AnchorComes
  <2>3. \A b \in Bpm : Delivers(b) => Delivers(b)'
    BY <2>1 DEF Delivers, Still, Carries, Converges
  <2>4. \A b \in Bpm, p \in Peer : Spreads(p, b) => Spreads(p, b)'
    BY <2>1 DEF Spreads, Still, Carries, Converges, CopyComes, Stage, Declared, ForwardsIt,
                CopyIsNext, ForwardsCopy, Anchors
  <2> QED
    BY <2>2, <2>3, <2>4 DEF Agreement
<1>6. CASE Next
  <2>1. PICK p \in Peer :
          \/ Join(p) \/ JoinOk(p) \/ Seed(p) \/ Drop(p)
          \/ \E b \in Bpm, now \in Clock : ChangeBpm(p, b, now) \/ TempoChanged(p, b, now)
          \/ SetInterval(p)
          \/ \E now \in Clock : UpdateStreamsError(p, now)
          \/ PeerJoined(p)
          \/ Read(p) \/ Observe(p) \/ Announce(p)
          \/ \E q \in Peer : Send(p, q)
          \/ Hears(p)
    BY <1>6 DEF Next, Hears
  <2> QED
    BY <1>2, <1>3, <1>4, <2>1
<1> QED
  BY <1>5, <1>6

\* In a room in which nothing is under way every member plays the tempo the
\* relay knows, for any number of members: through lost connections, rejoins,
\* clocks that disagree and an emptied room (session.go's declarations and
\* anchors, interval_clock.go), as long as what one member starts is over
\* before the next acts or joins, and the relay rejects no stream count.
THEOREM RoomAgrees ==
  ASSUME ~Overlap
  PROVE  Spec => []QuietRoomAgrees
<1>1. Init => TypeOK /\ AgreeInv
  BY TypeInit, AgreeInit
<1>2. (TypeOK /\ AgreeInv) /\ [Next]_vars => (TypeOK /\ AgreeInv)'
  BY TypeStep, AgreeStep
<1>3. TypeOK /\ AgreeInv => QuietRoomAgrees
  <2> SUFFICES ASSUME TypeOK, AgreeInv, Quiet, room # 0, rejects = 0, NEW p \in On
               PROVE  bpm[p] = room
    BY DEF QuietRoomAgrees
  <2>1. Greets
    BY QuietGreets DEF AgreeInv
  <2>2. ~AnchorComes(p)
    <3>1. \A q \in Peer : pump[q].phase = "idle"
      BY <2>1 DEF Greets, Greeting, Still, Quiet
    <3>2. down[p] = <<>>
      BY DEF Quiet
    <3> QED
      BY <3>1, <3>2, EmptyRange, OnIsPeers DEF AnchorComes
  <2> QED
    BY <2>1, <2>2 DEF Greets, Following
<1> QED
  BY <1>1, <1>2, <1>3, PTL DEF Spec

-----------------------------------------------------------------------------
(* Means are sums. *)

\* Adding up q over the parts of 1..n, an element at a time.
Adds(f, q, n) ==
  f = [s \in SUBSET (1..n) |->
         IF s = {} THEN 0 ELSE q[CHOOSE k \in s : TRUE] + f[s \ {CHOOSE k \in s : TRUE}]]

\* That defines one function.
LEMMA AddsOnce ==
  ASSUME NEW q, NEW n \in Nat, NEW f, Adds(f, q, n), NEW g, Adds(g, q, n)
  PROVE  f = g
<1> DEFINE Differ == {s \in SUBSET (1..n) : f[s] # g[s]}
           Sizes  == {Cardinality(s) : s \in Differ}
<1>1. \A s \in SUBSET (1..n) : IsFiniteSet(s) /\ Cardinality(s) \in Nat
  <2>1. IsFiniteSet(1..n)
    BY FS_Interval
  <2> QED BY <2>1, FS_Subset, FS_CardinalityType
<1>2. Differ = {}
  <2> SUFFICES ASSUME Differ # {} PROVE FALSE
    OBVIOUS
  <2>1. Sizes \subseteq Nat /\ Sizes # {}
    BY <1>1
  <2>2. PICK c \in Sizes : \A d \in Sizes : ~(d < c)
    <3>1. IsWellFoundedOn(OpToRel(<, Nat), Nat)
      BY NatLessThanWellFounded
    <3> HIDE DEF Sizes
    <3>2. PICK c \in Sizes : \A d \in Sizes : ~(<<d, c>> \in OpToRel(<, Nat))
      BY <2>1, <3>1, WFMin
    <3> QED BY <2>1, <3>2 DEF OpToRel
  <2>3. PICK s \in Differ : c = Cardinality(s)
    BY <2>2
  <2>4. \A t \in SUBSET (1..n) : Cardinality(t) < Cardinality(s) => f[t] = g[t]
    BY <2>2, <2>3
  <2> DEFINE k == CHOOSE k \in s : TRUE
  <2>5. CASE s = {}
    BY <2>3, <2>5 DEF Adds
  <2>6. CASE s # {}
    <3>1. k \in s /\ s \ {k} \in SUBSET (1..n)
      BY <2>3, <2>6
    <3>2. Cardinality(s \ {k}) < Cardinality(s)
      <4>1. Cardinality(s \ {k}) = Cardinality(s) - 1
        BY <1>1, <2>3, <3>1, FS_RemoveElement
      <4> QED BY <1>1, <2>3, <4>1
    <3>3. f[s \ {k}] = g[s \ {k}]
      BY <2>4, <3>1, <3>2
    <3>4. f[s] = q[k] + f[s \ {k}] /\ g[s] = q[k] + g[s \ {k}]
      BY <2>3, <2>6 DEF Adds
    <3> QED BY <2>3, <3>3, <3>4
  <2> QED BY <2>5, <2>6
<1>3. f = [s \in SUBSET (1..n) |-> f[s]] /\ g = [s \in SUBSET (1..n) |-> g[s]]
  BY DEF Adds
<1>4. \A s \in SUBSET (1..n) : f[s] = g[s]
  BY <1>2
<1> QED BY <1>3, <1>4

\* A fold over a sequence is what adding up over its domain comes to.
LEMMA FoldAdds ==
  ASSUME NEW q, NEW n \in Nat, DOMAIN q = 1..n, NEW f, Adds(f, q, n)
  PROVE  FoldSeq(+, 0, q) = f[1..n]
<1>1. FoldSeq(+, 0, q) = (CHOOSE g : Adds(g, q, n))[1..n]
  BY DEF FoldSeq, FoldFunction, FoldFunctionOnSet, MapThenFoldSet, Adds
<1>2. Adds(CHOOSE g : Adds(g, q, n), q, n)
  OBVIOUS
<1> QED BY <1>1, <1>2, AddsOnce

\* The sum of a window whose first i readings are x and whose others are b.
LEMMA SumOfTwo ==
  ASSUME NEW q, NEW n \in Nat, DOMAIN q = 1..n, NEW x \in Int, NEW b \in Int, NEW i \in 0..n,
         \A k \in 1..n : q[k] = IF k <= i THEN x ELSE b
  PROVE  FoldSeq(+, 0, q) = x * i + b * (n - i)
<1> DEFINE Olds(s) == Cardinality(s \cap (1..i))
           News(s) == Cardinality(s \cap (i + 1 .. n))
           f == [s \in SUBSET (1..n) |-> x * Olds(s) + b * News(s)]
<1>1. \A s \in SUBSET (1..n) : /\ IsFiniteSet(s \cap (1..i)) /\ IsFiniteSet(s \cap (i + 1 .. n))
                               /\ Olds(s) \in Nat /\ News(s) \in Nat
  <2>1. IsFiniteSet(1..i) /\ IsFiniteSet(i + 1 .. n)
    BY FS_Interval
  <2> QED BY <2>1, FS_Subset, FS_CardinalityType
<1>2. ASSUME NEW s \in SUBSET (1..n), s # {}
      PROVE  f[s] = q[CHOOSE k \in s : TRUE] + f[s \ {CHOOSE k \in s : TRUE}]
  <2>0. Olds(s) \in Nat /\ News(s) \in Nat
    BY <1>1
  <2> DEFINE k == CHOOSE k \in s : TRUE
  <2>1. k \in s /\ s \ {k} \in SUBSET (1..n) /\ k \in 1..n
    BY <1>2
  <2> HIDE DEF k
  <2>2. CASE k <= i
    <3>1. /\ (s \ {k}) \cap (1..i) = (s \cap (1..i)) \ {k} /\ k \in s \cap (1..i)
          /\ (s \ {k}) \cap (i + 1 .. n) = s \cap (i + 1 .. n)
      BY <2>1, <2>2
    <3>a. IsFiniteSet(s \cap (1..i))
      BY <1>1
    <3>b. Cardinality((s \cap (1..i)) \ {k}) = Cardinality(s \cap (1..i)) - 1
      BY <3>1, <3>a, FS_RemoveElement
    <3>2. Olds(s \ {k}) = Olds(s) - 1 /\ News(s \ {k}) = News(s)
      BY <3>1, <3>b
    <3>3. q[k] = x
      BY <2>1, <2>2
    <3> HIDE DEF Olds, News
    <3>4. x * Olds(s) = x + x * (Olds(s) - 1) /\ b * News(s) \in Int /\ x * (Olds(s) - 1) \in Int
      <4>1. \A u \in Int, v \in Nat : u * v = u + u * (v - 1) /\ u * v \in Int /\ u * (v - 1) \in Int
        OBVIOUS
      <4> QED BY <2>0, <4>1
    <3> QED BY <2>1, <3>2, <3>3, <3>4 DEF k
  <2>3. CASE ~(k <= i)
    <3>1. /\ (s \ {k}) \cap (1..i) = s \cap (1..i) /\ k \in s \cap (i + 1 .. n)
          /\ (s \ {k}) \cap (i + 1 .. n) = (s \cap (i + 1 .. n)) \ {k}
      BY <2>1, <2>3
    <3>a. IsFiniteSet(s \cap (i + 1 .. n))
      BY <1>1
    <3>b. Cardinality((s \cap (i + 1 .. n)) \ {k}) = Cardinality(s \cap (i + 1 .. n)) - 1
      BY <3>1, <3>a, FS_RemoveElement
    <3>2. Olds(s \ {k}) = Olds(s) /\ News(s \ {k}) = News(s) - 1
      BY <3>1, <3>b
    <3>3. q[k] = b
      BY <2>1, <2>3
    <3> HIDE DEF Olds, News
    <3>4. b * News(s) = b + b * (News(s) - 1) /\ x * Olds(s) \in Int /\ b * (News(s) - 1) \in Int
      <4>1. \A u \in Int, v \in Nat : u * v = u + u * (v - 1) /\ u * v \in Int /\ u * (v - 1) \in Int
        OBVIOUS
      <4> QED BY <2>0, <4>1
    <3> QED BY <2>1, <3>2, <3>3, <3>4 DEF k
  <2> QED BY <2>2, <2>3
<1>3. f[{}] = 0
  <2>1. Olds({}) = 0 /\ News({}) = 0
    BY FS_EmptySet
  <2> QED BY <2>1
<1>4. Adds(f, q, n)
  <2> DEFINE G(s) == IF s = {} THEN 0
                     ELSE q[CHOOSE k \in s : TRUE] + f[s \ {CHOOSE k \in s : TRUE}]
  <2>1. \A s \in SUBSET (1..n) : f[s] = G(s)
    BY <1>2, <1>3
  <2>2. f = [s \in SUBSET (1..n) |-> f[s]]
    OBVIOUS
  <2> HIDE DEF f
  <2>3. f = [s \in SUBSET (1..n) |-> G(s)]
    BY <2>1, <2>2
  <2> QED BY <2>3 DEF Adds
<1>5. f[1..n] = x * i + b * (n - i)
  <2>1. (1..n) \cap (1..i) = 1..i /\ (1..n) \cap (i + 1 .. n) = i + 1 .. n
    OBVIOUS
  <2>a. Cardinality(1..i) = i /\ Cardinality(i + 1 .. n) = n - i
    <3>1. Cardinality(1..i) = IF 1 > i THEN 0 ELSE i - 1 + 1
      BY FS_Interval
    <3>2. Cardinality(i + 1 .. n) = IF i + 1 > n THEN 0 ELSE n - (i + 1) + 1
      BY FS_Interval
    <3> QED BY <3>1, <3>2
  <2>2. Olds(1..n) = i /\ News(1..n) = n - i
    BY <2>1, <2>a
  <2> QED BY <2>2
<1> HIDE DEF f
<1> QED BY <1>4, <1>5, FoldAdds

\* A sum of positive terms is at least their number.
LEMMA SumOfPositive ==
  ASSUME NEW q, NEW n \in Nat, DOMAIN q = 1..n, \A k \in 1..n : q[k] \in Nat \ {0}
  PROVE  FoldSeq(+, 0, q) \in Nat /\ FoldSeq(+, 0, q) >= n
<1> DEFINE Parts == SUBSET (1..n)
           Pick(s) == CHOOSE k \in s : TRUE
           Next1(f, s) == IF s = {} THEN 0 ELSE q[Pick(s)] + f[s \ {Pick(s)}]
           UpTo(f, m) ==
             /\ f \in [Parts -> Nat]
             /\ \A s \in Parts : Cardinality(s) <= m => f[s] = Next1(f, s) /\ f[s] >= Cardinality(s)
           Missing == {m \in Nat : ~\E f : UpTo(f, m)}
<1>1. IsFiniteSet(1..n) /\ Cardinality(1..n) = n
  <2>1. IsFiniteSet(1..n) /\ Cardinality(1..n) = IF 1 > n THEN 0 ELSE n - 1 + 1
    BY FS_Interval
  <2> QED BY <2>1
<1>2. \A s \in Parts : IsFiniteSet(s) /\ Cardinality(s) \in Nat /\ Cardinality(s) <= n
  <2> TAKE s \in Parts
  <2>1. IsFiniteSet(s) /\ Cardinality(s) <= Cardinality(1..n)
    BY <1>1, FS_Subset
  <2> QED BY <1>1, <2>1, FS_CardinalityType
<1>3. \A s \in Parts : s # {} =>
        /\ Pick(s) \in s /\ q[Pick(s)] \in Nat \ {0} /\ s \ {Pick(s)} \in Parts
        /\ Cardinality(s \ {Pick(s)}) = Cardinality(s) - 1 /\ Cardinality(s) >= 1
  <2> TAKE s \in Parts
  <2> HAVE s # {}
  <2> DEFINE k == Pick(s)
  <2>1. k \in s
    OBVIOUS
  <2> HIDE DEF k
  <2>2. IsFiniteSet(s) /\ Cardinality(s) \in Nat
    BY <1>2
  <2>3. Cardinality(s \ {k}) = Cardinality(s) - 1 /\ Cardinality(s \ {k}) \in Nat
    <3>1. Cardinality(s \ {k}) = Cardinality(s) - 1
      BY <2>1, <2>2, FS_RemoveElement
    <3>2. s \ {k} \in Parts
      OBVIOUS
    <3> QED BY <1>2, <3>1, <3>2
  <2>4. q[k] \in Nat \ {0}
    BY <2>1
  <2> QED BY <2>1, <2>2, <2>3, <2>4 DEF k
<1>4. Missing = {}
  <2> SUFFICES ASSUME Missing # {} PROVE FALSE
    OBVIOUS
  <2>1. PICK m \in Missing : \A l \in Missing : ~(l < m)
    <3>1. IsWellFoundedOn(OpToRel(<, Nat), Nat)
      BY NatLessThanWellFounded
    <3>2. Missing \subseteq Nat
      OBVIOUS
    <3> HIDE DEF Missing
    <3>3. PICK m \in Missing : \A l \in Missing : ~(<<l, m>> \in OpToRel(<, Nat))
      BY <3>1, <3>2, WFMin
    <3> QED BY <3>2, <3>3 DEF OpToRel
  <2>2. m \in Nat
    OBVIOUS
  <2>3. PICK f : f \in [Parts -> Nat] /\ (m > 0 => UpTo(f, m - 1))
    <3>1. CASE m = 0
      <4>1. [s \in Parts |-> 0] \in [Parts -> Nat]
        OBVIOUS
      <4>2. ~(m > 0)
        BY <3>1
      <4> HIDE DEF UpTo
      <4> QED BY <4>1, <4>2
    <3>2. CASE m > 0
      <4>1. m - 1 \in Nat /\ m - 1 < m
        BY <2>2, <3>2
      <4>2. m - 1 \notin Missing
        BY <2>1, <4>1
      <4>3. \E f : UpTo(f, m - 1)
        BY <4>1, <4>2
      <4>4. \A f : UpTo(f, m - 1) => f \in [Parts -> Nat]
        OBVIOUS
      <4> HIDE DEF UpTo
      <4> QED BY <4>3, <4>4
    <3>3. m = 0 \/ m > 0
      BY <2>2
    <3> HIDE DEF UpTo, Parts, Missing
    <3> QED BY <3>1, <3>2, <3>3
  <2> DEFINE g == [s \in Parts |-> Next1(f, s)]
  <2>4. \A s \in Parts : Next1(f, s) \in Nat
    <3> TAKE s \in Parts
    <3>1. CASE s = {}
      BY <3>1
    <3>2. CASE s # {}
      <4>1. q[Pick(s)] \in Nat /\ f[s \ {Pick(s)}] \in Nat
        BY <1>3, <2>3, <3>2
      <4> HIDE DEF Pick
      <4> QED BY <3>2, <4>1
    <3> QED BY <3>1, <3>2
  <2>5. g \in [Parts -> Nat] /\ \A s \in Parts : g[s] = Next1(f, s)
    BY <2>4
  <2> HIDE DEF g
  <2>6. \A s \in Parts : Cardinality(s) < m => g[s] = f[s] /\ f[s] >= Cardinality(s)
    <3> TAKE s \in Parts
    <3> HAVE Cardinality(s) < m
    <3>1. m > 0 /\ Cardinality(s) <= m - 1
      BY <1>2, <2>2
    <3>2. f[s] = Next1(f, s) /\ f[s] >= Cardinality(s)
      BY <2>3, <3>1
    <3> QED BY <2>5, <3>2
  <2>7. \A s \in Parts : Cardinality(s) <= m => g[s] = Next1(g, s) /\ g[s] >= Cardinality(s)
    <3> TAKE s \in Parts
    <3> HAVE Cardinality(s) <= m
    <3>1. CASE s = {}
      <4>1. Cardinality(s) = 0
        BY <3>1, FS_EmptySet
      <4>2. g[s] = 0 /\ Next1(g, s) = 0
        BY <2>5, <3>1
      <4> QED BY <4>1, <4>2
    <3>2. CASE s # {}
      <4> DEFINE t == s \ {Pick(s)}
      <4>1. /\ t \in Parts /\ Cardinality(t) = Cardinality(s) - 1
            /\ q[Pick(s)] \in Nat \ {0} /\ Cardinality(s) \in Nat
        BY <1>2, <1>3, <3>2
      <4>2. g[s] = q[Pick(s)] + f[t]
        BY <2>5, <3>2
      <4> HIDE DEF t, Pick
      <4>3. Cardinality(t) < m
        BY <2>2, <4>1
      <4>4. g[t] = f[t] /\ f[t] >= Cardinality(t) /\ f[t] \in Nat
        BY <2>3, <2>6, <4>1, <4>3
      <4>5. g[s] = q[Pick(s)] + g[t] /\ g[s] >= Cardinality(s)
        BY <4>1, <4>2, <4>4
      <4> QED BY <3>2, <4>5 DEF t
    <3> QED BY <3>1, <3>2
  <2>8. UpTo(g, m)
    BY <2>5, <2>7
  <2> QED BY <2>1, <2>8
<1>5. PICK f : UpTo(f, n)
  BY <1>4
<1>6. Adds(f, q, n)
  <2>1. f = [s \in Parts |-> f[s]] /\ \A s \in Parts : f[s] = Next1(f, s)
    BY <1>2, <1>5
  <2>2. f = [s \in Parts |-> Next1(f, s)]
    <3> HIDE DEF Next1
    <3> QED BY <2>1
  <2> QED BY <2>2 DEF Adds
<1>7. FoldSeq(+, 0, q) = f[1..n]
  BY <1>6, FoldAdds
<1>8. f[1..n] \in Nat /\ f[1..n] >= n
  <2>1. 1..n \in Parts /\ n <= n
    OBVIOUS
  <2>2. f \in [Parts -> Nat] /\ (Cardinality(1..n) <= n => f[1..n] >= Cardinality(1..n))
    BY <1>5, <2>1
  <2> QED BY <1>1, <2>1, <2>2
<1> QED BY <1>7, <1>8

\* What a detector may report is a tempo: a reading, or a mean of readings, snapped.
MeansAreTempos ==
  /\ \A q \in Seq(Bpm) : q # <<>> => Snapped(Mean(q)) \in Bpm
  /\ \A b \in Bpm : Snapped(Exactly(b)) \in Bpm

\* Where every positive number is a tempo, all a detector can report is one: a mean of
\* tempos, snapped to an integer or not (snapToIntegerTempo), is never zero.
THEOREM PositiveTempos ==
  ASSUME Bpm = Nat \ {0}
  PROVE  MeansAreTempos
<1>0. Whole \in Nat \ {0}
  BY DawAssumption
<1>1. ASSUME NEW s \in Nat, NEW n \in Nat \ {0}, s >= n
      PROVE  Snapped([sum |-> s, of |-> n]) \in Bpm
  <2> DEFINE k == (2 * s + Whole * n) \div (2 * Whole * n)
  <2>1. s \div n \in Nat /\ s \div n # 0
    <3>1. \A u \in Nat, v \in Nat \ {0} : u >= v => u \div v \in Nat /\ u \div v # 0
      OBVIOUS
    <3> QED BY <1>1, <3>1
  <2>2. k \in Nat
    <3>1. 2 * s + Whole * n \in Nat /\ 2 * Whole * n \in Nat \ {0}
      BY <1>0, <1>1
    <3>2. \A u \in Nat, v \in Nat \ {0} : u \div v \in Nat
      OBVIOUS
    <3> QED BY <3>1, <3>2
  <2>3. Nearest([sum |-> s, of |-> n]) = k * Whole
    BY DEF Nearest
  <2> HIDE DEF k
  <2>4. k * Whole \in Nat
    BY <1>0, <2>2
  <2> QED BY <2>1, <2>3, <2>4 DEF Snapped
<1>2. ASSUME NEW q \in Seq(Bpm), q # <<>>
      PROVE  Snapped(Mean(q)) \in Bpm
  <2>1. /\ DOMAIN q = 1..Len(q) /\ Len(q) \in Nat \ {0}
        /\ \A k \in 1..Len(q) : q[k] \in Nat \ {0}
    BY <1>2
  <2>2. FoldSeq(+, 0, q) \in Nat /\ FoldSeq(+, 0, q) >= Len(q)
    BY <2>1, SumOfPositive
  <2> QED BY <1>1, <2>1, <2>2 DEF Mean
<1>3. ASSUME NEW b \in Bpm PROVE Snapped(Exactly(b)) \in Bpm
  BY <1>1 DEF Exactly
<1> QED BY <1>2, <1>3 DEF MeansAreTempos

-----------------------------------------------------------------------------
(* A room with DAWs is a room. *)

\* A detector's fields; c is its candidate, a mean or none.
Detector(d, c) ==
  d \in [last : Nat, guard : 0..Guard, samples : {q \in Seq(Bpm) : Len(q) <= Window},
         candidate : {c}, held : 0..Hold]

\* The bridges' types, which say that what comes back from a DAW is a tempo.
BridgeTypes ==
  /\ daw \in [Daws -> Bpm] /\ mine \in [Daws -> BOOLEAN] /\ turns \in 0..MaxTurns
  /\ cmds \in [Daws -> Seq(Bpm)]
  /\ evs \in [Daws -> Seq(Bpm)] /\ \A p \in Daws : Len(evs[p]) <= Depth
  /\ det = [p \in Daws |-> det[p]] /\ \A p \in Daws : Detector(det[p], det[p].candidate)

\* A window after one more reading.
LEMMA ObservingTypes ==
  ASSUME NEW w \in Seq(Bpm), Len(w) <= Window, NEW b \in Bpm
  PROVE  /\ Observing(w, b) \in Seq(Bpm) /\ Len(Observing(w, b)) <= Window
         /\ Observing(w, b) # <<>>
<1>1. Window \in Nat \ {0} /\ Len(w) \in Nat
  BY DawAssumption
<1> DEFINE all == Append(w, b)
<1>2. all \in Seq(Bpm) /\ Len(all) = Len(w) + 1 /\ all # <<>>
  <2>1. all \in Seq(Bpm) /\ Len(all) = Len(w) + 1
    BY <1>1
  <2>2. Len(all) # 0 /\ Len(<<>>) = 0
    BY <1>1, <2>1
  <2> QED BY <2>1, <2>2
<1>3. Tail(all) \in Seq(Bpm) /\ Len(Tail(all)) = Len(w)
  BY <1>1, <1>2
<1>4. Len(all) > Window => Tail(all) # <<>>
  BY <1>1, <1>2, <1>3
<1> HIDE DEF all
<1>5. Observing(w, b) = IF Len(all) > Window THEN Tail(all) ELSE all
  BY DEF Observing, all
<1> QED BY <1>1, <1>2, <1>3, <1>4, <1>5

\* What the bridges would report at the next poll is a tempo.
ReportsAreTempos == \A p \in Daws : Checked(det[p], daw[p]).report \in Bpm \cup {0}

\* A reading leaves a detector.
LEMMA CheckedTypes ==
  ASSUME NEW d, NEW c, Detector(d, c), NEW b \in Bpm, Checked(d, b).report \in Bpm \cup {0}
  PROVE  \E k : Detector(Checked(d, b).det, k)
<1> DEFINE q    == Observing(d.samples, b)
           seen == Judged(d, q, b)
           calm == [d EXCEPT !.samples = q, !.candidate = NoCandidate, !.held = 0]
<1>1. /\ Guard \in Nat /\ Window \in Nat \ {0} /\ Hold \in Nat \ {0} /\ Bpm \subseteq Nat
  BY DawAssumption, TempoAssumption
<1>2. q \in {s \in Seq(Bpm) : Len(s) <= Window}
  BY ObservingTypes DEF Detector
<1> HIDE DEF q, seen
<1> DEFINE r == Snapped(seen)
<1> HIDE DEF r
<1>4. 0 \in 0..Hold
  BY <1>1
<1> USE <1>1, <1>2, <1>4 DEF Detector
<1>5. d.guard > 0 => Detector([d EXCEPT !.samples = q, !.guard = @ - 1], c)
  <2> DEFINE g == d.guard - 1
  <2>1. d.guard > 0 => g \in 0..Guard
    OBVIOUS
  <2> HIDE DEF g
  <2>2. g \in 0..Guard => Detector([d EXCEPT !.samples = q, !.guard = g], c)
    OBVIOUS
  <2> QED BY <2>1, <2>2 DEF g
<1>6. Detector(calm, NoCandidate)
  OBVIOUS
<1>7. Detector([calm EXCEPT !.candidate = seen], seen)
  OBVIOUS
<1>8. r \in Nat => Detector([calm EXCEPT !.last = r], NoCandidate)
  OBVIOUS
<1>9. d.held + 1 < Hold => Detector([d EXCEPT !.samples = q, !.held = @ + 1], c)
  <2> DEFINE h == d.held + 1
  <2>1. h < Hold => h \in 0..Hold
    OBVIOUS
  <2> HIDE DEF h
  <2>2. h \in 0..Hold => Detector([d EXCEPT !.samples = q, !.held = h], c)
    OBVIOUS
  <2> QED BY <2>1, <2>2 DEF h
<1> HIDE <1>1, <1>2, <1>4 DEF Detector, calm
<1>10. r \in Bpm \cup {0} => r \in Nat
  BY <1>1
<1> QED
  BY <1>5, <1>6, <1>7, <1>8, <1>9, <1>10 DEF Checked, q, seen, calm, r

\* A mean of tempos or a reading is what a detector reports.
LEMMA MeansReport ==
  ASSUME MeansAreTempos, NEW d, NEW c, Detector(d, c), NEW b \in Bpm
  PROVE  Checked(d, b).report \in Bpm \cup {0}
<1> DEFINE q == Observing(d.samples, b)
<1>1. q \in Seq(Bpm) /\ q # <<>>
  BY ObservingTypes DEF Detector
<1>2. Snapped(Judged(d, q, b)) \in Bpm
  BY <1>1 DEF MeansAreTempos, Judged
<1> QED BY <1>2 DEF Checked

LEMMA BridgeInit == DawInit => BridgeTypes
<1> SUFFICES ASSUME DawInit PROVE BridgeTypes
  OBVIOUS
<1>1. /\ Guard \in Nat /\ Window \in Nat \ {0} /\ Hold \in Nat \ {0} /\ Depth \in Nat \ {0}
      /\ MaxTurns \in Nat /\ Daws \subseteq Peer
      /\ \A p \in Peer : JoinBpm[p] \in Bpm /\ JoinBpm[p] \in Nat
  BY DawAssumption, TempoAssumption
<1>2. ASSUME NEW p \in Daws PROVE Detector(det[p], det[p].candidate)
  <2>1. det[p] = [last |-> JoinBpm[p], guard |-> 0, samples |-> <<>>,
                  candidate |-> NoCandidate, held |-> 0]
    BY DEF DawInit
  <2>2. <<>> \in {q \in Seq(Bpm) : Len(q) <= Window}
    BY <1>1
  <2>3. 0 \in 0..Guard /\ 0 \in 0..Hold /\ JoinBpm[p] \in Nat
    BY <1>1
  <2> QED BY <2>1, <2>2, <2>3 DEF Detector
<1>3. det = [p \in Daws |-> det[p]]
  BY DEF DawInit
<1>4. /\ daw \in [Daws -> Bpm] /\ mine \in [Daws -> BOOLEAN] /\ turns \in 0..MaxTurns
      /\ cmds \in [Daws -> Seq(Bpm)] /\ evs \in [Daws -> Seq(Bpm)]
      /\ \A p \in Daws : Len(evs[p]) <= Depth
  BY <1>1 DEF DawInit
<1> QED BY <1>2, <1>3, <1>4 DEF BridgeTypes

\* One bridge's detector changes, and is a detector still.
LEMMA OneDetector ==
  ASSUME BridgeTypes, NEW p \in Daws, NEW d, NEW c, Detector(d, c),
         det' = [det EXCEPT ![p] = d]
  PROVE  /\ det' = [q \in Daws |-> det'[q]]
         /\ \A q \in Daws : Detector(det'[q], det'[q].candidate)
<1>1. det = [q \in Daws |-> det[q]]
  BY DEF BridgeTypes
<1>2. /\ det' = [q \in Daws |-> det'[q]]
      /\ det'[p] = d /\ \A q \in Daws \ {p} : det'[q] = det[q]
  BY <1>1
<1>3. d.candidate = c
  BY DEF Detector
<1>4. Detector(det'[p], det'[p].candidate)
  BY <1>2, <1>3
<1>5. \A q \in Daws \ {p} : Detector(det'[q], det'[q].candidate)
  BY <1>2 DEF BridgeTypes
<1> QED BY <1>2, <1>4, <1>5

LEMMA BridgeStep ==
  ASSUME TypeOK, TypeOK', BridgeTypes, ReportsAreTempos, [DawNext]_dawVars
  PROVE  BridgeTypes'
<1>1. /\ Guard \in Nat /\ Window \in Nat \ {0} /\ Hold \in Nat \ {0} /\ Depth \in Nat \ {0}
      /\ MaxTurns \in Nat /\ Daws \subseteq Peer /\ Bpm \subseteq Nat
  BY DawAssumption, TempoAssumption
<1>2. /\ daw \in [Daws -> Bpm] /\ mine \in [Daws -> BOOLEAN] /\ turns \in 0..MaxTurns
      /\ cmds \in [Daws -> Seq(Bpm)] /\ evs \in [Daws -> Seq(Bpm)]
      /\ \A p \in Daws : Len(evs[p]) <= Depth
      /\ det = [p \in Daws |-> det[p]]
      /\ \A p \in Daws : Detector(det[p], det[p].candidate)
  BY DEF BridgeTypes
<1>3. ASSUME NEW p \in Daws, SetTempo(p) PROVE BridgeTypes'
  <2> DEFINE b == Head(cmds[p])
             d == [det[p] EXCEPT !.last = b, !.guard = Guard,
                                 !.candidate = NoCandidate, !.held = 0]
  <2>1. /\ cmds[p] \in Seq(Bpm) /\ cmds[p] # <<>>
        /\ cmds' = [cmds EXCEPT ![p] = Tail(@)] /\ daw' = [daw EXCEPT ![p] = b]
        /\ mine' = [mine EXCEPT ![p] = FALSE] /\ UNCHANGED <<evs, turns>>
    BY <1>2, <1>3 DEF SetTempo
  <2>2. b \in Bpm /\ Tail(cmds[p]) \in Seq(Bpm)
    BY <2>1
  <2>3. det' = [det EXCEPT ![p] = d]
    BY <1>2, <1>3 DEF SetTempo
  <2>4. Detector(d, NoCandidate)
    <3>1. Guard \in 0..Guard /\ 0 \in 0..Hold
      BY <1>1
    <3> HIDE DEF b
    <3>2. b \in Nat
      BY <1>1, <2>2
    <3> QED BY <1>2, <3>1, <3>2 DEF Detector
  <2> HIDE DEF b, d
  <2>5. /\ det' = [q \in Daws |-> det'[q]]
        /\ \A q \in Daws : Detector(det'[q], det'[q].candidate)
    BY <2>3, <2>4, OneDetector
  <2>6. daw' \in [Daws -> Bpm] /\ mine' \in [Daws -> BOOLEAN] /\ cmds' \in [Daws -> Seq(Bpm)]
    BY <1>2, <2>1, <2>2
  <2> QED BY <1>2, <2>1, <2>5, <2>6 DEF BridgeTypes
<1>4. ASSUME NEW p \in Daws, Poll(p) PROVE BridgeTypes'
  <2> DEFINE r == Checked(det[p], daw[p])
  <2>1. daw[p] \in Bpm /\ UNCHANGED <<daw, cmds, mine, turns>>
    BY <1>2, <1>4 DEF Poll
  <2>2. /\ \E k : Detector(r.det, k)
        /\ r.report \in Bpm \cup {0}
    BY <1>2, <2>1, CheckedTypes DEF ReportsAreTempos
  <2>3. /\ det' = [det EXCEPT ![p] = r.det]
        /\ \/ evs' = evs
           \/ /\ evs' = [evs EXCEPT ![p] = Append(@, r.report)]
              /\ r.report # 0 /\ Len(evs[p]) # Depth
    BY <1>4 DEF Poll
  <2> HIDE DEF r
  <2>4. /\ det' = [q \in Daws |-> det'[q]]
        /\ \A q \in Daws : Detector(det'[q], det'[q].candidate)
    <3>1. PICK k : Detector(r.det, k)
      BY <2>2
    <3> QED BY <2>3, <3>1, OneDetector
  <2>5. evs' \in [Daws -> Seq(Bpm)] /\ \A q \in Daws : Len(evs'[q]) <= Depth
    <3>1. CASE evs' = evs
      BY <1>2, <3>1
    <3>2. CASE evs' = [evs EXCEPT ![p] = Append(@, r.report)] /\ r.report # 0 /\ Len(evs[p]) # Depth
      <4> DEFINE q == Append(evs[p], r.report)
      <4>1. /\ evs[p] \in Seq(Bpm) /\ r.report \in Bpm
            /\ Len(evs[p]) \in Nat /\ Len(evs[p]) <= Depth
        BY <1>2, <2>2, <3>2
      <4>2. q \in Seq(Bpm) /\ Len(q) = Len(evs[p]) + 1
        BY <4>1
      <4>3. Len(q) <= Depth
        BY <1>1, <3>2, <4>1, <4>2
      <4>4. evs' = [evs EXCEPT ![p] = q]
        BY <3>2
      <4> HIDE DEF q
      <4> QED BY <1>2, <4>2, <4>3, <4>4
    <3> QED BY <2>3, <3>1, <3>2
  <2> QED BY <1>2, <2>1, <2>4, <2>5 DEF BridgeTypes
<1>5. ASSUME NEW p \in Daws, TakeEvent(p) PROVE BridgeTypes'
  <2>1. /\ evs[p] \in Seq(Bpm) /\ evs[p] # <<>> /\ Len(evs[p]) <= Depth
        /\ evs' = [evs EXCEPT ![p] = Tail(@)]
        /\ UNCHANGED <<daw, det, cmds, mine, turns>>
    BY <1>2, <1>5 DEF TakeEvent
  <2>2. Tail(evs[p]) \in Seq(Bpm) /\ Len(Tail(evs[p])) <= Depth
    <3>1. Len(Tail(evs[p])) = Len(evs[p]) - 1 /\ Len(evs[p]) \in Nat
      BY <2>1
    <3> QED BY <1>1, <2>1, <3>1
  <2>3. evs' \in [Daws -> Seq(Bpm)] /\ \A q \in Daws : Len(evs'[q]) <= Depth
    BY <1>2, <2>1, <2>2
  <2> QED BY <1>2, <2>1, <2>3 DEF BridgeTypes
<1>6. ASSUME NEW p \in Daws, NEW b \in Bpm, Turn(p, b) PROVE BridgeTypes'
  <2>1. /\ turns < MaxTurns /\ turns' = turns + 1
        /\ daw' = [daw EXCEPT ![p] = b] /\ mine' = [mine EXCEPT ![p] = TRUE]
        /\ UNCHANGED <<det, cmds, evs>>
    BY <1>6 DEF Turn
  <2>2. /\ turns' \in 0..MaxTurns /\ daw' \in [Daws -> Bpm] /\ mine' \in [Daws -> BOOLEAN]
    BY <1>1, <1>2, <2>1
  <2> QED BY <1>2, <2>1, <2>2 DEF BridgeTypes
<1>7. ASSUME NEW p \in Peer, Bridged(p), Rest PROVE BridgeTypes'
  <2>1. UNCHANGED <<daw, det, evs, mine, turns>>
    BY <1>7 DEF Rest
  <2>2. \E always \in BOOLEAN : Commands(p, always)
    BY <1>7 DEF Bridged
  <2>3. bpm'[p] \in Bpm
    BY DEF TypeOK
  <2>4. cmds' \in [Daws -> Seq(Bpm)]
    <3>1. CASE cmds' = cmds
      BY <1>2, <3>1
    <3>2. CASE p \in Daws /\ cmds' = [cmds EXCEPT ![p] = Append(@, bpm'[p])]
      <4>1. Append(cmds[p], bpm'[p]) \in Seq(Bpm)
        BY <1>2, <2>3, <3>2
      <4> QED BY <1>2, <3>2, <4>1
    <3> QED BY <2>2, <3>1, <3>2 DEF Commands
  <2> QED BY <1>2, <2>1, <2>4 DEF BridgeTypes
<1>8. ASSUME UNCHANGED bridgeVars PROVE BridgeTypes'
  BY <1>2, <1>8 DEF BridgeTypes, bridgeVars
<1>9. CASE UNCHANGED dawVars
  BY <1>8, <1>9 DEF dawVars
<1> QED
  BY <1>3, <1>4, <1>5, <1>6, <1>7, <1>8, <1>9 DEF DawNext

\* With the bridges a session does nothing it could not do without: Link is told
\* what the room decided, and what comes back is a musician's change.
LEMMA DawStep == BridgeTypes /\ [DawNext]_dawVars => [Next]_vars
<1> SUFFICES ASSUME BridgeTypes, [DawNext]_dawVars
             PROVE  [Next]_vars
  OBVIOUS
<1>1. ASSUME NEW p \in Peer, Bridged(p)
      PROVE  Next
  BY <1>1 DEF Bridged, Next
<1>2. ASSUME NEW p \in Peer, Unbridged(p)
      PROVE  Next
  BY <1>2 DEF Unbridged, Next
<1>3. ASSUME NEW p \in Daws, TakeEvent(p), ~UNCHANGED vars
      PROVE  Next
  <2>1. evs[p] \in Seq(Bpm) /\ evs[p] # <<>> /\ p \in Peer
    BY <1>3, DawAssumption DEF TakeEvent, BridgeTypes
  <2>2. Head(evs[p]) \in Bpm
    BY <2>1
  <2>3. PICK now \in Clock : TempoChanged(p, Head(evs[p]), now)
    BY <1>3 DEF TakeEvent
  <2> QED
    BY <2>1, <2>2, <2>3 DEF Next
<1>4. ASSUME NEW p \in Daws, SetTempo(p) \/ Poll(p) \/ \E b \in Bpm : Turn(p, b)
      PROVE  UNCHANGED vars
  BY <1>4 DEF SetTempo, Poll, Turn
<1>5. CASE UNCHANGED dawVars
  BY <1>5 DEF dawVars
<1> QED
  BY <1>1, <1>2, <1>3, <1>4, <1>5 DEF DawNext

\* The composition implements the room: all that is proved of Tempo holds beside
\* the Link bridges (link_types.go, link_real.go), whatever they filter, delay
\* or drop.
THEOREM DawIsTempo ==
  ASSUME MeansAreTempos
  PROVE  DawSpec => Spec /\ []BridgeTypes
<1>1. DawInit => Init /\ TypeOK /\ BridgeTypes
  BY TypeInit, BridgeInit DEF DawInit
<1>2. (TypeOK /\ BridgeTypes) /\ [DawNext]_dawVars => [Next]_vars /\ (TypeOK /\ BridgeTypes)'
  <2> SUFFICES ASSUME TypeOK, BridgeTypes, [DawNext]_dawVars
               PROVE  [Next]_vars /\ TypeOK' /\ BridgeTypes'
    OBVIOUS
  <2>1. ReportsAreTempos
    BY MeansReport DEF ReportsAreTempos, BridgeTypes
  <2>2. [Next]_vars /\ TypeOK'
    BY DawStep, TypeStep
  <2> QED BY <2>1, <2>2, BridgeStep
<1> QED
  BY <1>1, <1>2, PTL DEF DawSpec, Spec

\* Every variable of rooms with DAWs keeps its type: a bridge never has more readings,
\* reports or guarded polls than it may.
THEOREM DawTypeCorrect ==
  ASSUME MeansAreTempos
  PROVE  DawSpec => []DawTypeOK
<1>1. TypeOK /\ BridgeTypes => DawTypeOK
  <2> SUFFICES ASSUME TypeOK, BridgeTypes PROVE DawTypeOK
    OBVIOUS
  <2>1. ASSUME NEW p \in Daws
        PROVE  /\ det[p].last \in Nat /\ det[p].guard \in 0..Guard /\ det[p].held \in 0..Hold
               /\ det[p].samples \in UNION {[1..n -> Bpm] : n \in 0..Window}
    <3> DEFINE q == det[p].samples
    <3>1. /\ det[p].last \in Nat /\ det[p].guard \in 0..Guard /\ det[p].held \in 0..Hold
          /\ q \in Seq(Bpm) /\ Len(q) <= Window
      BY DEF BridgeTypes, Detector
    <3> HIDE DEF q
    <3>2. Len(q) \in 0..Window
      BY <3>1, DawAssumption
    <3>3. q \in [1..Len(q) -> Bpm]
      BY <3>1
    <3> QED BY <3>1, <3>2, <3>3 DEF q
  <2> QED BY <2>1 DEF BridgeTypes, DawTypeOK
<1> QED
  BY <1>1, DawIsTempo, TypeCorrect, PTL

\* So the members of a quiet room agree with the relay also while DAWs take part.
THEOREM BridgedRoomAgrees ==
  ASSUME ~Overlap, MeansAreTempos
  PROVE  DawSpec => []QuietRoomAgrees
  BY DawIsTempo, RoomAgrees, PTL

\* And a stamp names one tempo, whoever declared, WAIL or the DAW.
THEOREM BridgedStampsNameTempos ==
  ASSUME MeansAreTempos
  PROVE  DawSpec => []StampNamesOneTempo
  BY DawIsTempo, StampsNameTempos, PTL

\* Nor does a bridge make a session's stamp weaker.
THEOREM BridgedStampsGrow ==
  ASSUME MeansAreTempos
  PROVE  DawSpec => StampsOnlyGrow
  BY DawIsTempo, StampsGrow, PTL
-----------------------------------------------------------------------------
(* What a detector makes of a tempo that stays. *)

\* The first i readings are of tempo x, the others of b.
Old(q, x, b, i) ==
  /\ q \in Seq(Bpm) /\ Len(q) <= Window /\ i \in 0..Len(q)
  /\ \A k \in 1..Len(q) : q[k] = IF k <= i THEN x ELSE b

\* The mean c of h readings ago, when n0 were kept and i0 of them were old.
Lags(c, x, b, n, i, h) ==
  \E n0, i0 \in 0..Window :
    /\ c = [sum |-> x * i0 + b * (n0 - i0), of |-> n0]
    /\ i <= i0 /\ i0 <= n0 /\ n0 <= n
    /\ (n - n0) + (i0 - i) = h
    /\ Apart(c, Exactly(b), Bar(b))

\* The detector knows tempo b and nothing else.
Resting(d, b) ==
  /\ d.last = b /\ d.guard = 0 /\ d.candidate = NoCandidate /\ d.held = 0
  /\ Old(d.samples, b, b, 0)

\* It knows b, and its window has yet to pass what it read before.
Settling(d, b) ==
  /\ d.last = b
  /\ \E x \in Bpm, i \in 0..Window :
       /\ Old(d.samples, x, b, i)
       /\ \/ d.candidate = NoCandidate /\ d.held = 0
          \/ d.guard = 0 /\ i >= 1 /\ x # b
             /\ Lags(d.candidate, x, b, Len(d.samples), i, d.held)

\* It holds b down, after the tempo it knows.
Turning(d, b) ==
  /\ d.last \in Bpm /\ d.last # b /\ d.guard = 0
  /\ \E i \in 0..Window : Old(d.samples, d.last, b, i)
  /\ \/ d.candidate = NoCandidate /\ d.held = 0
     \/ d.candidate = Exactly(b)

LEMMA BarIsNat == \A b \in Nat : Bar(b) \in Nat
  BY DawAssumption DEF Bar

\* One more reading of b makes an old one fewer, or a new one more.
LEMMA ObservingOld ==
  ASSUME NEW q, NEW x \in Bpm, NEW b \in Bpm, NEW i \in 0..Window, Old(q, x, b, i)
  PROVE  \E j \in 0..i :
           /\ Old(Observing(q, b), x, b, j)
           /\ Observing(q, b) # <<>> /\ Len(q) <= Len(Observing(q, b))
           /\ j = 0 \/ (Len(Observing(q, b)) - Len(q)) + (i - j) = 1
<1> DEFINE n == Len(q)
           all == Append(q, b)
<1>1. /\ q \in Seq(Bpm) /\ n \in Nat /\ n <= Window /\ i \in 0..n
      /\ \A k \in 1..n : q[k] = IF k <= i THEN x ELSE b
  BY DEF Old
<1>2. /\ all \in Seq(Bpm) /\ Len(all) = n + 1 /\ all # <<>>
      /\ \A k \in 1..(n + 1) : all[k] = IF k <= n THEN q[k] ELSE b
  BY <1>1
<1>3. \A k \in 1..(n + 1) : all[k] = IF k <= i THEN x ELSE b
  BY <1>1, <1>2
<1>4. CASE n + 1 <= Window
  <2>1. Observing(q, b) = all
    BY <1>1, <1>2, <1>4, DawAssumption DEF Observing
  <2>2. Old(all, x, b, i)
    BY <1>1, <1>2, <1>3, <1>4 DEF Old
  <2> HIDE DEF all
  <2> QED BY <1>1, <1>2, <2>1, <2>2
<1>5. CASE ~(n + 1 <= Window)
  <2>0. Window \in Nat \ {0} /\ n = Window
    BY <1>1, <1>5, DawAssumption
  <2>1. Observing(q, b) = Tail(all)
    BY <1>1, <1>2, <1>5, DawAssumption DEF Observing
  <2>2. /\ Tail(all) \in Seq(Bpm) /\ Len(Tail(all)) = n
        /\ \A k \in 1..n : Tail(all)[k] = all[k + 1]
    BY <1>1, <1>2
  <2> DEFINE j == IF i = 0 THEN 0 ELSE i - 1
  <2>3. j \in 0..n /\ j \in 0..i /\ (j = 0 \/ i - j = 1)
    BY <1>1
  <2>4. \A k \in 1..n : Tail(all)[k] = IF k <= j THEN x ELSE b
    <3> TAKE k \in 1..n
    <3>1. k + 1 \in 1..(n + 1) /\ (k + 1 <= i <=> k <= j)
      BY <1>1
    <3>2. Tail(all)[k] = all[k + 1]
      BY <2>2
    <3> HIDE DEF all, j
    <3> QED BY <1>3, <3>1, <3>2
  <2>5. Tail(all) # <<>>
    BY <2>0, <2>2
  <2> HIDE DEF all, j
  <2>6. Old(Tail(all), x, b, j)
    BY <1>1, <2>2, <2>3, <2>4 DEF Old
  <2>7. Len(Observing(q, b)) = Len(q) /\ Observing(q, b) # <<>> /\ Old(Observing(q, b), x, b, j)
    BY <2>1, <2>2, <2>5, <2>6
  <2>8. (n - n) + (i - j) = i - j
    BY <1>1, <2>3
  <2> QED BY <1>1, <2>3, <2>7, <2>8
<1> QED BY <1>4, <1>5

\* The mean of a window with two tempos.
LEMMA MeanOfTwo ==
  ASSUME NEW q, NEW x \in Bpm, NEW b \in Bpm, NEW i \in 0..Window, Old(q, x, b, i)
  PROVE  /\ Len(q) \in 0..Window /\ i \in 0..Len(q)
         /\ Mean(q) = [sum |-> x * i + b * (Len(q) - i), of |-> Len(q)]
<1>1. /\ q \in Seq(Bpm) /\ Len(q) \in Nat /\ Len(q) <= Window /\ i \in 0..Len(q)
      /\ \A k \in 1..Len(q) : q[k] = IF k <= i THEN x ELSE b
      /\ DOMAIN q = 1..Len(q)
  BY DEF Old
<1>2. x \in Int /\ b \in Int
  BY TempoAssumption
<1>3. FoldSeq(+, 0, q) = x * i + b * (Len(q) - i)
  BY <1>1, <1>2, SumOfTwo
<1>4. Len(q) \in 0..Window
  BY <1>1, DawAssumption
<1>5. Mean(q) = [sum |-> x * i + b * (Len(q) - i), of |-> Len(q)]
  BY <1>3 DEF Mean
<1> QED BY <1>1, <1>4, <1>5

LEMMA Products ==
  /\ \A u, v, w \in Int : u * (v + w) = u * v + u * w /\ u * (v - w) = u * v - u * w
  /\ \A u, v \in Int : u * v \in Int /\ u * v = v * u
  /\ \A u, v \in Nat : u * v \in Nat
  /\ \A u, v \in Int, w \in Nat : u <= v => u * w <= v * w
  /\ \A u, v, w \in Int : (u * v) * w = u * (v * w)
  OBVIOUS

LEMMA AbsOfProduct ==
  ASSUME NEW u \in Int, NEW v \in Nat
  PROVE  Abs(u * v) = Abs(u) * v /\ Abs(u) \in Nat
<1>1. CASE u >= 0
  <2>1. u * v >= 0
    BY <1>1
  <2> QED BY <1>1, <2>1 DEF Abs
<1>2. CASE u < 0
  <2>1. u * v <= 0 /\ (-u) * v = -(u * v)
    BY <1>2
  <2>2. Abs(u * v) = -(u * v)
    BY <2>1 DEF Abs
  <2> QED BY <1>2, <2>1, <2>2 DEF Abs
<1> QED BY <1>1, <1>2

\* A mean is as far from the tempo to come as its old readings make it.
LEMMA MeanApart ==
  ASSUME NEW x \in Nat, NEW b \in Nat, NEW n \in Nat, NEW i \in 0..n, NEW r \in Nat
  PROVE  Apart([sum |-> x * i + b * (n - i), of |-> n], Exactly(b), r)
           <=> Abs(x - b) * i > r * n
<1>1. x * i + b * (n - i) - b * n = (x - b) * i
  OBVIOUS
<1>2. (x * i + b * (n - i)) * 1 - b * n = x * i + b * (n - i) - b * n /\ r * n * 1 = r * n
  OBVIOUS
<1>3. Abs((x - b) * i) = Abs(x - b) * i
  BY AbsOfProduct
<1>4. Apart([sum |-> x * i + b * (n - i), of |-> n], Exactly(b), r)
        <=> Abs((x * i + b * (n - i)) * 1 - b * n) > r * n * 1
  BY DEF Apart, Exactly
<1> QED BY <1>1, <1>2, <1>3, <1>4

\* What the mean of a window moves while h of its readings are replaced is more than the
\* band, for a hold-down that is long enough.
LEMMA MeanMoves ==
  ASSUME NEW x \in Nat, NEW b \in Nat, NEW n \in Nat, NEW n0 \in Nat, NEW i \in Nat, NEW i0 \in Nat,
         i <= i0, i0 <= n0, n0 <= n, n <= Window,
         NEW r \in Nat, Abs(x - b) * i0 > r * n0,
         Band * Window <= Hold * r,
         Hold <= (n - n0) + (i0 - i)
  PROVE  Apart([sum |-> x * i + b * (n - i), of |-> n],
               [sum |-> x * i0 + b * (n0 - i0), of |-> n0], Band)
<1> DEFINE D == Abs(x - b)
           h == (n - n0) + (i0 - i)
           g == i0 * n - i * n0
<1>0. Hold \in Nat \ {0} /\ Window \in Nat /\ Band \in Nat /\ D \in Nat /\ h \in Nat
  <2>1. D = Abs((x - b) * 1) /\ Abs(x - b) \in Nat
    BY AbsOfProduct
  <2> QED BY <2>1, DawAssumption
<1>1. (x * i + b * (n - i)) * n0 - (x * i0 + b * (n0 - i0)) * n = (b - x) * g
  <2>1. (x * i + b * (n - i)) = (x - b) * i + b * n
    OBVIOUS
  <2>2. (x * i0 + b * (n0 - i0)) = (x - b) * i0 + b * n0
    OBVIOUS
  <2>3. \A a, c \in Int : (a * i + c * n) * n0 - (a * i0 + c * n0) * n = (-a) * (i0 * n - i * n0)
    OBVIOUS
  <2>4. x - b \in Int /\ b \in Int /\ -(x - b) = b - x
    OBVIOUS
  <2> QED BY <2>1, <2>2, <2>3, <2>4
<1>2. g = i0 * (n - n0) + n0 * (i0 - i)
  OBVIOUS
<1>3. g >= i0 * h /\ g \in Nat
  <2>1. i0 * (i0 - i) <= n0 * (i0 - i)
    BY Products
  <2>2. i0 * h = i0 * (n - n0) + i0 * (i0 - i)
    BY Products
  <2>3. i0 * h \in Nat /\ g \in Int
    BY <1>0
  <2>4. i0 * (n - n0) \in Int /\ i0 * (i0 - i) \in Int /\ n0 * (i0 - i) \in Int
    OBVIOUS
  <2> HIDE DEF g, h
  <2> QED BY <1>2, <2>1, <2>2, <2>3, <2>4
<1>4. Abs((b - x) * g) = D * g
  <2>1. Abs((b - x) * g) = Abs(b - x) * g
    BY <1>3, AbsOfProduct
  <2>2. Abs(b - x) = D
    BY DEF Abs
  <2> QED BY <2>1, <2>2
<1>5. D * g > Band * n * n0
  <2> HIDE DEF D, g, h
  <2> USE <1>0, <1>3
  <2>1. D * (i0 * h) <= D * g
    <3>1. \A u, v, w \in Nat : u <= v => w * u <= w * v
      OBVIOUS
    <3>2. i0 * h \in Nat
      OBVIOUS
    <3> QED BY <3>1, <3>2
  <2>2. D * (i0 * h) = (D * i0) * h
    OBVIOUS
  <2>3. (D * i0) * h > (r * n0) * h
    <3>1. D * i0 > r * n0 /\ D * i0 \in Nat /\ r * n0 \in Nat /\ h >= 1
      BY DEF D, h
    <3>2. \A u, v \in Nat, w \in Nat : u > v /\ w >= 1 => u * w > v * w
      OBVIOUS
    <3> QED BY <3>1, <3>2
  <2>4. (r * n0) * h >= (r * n0) * Hold
    <3>1. h >= Hold /\ r * n0 \in Nat
      BY DEF h
    <3>2. \A u, v, w \in Nat : u >= v => w * u >= w * v
      OBVIOUS
    <3> QED BY <3>1, <3>2
  <2>5. (r * n0) * Hold = (Hold * r) * n0
    OBVIOUS
  <2>6. (Hold * r) * n0 >= (Band * Window) * n0
    <3>1. Hold * r \in Nat /\ Band * Window \in Nat
      OBVIOUS
    <3>2. \A u, v, w \in Nat : u >= v => u * w >= v * w
      OBVIOUS
    <3> QED BY <3>1, <3>2
  <2>7. (Band * Window) * n0 >= (Band * n) * n0
    <3>1. Band * Window >= Band * n /\ Band * Window \in Nat /\ Band * n \in Nat
      OBVIOUS
    <3>2. \A u, v, w \in Nat : u >= v => u * w >= v * w
      OBVIOUS
    <3> QED BY <3>1, <3>2
  <2>8. /\ D * g \in Int /\ D * (i0 * h) \in Int /\ (D * i0) * h \in Int /\ (r * n0) * h \in Int
        /\ (r * n0) * Hold \in Int /\ (Hold * r) * n0 \in Int /\ (Band * Window) * n0 \in Int
        /\ (Band * n) * n0 \in Int
    OBVIOUS
  <2> QED BY <2>1, <2>2, <2>3, <2>4, <2>5, <2>6, <2>7, <2>8
<1> HIDE DEF D, g
<1> QED BY <1>1, <1>4, <1>5 DEF Apart

\* What one reading does to a detector, case by case.
LEMMA CheckedCases ==
  ASSUME NEW d, NEW b, Detector(d, d.candidate), b \in Nat
  PROVE  LET q    == Observing(d.samples, b)
             seen == Judged(d, q, b)
             r    == Checked(d, b)
             far  == Apart(seen, Exactly(d.last), Bar(d.last))
             new  == d.candidate = NoCandidate \/ Apart(seen, d.candidate, Band)
         IN  /\ r.det.samples = q
             /\ d.guard > 0 =>
                  /\ r.report = 0 /\ r.det.last = d.last
                  /\ r.det.candidate = d.candidate /\ r.det.held = d.held
             /\ d.guard = 0 => r.det.guard = 0
             /\ d.guard = 0 /\ ~far =>
                  /\ r.report = 0 /\ r.det.last = d.last
                  /\ r.det.candidate = NoCandidate /\ r.det.held = 0
             /\ d.guard = 0 /\ far /\ new =>
                  /\ r.report = 0 /\ r.det.last = d.last
                  /\ r.det.candidate = seen /\ r.det.held = 0
             /\ d.guard = 0 /\ far /\ ~new /\ d.held + 1 < Hold =>
                  /\ r.report = 0 /\ r.det.last = d.last
                  /\ r.det.candidate = d.candidate /\ r.det.held = d.held + 1
             /\ d.guard = 0 /\ far /\ ~new /\ ~(d.held + 1 < Hold) =>
                  /\ r.report = Snapped(seen) /\ r.det.last = Snapped(seen)
                  /\ r.det.candidate = NoCandidate /\ r.det.held = 0
<1> DEFINE q    == Observing(d.samples, b)
           seen == Judged(d, q, b)
           calm == [d EXCEPT !.samples = q, !.candidate = NoCandidate, !.held = 0]
           far  == Apart(seen, Exactly(d.last), Bar(d.last))
           new  == d.candidate = NoCandidate \/ Apart(seen, d.candidate, Band)
           r    == Checked(d, b)
<1>1. d = [last |-> d.last, guard |-> d.guard, samples |-> d.samples,
           candidate |-> d.candidate, held |-> d.held] /\ d.guard \in Nat
  BY DawAssumption DEF Detector
<1>2. CASE d.guard > 0
  <2>1. r = [det |-> [d EXCEPT !.samples = q, !.guard = @ - 1], report |-> 0] /\ d.guard # 0
    BY <1>1, <1>2 DEF Checked
  <2> HIDE DEF q, seen, r, far, new
  <2>2. /\ r.det.samples = q /\ r.report = 0 /\ r.det.last = d.last
        /\ r.det.candidate = d.candidate /\ r.det.held = d.held
    BY <1>1, <2>1
  <2> QED BY <1>2, <2>1, <2>2 DEF far, new, r, q, seen
<1>3. CASE d.guard = 0 /\ ~far
  <2>1. r = [det |-> calm, report |-> 0]
    BY <1>3 DEF Checked
  <2> HIDE DEF q, seen, r, far, new
  <2>2. /\ r.det.samples = q /\ r.report = 0 /\ r.det.last = d.last /\ r.det.guard = d.guard
        /\ r.det.candidate = NoCandidate /\ r.det.held = 0
    BY <1>1, <2>1
  <2> QED BY <1>3, <2>2 DEF far, new, r, q, seen
<1>4. CASE d.guard = 0 /\ far /\ new
  <2>1. r = [det |-> [calm EXCEPT !.candidate = seen], report |-> 0]
    BY <1>4 DEF Checked
  <2> HIDE DEF q, seen, r, far, new
  <2>2. /\ r.det.samples = q /\ r.report = 0 /\ r.det.last = d.last /\ r.det.guard = d.guard
        /\ r.det.candidate = seen /\ r.det.held = 0
    BY <1>1, <2>1
  <2> QED BY <1>4, <2>2 DEF far, new, r, q, seen
<1>5. CASE d.guard = 0 /\ far /\ ~new
  <2>1. r = IF d.held + 1 < Hold
            THEN [det |-> [d EXCEPT !.samples = q, !.held = @ + 1], report |-> 0]
            ELSE [det |-> [calm EXCEPT !.last = Snapped(seen)], report |-> Snapped(seen)]
    BY <1>5 DEF Checked
  <2>2. CASE d.held + 1 < Hold
    <3>1. r = [det |-> [d EXCEPT !.samples = q, !.held = @ + 1], report |-> 0]
      BY <2>1, <2>2
    <3> HIDE DEF q, seen, r, far, new
    <3>2. /\ r.det.samples = q /\ r.report = 0 /\ r.det.last = d.last /\ r.det.guard = d.guard
          /\ r.det.candidate = d.candidate /\ r.det.held = d.held + 1
      BY <1>1, <3>1
    <3> QED BY <1>1, <1>5, <2>2, <3>2 DEF far, new, r, q, seen
  <2>3. CASE ~(d.held + 1 < Hold)
    <3>1. r = [det |-> [calm EXCEPT !.last = Snapped(seen)], report |-> Snapped(seen)]
      BY <2>1, <2>3
    <3> HIDE DEF q, seen, r, far, new
    <3>2. /\ r.det.samples = q /\ r.report = Snapped(seen) /\ r.det.last = Snapped(seen)
          /\ r.det.guard = d.guard /\ r.det.candidate = NoCandidate /\ r.det.held = 0
      BY <1>1, <3>1
    <3> QED BY <1>1, <1>5, <2>3, <3>2 DEF far, new, r, q, seen
  <2> QED BY <2>2, <2>3
<1> QED BY <1>1, <1>2, <1>3, <1>4, <1>5

\* Where the room's tempo is the known one, a reading of it is judged on the mean.
LEMMA JudgedOnMean ==
  ASSUME NEW d, NEW q, NEW b \in Nat, d.last = b
  PROVE  Judged(d, q, b) = Mean(q)
<1>1. Abs(b - d.last) <= Regime
  BY DawAssumption DEF Abs
<1> QED BY <1>1 DEF Judged

\* At rest the detector stays at rest and reports nothing.
LEMMA RestingGoesOn ==
  ASSUME NEW b \in Bpm, NEW d, Detector(d, d.candidate), Resting(d, b)
  PROVE  Checked(d, b).report = 0 /\ Resting(Checked(d, b).det, b)
<1> DEFINE q == Observing(d.samples, b)
           r == Checked(d, b)
<1>1. b \in Nat /\ 0 \in 0..Window
  BY TempoAssumption, DawAssumption
<1>2. Old(q, b, b, 0)
  <2>1. Old(d.samples, b, b, 0)
    BY DEF Resting
  <2>2. PICK j \in 0..0 : Old(q, b, b, j)
    BY <1>1, <2>1, ObservingOld
  <2> QED BY <2>2
<1>3. Judged(d, q, b) = Mean(q)
  BY <1>1, JudgedOnMean DEF Resting
<1>4. ~Apart(Mean(q), Exactly(b), Bar(b))
  <2>1. Mean(q) = [sum |-> b * 0 + b * (Len(q) - 0), of |-> Len(q)] /\ Len(q) \in Nat
    BY <1>1, <1>2, MeanOfTwo
  <2>2. 0 \in 0..Len(q) /\ Bar(b) \in Nat
    BY <1>1, <2>1, BarIsNat
  <2>3. Apart(Mean(q), Exactly(b), Bar(b)) <=> Abs(b - b) * 0 > Bar(b) * Len(q)
    BY <1>1, <2>1, <2>2, MeanApart
  <2>4. Abs(b - b) * 0 = 0 /\ Bar(b) * Len(q) \in Nat
    <3>1. Abs(b - b) \in Nat
      BY <1>1 DEF Abs
    <3> QED BY <2>1, <2>2, <3>1
  <2>5. ~(Abs(b - b) * 0 > Bar(b) * Len(q))
    BY <2>4
  <2> QED BY <2>3, <2>5
<1>5. /\ r.report = 0 /\ r.det.samples = q /\ r.det.guard = 0 /\ r.det.last = b
      /\ r.det.candidate = NoCandidate /\ r.det.held = 0
  <2> HIDE DEF r
  <2>1. d.guard = 0 /\ d.last = b
    BY DEF Resting
  <2> QED BY <1>1, <1>3, <1>4, <2>1, CheckedCases DEF r
<1> HIDE DEF q, r
<1> QED BY <1>2, <1>5 DEF Resting, r

\* While the window has yet to pass the detector reports nothing: its mean moves on
\* before it has held down any value.
LEMMA SettlingGoesOn ==
  ASSUME Tuned, NEW b \in Bpm, NEW d, Detector(d, d.candidate), Settling(d, b)
  PROVE  Checked(d, b).report = 0 /\ Settling(Checked(d, b).det, b)
<1> DEFINE q == Observing(d.samples, b)
           r == Checked(d, b)
           n == Len(q)
<1>1. b \in Nat /\ d.last = b /\ Window \in Nat /\ Hold \in Nat \ {0} /\ Bar(b) \in Nat
  BY TempoAssumption, DawAssumption, BarIsNat DEF Settling
<1>2. PICK x \in Bpm, i \in 0..Window :
        /\ Old(d.samples, x, b, i)
        /\ \/ d.candidate = NoCandidate /\ d.held = 0
           \/ d.guard = 0 /\ i >= 1 /\ x # b
              /\ Lags(d.candidate, x, b, Len(d.samples), i, d.held)
  BY DEF Settling
<1>3. PICK j \in 0..i :
        /\ Old(q, x, b, j)
        /\ Len(d.samples) <= n
        /\ j = 0 \/ (n - Len(d.samples)) + (i - j) = 1
  <2>1. Old(d.samples, x, b, i)
    BY <1>2
  <2> QED BY <2>1, ObservingOld, Zenon
<1>4. /\ j \in 0..Window /\ x \in Nat /\ n \in 0..Window /\ j \in 0..n
      /\ Mean(q) = [sum |-> x * j + b * (n - j), of |-> n]
  <2>1. j \in 0..Window /\ x \in Nat
    BY <1>1, TempoAssumption
  <2> HIDE DEF q
  <2> QED BY <1>3, <2>1, MeanOfTwo
<1>5. Judged(d, q, b) = Mean(q)
  BY <1>1, JudgedOnMean
<1> DEFINE far == Apart(Mean(q), Exactly(b), Bar(b))
           new == d.candidate = NoCandidate \/ Apart(Mean(q), d.candidate, Band)
<1>6. /\ r.det.samples = q
      /\ d.guard > 0 =>
           /\ r.report = 0 /\ r.det.last = b
           /\ r.det.candidate = d.candidate /\ r.det.held = d.held
      /\ d.guard = 0 => r.det.guard = 0
      /\ d.guard = 0 /\ ~far =>
           /\ r.report = 0 /\ r.det.last = b
           /\ r.det.candidate = NoCandidate /\ r.det.held = 0
      /\ d.guard = 0 /\ far /\ new =>
           /\ r.report = 0 /\ r.det.last = b
           /\ r.det.candidate = Mean(q) /\ r.det.held = 0
      /\ d.guard = 0 /\ far /\ ~new /\ d.held + 1 < Hold =>
           /\ r.report = 0 /\ r.det.last = b
           /\ r.det.candidate = d.candidate /\ r.det.held = d.held + 1
  <2> HIDE DEF q, r
  <2> QED BY <1>1, <1>5, CheckedCases DEF q, r
<1> HIDE DEF q, r, n
<1>7. far => j >= 1 /\ x # b /\ Abs(x - b) * j > Bar(b) * n
  <2>1. far => Abs(x - b) * j > Bar(b) * n
    <3>1. n \in Nat
      BY <1>1, <1>4
    <3>2. Apart([sum |-> x * j + b * (n - j), of |-> n], Exactly(b), Bar(b))
            <=> Abs(x - b) * j > Bar(b) * n
      BY <1>1, <1>4, <3>1, MeanApart
    <3> QED BY <1>4, <3>2
  <2>2. j = 0 \/ x = b => Abs(x - b) * j = 0
    BY <1>1, <1>4 DEF Abs
  <2>3. Bar(b) * n \in Nat
    BY <1>1, <1>4
  <2>4. j = 0 \/ x = b => ~(Abs(x - b) * j > Bar(b) * n)
    BY <2>2, <2>3
  <2>5. j \in Nat
    BY <1>1, <1>4
  <2> QED BY <2>1, <2>4, <2>5
<1>8. CASE d.guard > 0
  <2>1. d.candidate = NoCandidate /\ d.held = 0
    BY <1>2, <1>8
  <2> QED BY <1>3, <1>4, <1>6, <1>8, <2>1 DEF Settling, r
<1>9. CASE d.guard = 0 /\ ~far
  BY <1>3, <1>4, <1>6, <1>9 DEF Settling, r
<1>10. CASE d.guard = 0 /\ far /\ new
  <2>1. Lags(Mean(q), x, b, n, j, 0)
    <3>1. (n - n) + (j - j) = 0 /\ j <= j /\ j <= n /\ n <= n
      BY <1>4
    <3> QED BY <1>4, <1>10, <3>1 DEF Lags
  <2>2. Settling(r.det, b)
    BY <1>3, <1>4, <1>6, <1>7, <1>10, <2>1 DEF Settling, n
  <2> QED BY <1>6, <1>10, <2>2 DEF r
<1>11. CASE d.guard = 0 /\ far /\ ~new
  <2>1. PICK n0 \in 0..Window, i0 \in 0..Window :
          /\ d.candidate = [sum |-> x * i0 + b * (n0 - i0), of |-> n0]
          /\ i <= i0 /\ i0 <= n0 /\ n0 <= Len(d.samples)
          /\ (Len(d.samples) - n0) + (i0 - i) = d.held
          /\ Apart(d.candidate, Exactly(b), Bar(b))
    BY <1>2, <1>11 DEF Lags
  <2>2. Len(d.samples) \in Nat /\ d.held \in Nat
    BY DEF Detector
  <2>3. /\ j <= i0 /\ n0 <= n /\ (n - n0) + (i0 - j) = d.held + 1
    <3>1. (n - Len(d.samples)) + (i - j) = 1
      BY <1>3, <1>7, <1>11
    <3> DEFINE m == Len(d.samples)
    <3>2. i \in Nat /\ j \in Nat /\ j <= i /\ n0 \in Nat /\ i0 \in Nat /\ n \in Nat /\ m \in Nat
      BY <1>1, <1>3, <1>4, <2>1, <2>2
    <3>3. m <= n /\ i <= i0 /\ n0 <= m /\ (m - n0) + (i0 - i) = d.held /\ (n - m) + (i - j) = 1
      BY <1>3, <2>1, <3>1
    <3> HIDE DEF m
    <3> QED BY <2>2, <3>2, <3>3
  <2>4. d.held + 1 < Hold
    <3> SUFFICES ASSUME Hold <= d.held + 1 PROVE FALSE
      BY <1>1, <2>2
    <3>1. Abs(x - b) * i0 > Bar(b) * n0
      <4>1. n0 \in Nat /\ i0 \in 0..n0
        BY <1>1, <2>1
      <4> QED BY <1>1, <1>4, <2>1, <4>1, MeanApart
    <3>2. Band * Window <= Hold * Bar(b)
      BY DEF Tuned
    <3>3. Hold <= (n - n0) + (i0 - j) /\ n <= Window
      BY <1>4, <2>3
    <3>4. j \in Nat /\ i0 \in Nat /\ n \in Nat /\ n0 \in Nat
      BY <1>1, <1>4, <2>1
    <3>5. Apart([sum |-> x * j + b * (n - j), of |-> n],
                [sum |-> x * i0 + b * (n0 - i0), of |-> n0], Band)
      BY <1>1, <1>4, <2>1, <2>3, <3>1, <3>2, <3>3, <3>4, MeanMoves
    <3> QED BY <1>4, <1>11, <2>1, <3>5
  <2>5. Lags(d.candidate, x, b, n, j, d.held + 1)
    BY <2>1, <2>3 DEF Lags
  <2>6. Settling(r.det, b)
    BY <1>3, <1>4, <1>6, <1>7, <1>11, <2>4, <2>5 DEF Settling, n
  <2> QED BY <1>6, <1>11, <2>4, <2>6 DEF r
<1>12. d.guard > 0 \/ d.guard = 0
  BY DawAssumption DEF Detector
<1> QED BY <1>8, <1>9, <1>10, <1>11, <1>12

\* A turned tempo is held down, then reported as it is, and the detector knows it.
LEMMA TurningGoesOn ==
  ASSUME Tuned, NEW b \in Bpm, NEW d, Detector(d, d.candidate), Turning(d, b)
  PROVE  LET r == Checked(d, b)
         IN  \/ r.report = 0 /\ r.det.last = d.last /\ Turning(r.det, b)
                /\ r.det.candidate # NoCandidate
             \/ r.report = b /\ Settling(r.det, b)
<1> DEFINE q == Observing(d.samples, b)
           r == Checked(d, b)
           x == d.last
<1>1. b \in Nat /\ x \in Bpm /\ x \in Nat /\ x # b /\ d.guard = 0 /\ Bar(x) \in Nat
  BY TempoAssumption, BarIsNat DEF Turning
<1>2. Abs(x - b) > Regime /\ Abs(x - b) > Bar(x) /\ Abs(b - x) = Abs(x - b) /\ Abs(x - b) \in Nat
  BY <1>1 DEF Tuned, Abs
<1>3. Judged(d, q, b) = Exactly(b)
  BY <1>1, <1>2, DawAssumption DEF Judged
<1>4. Apart(Exactly(b), Exactly(x), Bar(x))
  <2>1. Abs(b * 1 - x * 1) > Bar(x) * 1 * 1
    BY <1>1, <1>2
  <2> QED BY <2>1 DEF Apart, Exactly
<1>5. ~Apart(Exactly(b), Exactly(b), Band)
  <2>1. Abs(b * 1 - b * 1) = 0 /\ Band * 1 * 1 \in Nat
    BY <1>1, DawAssumption DEF Abs
  <2>2. ~(Abs(b * 1 - b * 1) > Band * 1 * 1)
    BY <2>1
  <2> QED BY <2>2 DEF Apart, Exactly
<1>6. PICK j \in 0..Window : Old(q, x, b, j)
  <2>1. PICK i \in 0..Window : Old(d.samples, x, b, i)
    BY DEF Turning
  <2>2. PICK j \in 0..i : Old(q, x, b, j)
    BY <1>1, <2>1, ObservingOld, Zenon
  <2>3. j \in 0..Window
    BY DawAssumption
  <2> QED BY <2>2, <2>3
<1>7. Exactly(b) # NoCandidate
  BY DEF Exactly, NoCandidate
<1>8. Snapped(Exactly(b)) = b
  BY DEF Tuned
<1> DEFINE far == Apart(Exactly(b), Exactly(x), Bar(x))
           new == d.candidate = NoCandidate \/ Apart(Exactly(b), d.candidate, Band)
<1>9. /\ r.det.samples = q /\ r.det.guard = 0
      /\ far /\ new =>
           /\ r.report = 0 /\ r.det.last = x
           /\ r.det.candidate = Exactly(b) /\ r.det.held = 0
      /\ far /\ ~new /\ d.held + 1 < Hold =>
           /\ r.report = 0 /\ r.det.last = x
           /\ r.det.candidate = d.candidate /\ r.det.held = d.held + 1
      /\ far /\ ~new /\ ~(d.held + 1 < Hold) =>
           /\ r.report = Snapped(Exactly(b)) /\ r.det.last = Snapped(Exactly(b))
           /\ r.det.candidate = NoCandidate /\ r.det.held = 0
  <2> HIDE DEF q, r
  <2> QED BY <1>1, <1>3, CheckedCases DEF q, r
<1> HIDE DEF q, r
<1>10. CASE r.report = 0 /\ r.det.last = x /\ r.det.candidate = Exactly(b)
  BY <1>1, <1>6, <1>7, <1>9, <1>10 DEF Turning, r
<1>11. CASE r.report = b /\ r.det.last = b /\ r.det.candidate = NoCandidate /\ r.det.held = 0
  BY <1>1, <1>6, <1>9, <1>11 DEF Settling, r
<1>12. d.candidate = NoCandidate \/ d.candidate = Exactly(b)
  BY DEF Turning
<1> QED BY <1>4, <1>5, <1>8, <1>9, <1>10, <1>11, <1>12

\* A window that has passed and a guard that is over leave the detector at rest.
LEMMA SettledRests ==
  ASSUME NEW b \in Bpm, NEW d, Settling(d, b),
         d.guard = 0, d.samples # <<>>, ToSet(d.samples) = {b}
  PROVE  Resting(d, b)
<1>1. PICK x \in Bpm, i \in 0..Window :
        /\ Old(d.samples, x, b, i)
        /\ \/ d.candidate = NoCandidate /\ d.held = 0
           \/ d.guard = 0 /\ i >= 1 /\ x # b
              /\ Lags(d.candidate, x, b, Len(d.samples), i, d.held)
  BY DEF Settling
<1>2. /\ d.samples \in Seq(Bpm) /\ Len(d.samples) \in Nat /\ Len(d.samples) <= Window
      /\ i \in 0..Len(d.samples)
      /\ \A k \in 1..Len(d.samples) : d.samples[k] = IF k <= i THEN x ELSE b
  BY <1>1 DEF Old
<1>3. \A k \in 1..Len(d.samples) : d.samples[k] = b
  <2>1. DOMAIN d.samples = 1..Len(d.samples)
    BY <1>2
  <2>2. {d.samples[k] : k \in 1..Len(d.samples)} = {b}
    BY <2>1 DEF ToSet
  <2> QED BY <2>2
<1>4. i >= 1 => x = b
  <2> SUFFICES ASSUME i >= 1 PROVE x = b
    OBVIOUS
  <2>1. 1 \in 1..Len(d.samples) /\ 1 <= i
    BY <1>2
  <2> QED BY <1>2, <1>3, <2>1
<1>5. Old(d.samples, b, b, 0)
  BY <1>2, <1>3 DEF Old
<1> QED BY <1>1, <1>4, <1>5 DEF Resting, Settling

\* What settles after a write: the window holds what was read before it.
LEMMA WriteSettles ==
  ASSUME NEW x \in Bpm, NEW b \in Bpm, NEW d, NEW e, Resting(d, x),
         e.last = b, e.samples = d.samples, e.candidate = NoCandidate, e.held = 0
  PROVE  Settling(e, b)
<1> DEFINE n == Len(d.samples)
<1>1. /\ d.samples \in Seq(Bpm) /\ n \in Nat /\ n <= Window
      /\ \A k \in 1..n : d.samples[k] = x
  BY DEF Resting, Old
<1>2. n \in 0..Window /\ n \in 0..n
  BY <1>1, DawAssumption
<1>3. Old(d.samples, x, b, n)
  BY <1>1, <1>2 DEF Old
<1> QED BY <1>2, <1>3 DEF Settling

\* And what a musician's turn leaves.
LEMMA TurnTurns ==
  ASSUME NEW x \in Bpm, NEW b \in Bpm, x # b, NEW d, Resting(d, x)
  PROVE  Turning(d, b) /\ d.last = x
<1> DEFINE n == Len(d.samples)
<1>1. /\ d.samples \in Seq(Bpm) /\ n \in Nat /\ n <= Window
      /\ \A k \in 1..n : d.samples[k] = x
  BY DEF Resting, Old
<1>2. n \in 0..Window /\ n \in 0..n
  BY <1>1, DawAssumption
<1>3. Old(d.samples, x, b, n)
  BY <1>1, <1>2 DEF Old
<1> QED BY <1>2, <1>3 DEF Turning, Resting

LEMMA RestingSettles ==
  ASSUME NEW b \in Bpm, NEW d, Resting(d, b)
  PROVE  Settling(d, b)
<1>1. 0 \in 0..Window
  BY DawAssumption
<1> QED BY <1>1 DEF Resting, Settling

\* Tempos that are whole BPM snap to themselves.
LEMMA WholeTemposSnap ==
  ASSUME NEW k \in Nat, NEW b, b = k * Whole, b # 0
  PROVE  Snapped(Exactly(b)) = b
<1>1. Whole \in Nat \ {0} /\ Snap \in Nat /\ b \in Nat
  BY DawAssumption
<1>2. Nearest(Exactly(b)) = b
  <2>1. (2 * b + Whole * 1) = (2 * Whole) * k + Whole
    BY <1>1
  <2>2. ((2 * Whole) * k + Whole) \div (2 * Whole * 1) = k
    <3>1. \A w \in Nat \ {0}, v \in Nat : (2 * w * v + w) \div (2 * w) = v
      OBVIOUS
    <3> QED BY <1>1, <3>1
  <2> QED BY <1>1, <2>1, <2>2 DEF Nearest, Exactly
<1>3. ~Apart(Exactly(b), Exactly(b), Snap)
  <2>1. Abs(b * 1 - b * 1) = 0 /\ Snap * 1 * 1 \in Nat
    BY <1>1 DEF Abs
  <2>2. ~(Abs(b * 1 - b * 1) > Snap * 1 * 1)
    BY <2>1
  <2> QED BY <2>2 DEF Apart, Exactly
<1> QED BY <1>2, <1>3 DEF Snapped

\* Whole BPM are tempos such as the theorems below take, where the detector's regime and its
\* reporting bars (tempoMeanRegime, SlewAuthorityBPM, tempoReportFloor) lie below one BPM and
\* the hold-down (tempoHoldDown) outlasts the mean.
THEOREM WholeTemposAreTuned ==
  ASSUME \A b \in Bpm : /\ \E k \in Nat : b = k * Whole
                        /\ Bar(b) < Whole /\ Band * Window <= Hold * Bar(b),
         Regime < Whole, 1 < Whole
  PROVE  Tuned
<1>0. Whole \in Nat /\ Regime \in Nat /\ Bpm \subseteq Nat \ {0} /\ \A b \in Nat : Bar(b) \in Nat
  BY DawAssumption, TempoAssumption, BarIsNat
<1>1. ASSUME NEW b \in Bpm PROVE Snapped(Exactly(b)) = b
  <2>1. PICK k \in Nat : b = k * Whole
    BY <1>1
  <2>2. b # 0
    BY <1>0
  <2> QED BY <2>1, <2>2, WholeTemposSnap
<1>2. ASSUME NEW a \in Bpm, NEW b \in Bpm, a # b PROVE Abs(a - b) >= Whole /\ Abs(a - b) \in Nat
  <2>1. PICK j \in Nat : a = j * Whole
    BY <1>2
  <2>2. PICK k \in Nat : b = k * Whole
    BY <1>2
  <2>3. a - b = (j - k) * Whole /\ j - k \in Int
    BY <1>0, <2>1, <2>2
  <2>4. Abs(a - b) = Abs(j - k) * Whole /\ Abs(j - k) \in Nat
    BY <1>0, <2>3, AbsOfProduct
  <2>5. Abs(j - k) >= 1
    <3>1. j # k
      BY <1>2, <2>1, <2>2
    <3> QED BY <3>1 DEF Abs
  <2>6. \A n \in Nat : n >= 1 => n * Whole >= Whole /\ n * Whole \in Nat
    BY <1>0
  <2> QED BY <2>4, <2>5, <2>6
<1>3. ASSUME NEW a \in Bpm, NEW b \in Bpm, a # b
      PROVE  Abs(a - b) > 1 /\ Abs(a - b) > Regime /\ Abs(a - b) > Bar(a)
  <2>1. Bar(a) \in Nat /\ Bar(a) < Whole
    BY <1>0
  <2> QED BY <1>0, <1>2, <1>3, <2>1
<1> QED BY <1>1, <1>3 DEF Tuned

-----------------------------------------------------------------------------
(* Each DAW follows its session. *)

Idle(p) == cmds[p] = <<>> /\ evs[p] = <<>>

\* DAW and session are at one tempo and the detector knows it.
AtRest(p)   == Idle(p) /\ daw[p] = bpm[p] /\ Resting(det[p], daw[p])
\* The session's tempo is with the poller.
Ordered(p)  == cmds[p] = <<bpm[p]>> /\ evs[p] = <<>> /\ Resting(det[p], daw[p])
\* The DAW has it.
Written(p)  == Idle(p) /\ daw[p] = bpm[p] /\ Settling(det[p], daw[p])
\* The DAW's tempo was turned, and is with the detector.
Turned(p)   == /\ Idle(p) /\ mine[p] /\ daw[p] # bpm[p]
               /\ det[p].last = bpm[p] /\ Turning(det[p], daw[p])
\* It is reported to the session.
Reported(p) == /\ cmds[p] = <<>> /\ evs[p] = <<daw[p]>> /\ daw[p] # bpm[p]
               /\ Settling(det[p], daw[p])

Wants(p) == Turned(p) \/ Reported(p)
Moved(p) == ~AtRest(p) /\ ~Wants(p)

\* All that the members hear of is b.
Wave(b) == b \in Bpm /\ (Told(b) \/ (Greets /\ room = b))

\* What q's lost connection left names one tempo.
Leftover(q) ==
  \E b \in Bpm : /\ \A m \in Range(down[q]) : m.type = "Config" \/ m.bpm = b
                 /\ Moved(q) => bpm[q] = b

\* A readPump sends to members.
ToMembers == \A p \in Peer : pump[p].to \subseteq On

\* Each bridge is in one of five states.
Bridges ==
  \A p \in Daws :
    /\ AtRest(p) \/ Ordered(p) \/ Written(p) \/ Turned(p) \/ Reported(p)
    /\ conn[p] = "out" => AtRest(p)

\* What the room hears while a DAW is on its way.
Waves ==
  \A p \in Daws :
    /\ p \in On /\ Moved(p) => Wave(bpm[p])
    /\ p \notin On => Leftover(p)

\* Only while all else is at rest is a DAW's change with its detector or its session.
OneWants ==
  \A p \in Daws : Wants(p) =>
    /\ Quiet
    /\ \A q \in Daws \ {p} : AtRest(q)
    /\ \A q \in Daws : conn[q] # "out" => down[q] = <<>>

\* The bridges' part of the invariant, and all of it.
Follow == Bridges /\ Waves /\ OneWants

DawParts == TypeOK /\ BridgeTypes /\ Targets /\ Agreement /\ ToMembers /\ Follow

DawInv == rejects \in Nat /\ (rejects = 0 => DawParts)

\* A step that leaves p's bridge and its session's tempo.
Alike(p) ==
  /\ daw'[p] = daw[p] /\ det'[p] = det[p] /\ cmds'[p] = cmds[p] /\ evs'[p] = evs[p]
  /\ mine'[p] = mine[p] /\ bpm'[p] = bpm[p]

LEMMA AlikeBridge ==
  ASSUME NEW p \in Daws, Alike(p)
  PROVE  /\ AtRest(p)' <=> AtRest(p)
         /\ Ordered(p)' <=> Ordered(p)
         /\ Written(p)' <=> Written(p)
         /\ Turned(p)' <=> Turned(p)
         /\ Reported(p)' <=> Reported(p)
         /\ Wants(p)' <=> Wants(p)
         /\ Moved(p)' <=> Moved(p)
<1>1. /\ AtRest(p)' <=> AtRest(p)
      /\ Ordered(p)' <=> Ordered(p)
      /\ Written(p)' <=> Written(p)
      /\ Turned(p)' <=> Turned(p)
      /\ Reported(p)' <=> Reported(p)
  BY DEF Alike, AtRest, Ordered, Written, Turned, Reported, Idle
<1> QED BY <1>1 DEF Wants, Moved

\* The states exclude each other.
LEMMA StatesDiffer ==
  ASSUME NEW p \in Daws
  PROVE  /\ AtRest(p) \/ Ordered(p) \/ Written(p) => ~Wants(p)
         /\ Ordered(p) => ~AtRest(p)
         /\ cmds[p] # <<>> /\ (AtRest(p) \/ Ordered(p) \/ Written(p) \/ Turned(p) \/ Reported(p))
              => Ordered(p)
         /\ evs[p] # <<>> /\ (AtRest(p) \/ Ordered(p) \/ Written(p) \/ Turned(p) \/ Reported(p))
              => Reported(p)
<1>1. <<bpm[p]>> # <<>> /\ <<daw[p]>> # <<>>
  OBVIOUS
<1> QED BY <1>1 DEF AtRest, Ordered, Written, Turned, Reported, Idle, Wants

\* What the next reading does to a bridge in each of its states.
LEMMA BridgeChecked ==
  ASSUME Tuned, BridgeTypes, NEW p \in Daws
  PROVE  LET r == Checked(det[p], daw[p])
         IN  /\ AtRest(p) \/ Ordered(p) => r.report = 0 /\ Resting(r.det, daw[p])
             /\ Written(p) \/ Reported(p) => r.report = 0 /\ Settling(r.det, daw[p])
             /\ Turned(p) =>
                  \/ r.report = 0 /\ r.det.last = det[p].last /\ Turning(r.det, daw[p])
                     /\ r.det.candidate # NoCandidate
                  \/ r.report = daw[p] /\ Settling(r.det, daw[p])
<1>1. daw[p] \in Bpm /\ Detector(det[p], det[p].candidate)
  BY DEF BridgeTypes
<1> QED
  BY <1>1, RestingGoesOn, SettlingGoesOn, TurningGoesOn
     DEF AtRest, Ordered, Written, Turned, Reported

LEMMA BridgesReport ==
  ASSUME Tuned, BridgeTypes, Bridges
  PROVE  ReportsAreTempos
<1> SUFFICES ASSUME NEW p \in Daws PROVE Checked(det[p], daw[p]).report \in Bpm \cup {0}
  BY DEF ReportsAreTempos
<1>1. AtRest(p) \/ Ordered(p) \/ Written(p) \/ Turned(p) \/ Reported(p)
  BY DEF Bridges
<1>2. daw[p] \in Bpm
  BY DEF BridgeTypes
<1> QED BY <1>1, <1>2, BridgeChecked

\* A bridge with nothing under way is at rest.
LEMMA SettledAtRest ==
  ASSUME Tuned, BridgeTypes, Bridges, NEW p \in Daws, Settled(p)
  PROVE  AtRest(p)
<1>1. AtRest(p) \/ Ordered(p) \/ Written(p) \/ Turned(p) \/ Reported(p)
  BY DEF Bridges
<1>2. ~Ordered(p) /\ ~Reported(p)
  <2>1. <<bpm[p]>> # <<>> /\ <<daw[p]>> # <<>>
    OBVIOUS
  <2> QED BY <2>1 DEF Settled, Ordered, Reported
<1>3. ~Turned(p)
  <2> SUFFICES ASSUME Turned(p) PROVE FALSE
    OBVIOUS
  <2>1. daw[p] # 0
    BY TempoAssumption DEF BridgeTypes
  <2> QED BY <2>1, BridgeChecked DEF Settled
<1>4. Written(p) => AtRest(p)
  <2> SUFFICES ASSUME Written(p) PROVE AtRest(p)
    OBVIOUS
  <2>1. daw[p] \in Bpm /\ Settling(det[p], daw[p])
    BY DEF BridgeTypes, Written
  <2>2. Resting(det[p], daw[p])
    BY <2>1, SettledRests DEF Settled
  <2> QED BY <2>2 DEF Written, AtRest
<1> QED BY <1>1, <1>2, <1>3, <1>4

LEMMA CalmAtRest ==
  ASSUME Tuned, BridgeTypes, Bridges, Calm
  PROVE  \A p \in Daws : AtRest(p)
  BY SettledAtRest DEF Calm, Bridges

\* What a room's members do of themselves: they act or join only while nothing is
\* under way.
Goes(p) ==
  \/ JoinOk(p) \/ Seed(p) \/ Drop(p) \/ PeerJoined(p)
  \/ Read(p) \/ (\E q \in Peer : Send(p, q)) \/ Observe(p) \/ Announce(p) \/ Hears(p)

LEMMA DownTypes ==
  ASSUME TypeOK, NEW q \in Peer
  PROVE  \A m \in Range(down[q]) : m \in Msg
<1>1. down[q] \in Seq(Msg)
  BY DEF TypeOK
<1>2. DOMAIN down[q] = 1..Len(down[q]) /\ \A k \in 1..Len(down[q]) : down[q][k] \in Msg
  BY <1>1
<1> QED BY <1>2 DEF Range

\* All that is on its way to one member is of one tempo.
LEMMA OneTempoComes ==
  ASSUME TypeOK, Agreement, NEW q \in On
  PROVE  \E b \in Bpm : \A m \in Range(down[q]) : m.type = "Config" \/ m.bpm = b
<1>1. CASE Greets
  <2>1. \A m \in Range(down[q]) : m.type = "Config" \/ m = Anchor(room)
    BY <1>1 DEF Greets, Following
  <2>2. room = 0 \/ room \in Bpm
    BY DEF TypeOK
  <2>3. CASE room \in Bpm
    BY <2>1, <2>3 DEF Anchor
  <2>4. CASE room = 0
    <3>1. \A m \in Range(down[q]) : m \in Msg
      BY DownTypes, OnIsPeers
    <3>2. Anchor(0) \notin Msg
      BY TempoAssumption DEF Anchor, Msg
    <3>3. \A m \in Range(down[q]) : m.type = "Config"
      BY <2>1, <2>4, <3>1, <3>2
    <3> QED BY <3>3, TempoAssumption
  <2> QED BY <2>2, <2>3, <2>4
<1>2. ASSUME NEW b \in Bpm, Delivers(b) \/ \E p \in Peer : Spreads(p, b)
      PROVE  \E c \in Bpm : \A m \in Range(down[q]) : m.type = "Config" \/ m.bpm = c
  BY <1>2 DEF Delivers, Spreads, Carries
<1> QED BY <1>1, <1>2 DEF Agreement

\* While all the members hear of is b, that is of b.
LEMMA WaveComes ==
  ASSUME NEW b, Wave(b), NEW q \in On
  PROVE  \A m \in Range(down[q]) : m.type = "Config" \/ m.bpm = b
<1>1. CASE Delivers(b) \/ \E p \in Peer : Spreads(p, b)
  BY <1>1 DEF Delivers, Spreads, Carries
<1>2. CASE Greets /\ room = b
  BY <1>2 DEF Greets, Following, Anchor
<1> QED BY <1>1, <1>2 DEF Wave, Told

\* A session that hears of one tempo takes that or keeps its own.
LEMMA HearsOne ==
  ASSUME TypeOK, NEW q \in Peer, Hears(q), NEW b,
         \A m \in Range(down[q]) : m.type = "Config" \/ m.bpm = b
  PROVE  /\ bpm'[q] = bpm[q] \/ bpm'[q] = b
         /\ \A m \in Range(down'[q]) : m.type = "Config" \/ m.bpm = b
<1>1. PICK m \in Range(down[q]) :
        /\ Range(down'[q]) \subseteq Range(down[q])
        /\ bpm'[q] = bpm[q] \/ bpm'[q] = m.bpm
        /\ m.type = "Config" => bpm'[q] = bpm[q]
  BY HearsStep
<1> QED BY <1>1

\* The tempo a member takes is all that the members hear of.
LEMMA NewsIsWave ==
  ASSUME TypeOK, Agreement, NEW q \in On, Hears(q), bpm'[q] # bpm[q]
  PROVE  Wave(bpm'[q])
<1>0. q \in Peer
  BY OnIsPeers
<1>1. PICK m \in Range(down[q]) :
        /\ m \in Msg
        /\ bpm'[q] = m.bpm
        /\ m.type # "Config"
  BY <1>0, HearsStep
<1>2. CASE Greets
  <2>1. m = Anchor(room)
    BY <1>1, <1>2 DEF Greets, Following
  <2>2. m.bpm = room /\ m.bpm \in Bpm
    BY <1>1, <2>1 DEF Anchor, Msg
  <2> QED BY <1>1, <1>2, <2>2 DEF Wave
<1>3. ASSUME NEW b \in Bpm, Delivers(b) \/ \E p \in Peer : Spreads(p, b)
      PROVE  Wave(bpm'[q])
  <2>1. m.bpm = b
    BY <1>3 DEF Delivers, Spreads, Carries
  <2> QED BY <1>1, <1>3, <2>1 DEF Wave, Told
<1> QED BY <1>2, <1>3 DEF Agreement

\* Who is in the room after a step that nobody starts.
LEMMA GoesOnly ==
  ASSUME TypeOK, NEW p \in Peer, Goes(p)
  PROVE  /\ On' = IF Drop(p) THEN On \ {p} ELSE On
         /\ \A q \in Peer \ {p} : bpm'[q] = bpm[q]
         /\ ~Hears(p) => bpm' = bpm
         /\ \A q \in Peer : (conn'[q] = "out") <=> (conn[q] = "out")
<1>1. CASE Drop(p)
  <2>1. conn[p] = "on" /\ conn' = [conn EXCEPT ![p] = "lost"] /\ bpm' = bpm
    BY <1>1 DEF Drop, On, sessionVars
  <2> QED BY <1>1, <2>1 DEF On, TypeOK
<1>2. CASE Hears(p)
  <2>1. conn' = conn /\ drops' = drops /\ \A q \in Peer \ {p} : bpm'[q] = bpm[q]
    BY <1>2, HearsStep DEF Hears, OnAnchor, OnDeclare, OnIntervalConfig, OnChange, Take, bounds
  <2>2. ~Drop(p)
    <3>1. drops \in Int
      BY TempoAssumption DEF TypeOK
    <3> QED BY <2>1, <3>1 DEF Drop
  <2> QED BY <1>2, <2>1, <2>2 DEF On
<1>3. CASE JoinOk(p) \/ Seed(p) \/ PeerJoined(p) \/ Read(p)
           \/ (\E q \in Peer : Send(p, q)) \/ Observe(p) \/ Announce(p)
  <2>1. conn' = conn /\ bpm' = bpm /\ drops' = drops
    BY <1>3 DEF JoinOk, Seed, PeerJoined, Read, Send, Observe, Announce, sessionVars, bounds
  <2>2. ~Drop(p)
    <3>1. drops \in Int
      BY TempoAssumption DEF TypeOK
    <3> QED BY <2>1, <3>1 DEF Drop
  <2> QED BY <2>1, <2>2 DEF On
<1> QED BY <1>1, <1>2, <1>3 DEF Goes

\* What the members hear of stays the same until somebody acts or joins, or all leave.
LEMMA WaveGoesOn ==
  ASSUME ~Overlap, TypeOK, Targets, NEW b, Wave(b), NEW p \in Peer, Goes(p)
  PROVE  Wave(b)' \/ On' = {}
<1>0. b \in Bpm
  BY DEF Wave
<1>1. CASE Delivers(b)
  <2>1. Told(b)'
    BY <1>0, <1>1, DeliversGoesOn DEF Goes
  <2> QED BY <1>0, <2>1 DEF Wave
<1>2. CASE \E r \in Peer : Spreads(r, b)
  <2>1. Told(b)'
    BY <1>0, <1>2, SpreadsGoesOn DEF Goes
  <2> QED BY <1>0, <2>1 DEF Wave
<1>3. CASE On = {}
  BY <1>3, GoesOnly
<1>4. CASE Greets /\ room = b
  <2>1. Greets'
    BY <1>4, GreetsGoesOn, GreetsObserves, GreetsDrops DEF Goes
  <2>2. room' = b \/ On' = {}
    <3>1. CASE Drop(p)
      <4>1. room' = room \/ On = {p}
        BY <3>1 DEF Drop
      <4>2. On = {p} => On' = {}
        BY <3>1, GoesOnly
      <4> QED BY <1>4, <4>1, <4>2
    <3>2. CASE Observe(p)
      <4>1. pump[p].phase = "forward" /\ pump[p].msg.type = "Config" /\ pump[p].msg \in Msg
        BY <1>4, <3>2 DEF Greets, Greeting, Observe, TypeOK
      <4>2. Observed(pump[p].msg) = b
        BY <1>0, <1>4, <4>1, TempoAssumption DEF Observed, Msg
      <4> QED BY <3>2, <4>2 DEF Observe
    <3>3. CASE Hears(p)
      BY <1>4, <3>3, HearsStep
    <3>4. CASE JoinOk(p) \/ Seed(p) \/ PeerJoined(p) \/ Read(p)
               \/ (\E q \in Peer : Send(p, q)) \/ Announce(p)
      BY <1>4, <3>4 DEF JoinOk, Seed, PeerJoined, Read, Send, Announce
    <3> QED BY <3>1, <3>2, <3>3, <3>4 DEF Goes
  <2> QED BY <1>0, <2>1, <2>2 DEF Wave
<1> QED BY <1>1, <1>2, <1>3, <1>4 DEF Wave, Told

\* In a quiet room that agrees a step of the room is a lost connection, or something left
\* to a session without one.
LEMMA QuietGoes ==
  ASSUME TypeOK, Targets, Agreement, Quiet, NEW p \in Peer, Goes(p)
  PROVE  /\ Drop(p) \/ (p \notin On /\ (PeerJoined(p) \/ Hears(p)))
         /\ Quiet'
<1>1. Greets
  BY QuietGreets
<1>2. \A q \in Peer : up[q] = <<>> /\ pump[q].phase = "idle" /\ pump[q].to = {}
  BY <1>1 DEF Greets, Greeting, Still, Quiet, Targets
<1>3. ~JoinOk(p) /\ ~Seed(p) /\ ~Read(p) /\ ~Observe(p) /\ ~Announce(p)
      /\ \A q \in Peer : ~Send(p, q)
  BY <1>2 DEF JoinOk, Seed, Read, Observe, Announce, Send
<1>4. p \in On => ~PeerJoined(p) /\ ~Hears(p)
  <2>1. p \in On => notice[p] = 0 /\ down[p] = <<>>
    BY DEF Quiet
  <2>2. Hears(p) => down[p] # <<>>
    BY DEF Hears, OnAnchor, OnDeclare, OnIntervalConfig, OnChange, Take
  <2> QED BY <2>1, <2>2 DEF PeerJoined
<1>5. CASE Drop(p)
  <2>1. /\ On' = On \ {p}
        /\ \A q \in On \ {p} : up'[q] = up[q] /\ down'[q] = down[q] /\ notice'[q] = notice[q]
        /\ \A q \in Peer : pump'[q] = Sent(pump[q], p)
    BY <1>5, GoesOnly, OnIsPeers DEF Drop, TypeOK
  <2>2. \A q \in Peer : pump'[q].phase = "idle"
    <3> TAKE q \in Peer
    <3>1. pump[q] \in [phase : Phase, msg : Msg, to : SUBSET Peer]
      BY DEF TypeOK
    <3> QED BY <1>2, <2>1, <3>1, SentParts
  <2> QED BY <2>1, <2>2, OnIsPeers, <1>5 DEF Quiet
<1>6. CASE p \notin On /\ PeerJoined(p)
  <2>1. /\ On' = On /\ UNCHANGED <<up, pump, down>>
        /\ \A q \in On : notice'[q] = notice[q]
    BY <1>6, OnIsPeers DEF PeerJoined, Broadcast, On, TypeOK
  <2> QED BY <1>6, <2>1 DEF Quiet
<1>7. CASE p \notin On /\ Hears(p)
  <2>1. UNCHANGED <<conn, notice, up, pump>> /\ \A q \in Peer \ {p} : down'[q] = down[q]
    BY <1>7, HearsStep
  <2>2. On' = On
    BY <2>1 DEF On
  <2>3. \A q \in On : down'[q] = down[q]
    BY <1>7, <2>1, OnIsPeers
  <2> QED BY <1>7, <2>1, <2>2, <2>3 DEF Quiet
<1> QED BY <1>3, <1>4, <1>5, <1>6, <1>7 DEF Goes

\* The readPumps send to members only.
LEMMA ToMembersStep ==
  ASSUME TypeOK, Targets, ToMembers, [Next]_vars
  PROVE  ToMembers'
<1> SUFFICES ASSUME NEW r \in Peer PROVE pump'[r].to \subseteq On'
  BY DEF ToMembers
<1>0. pump[r].to \subseteq On /\ pump[r] \in [phase : Phase, msg : Msg, to : SUBSET Peer]
  BY DEF ToMembers, TypeOK
<1>1. ASSUME NEW p \in Peer, Join(p) PROVE pump'[r].to \subseteq On'
  <2>1. On \subseteq On' /\ (pump'[r] = pump[r] \/ pump'[r] = At("joinok"))
    BY <1>1 DEF Join, TypeOK, On
  <2> QED BY <1>0, <2>1, PhaseOfAt DEF Phase
<1>2. ASSUME NEW p \in Peer, Goes(p) PROVE pump'[r].to \subseteq On'
  <2>0. On' = IF Drop(p) THEN On \ {p} ELSE On
    BY <1>2, GoesOnly
  <2>1. CASE Drop(p)
    <3>1. pump'[r] = Sent(pump[r], p)
      BY <2>1 DEF Drop
    <3>2. pump'[r].to = pump[r].to \ {p}
      BY <1>0, <3>1, SentParts
    <3> QED BY <1>0, <2>0, <2>1, <3>2
  <2>2. CASE ~Drop(p)
    <3>0. On' = On
      BY <2>0, <2>2
    <3>1. CASE JoinOk(p) \/ Seed(p)
      <4>1. pump'[r] = pump[r] \/ pump'[r] = At("seed") \/ pump'[r] = At("idle")
        BY <3>1 DEF JoinOk, Seed, TypeOK
      <4> QED BY <1>0, <3>0, <4>1, PhaseOfAt DEF Phase
    <3>2. CASE Read(p)
      <4>1. pump'[r] = pump[r] \/ pump'[r].to = On \ {p}
        BY <3>2 DEF Read, TypeOK
      <4> QED BY <1>0, <3>0, <4>1
    <3>3. ASSUME NEW q \in Peer, Send(p, q) PROVE pump'[r].to \subseteq On
      <4>1. pump'[r] = pump[r] \/ pump'[r] = Sent(pump[r], q)
        BY <3>3 DEF Send, TypeOK
      <4> QED BY <1>0, <4>1, SentParts
    <3>4. CASE Observe(p)
      <4>1. PICK b : \/ pump' = [pump EXCEPT ![p] = At("idle")]
                     \/ pump' = [pump EXCEPT ![p] = [At("observed") EXCEPT !.msg = Anchor(b)]]
        BY <3>4 DEF Observe
      <4>2. [At("observed") EXCEPT !.msg = Anchor(b)].to = {} /\ At("idle").to = {}
        BY DEF At
      <4> QED BY <1>0, <3>0, <4>1, <4>2 DEF TypeOK
    <3>5. CASE Announce(p)
      <4>1. pump' = [pump EXCEPT ![p] = [@ EXCEPT !.phase = "anchor", !.to = On]]
        BY <3>5 DEF Announce
      <4>2. pump[p] \in [phase : Phase, msg : Msg, to : SUBSET Peer]
        BY DEF TypeOK
      <4>3. [pump[p] EXCEPT !.phase = "anchor", !.to = On].to = On
        BY <4>2
      <4> QED BY <1>0, <3>0, <4>1, <4>3 DEF TypeOK
    <3>6. CASE PeerJoined(p) \/ Hears(p)
      <4>1. pump' = pump
        BY <3>6, HearsStep DEF PeerJoined
      <4> QED BY <1>0, <3>0, <4>1
    <3> QED BY <1>2, <2>2, <3>0, <3>1, <3>2, <3>3, <3>4, <3>5, <3>6 DEF Goes
  <2> QED BY <2>1, <2>2
<1>3. ASSUME NEW p \in Peer,
             \/ \E b \in Bpm, now \in Clock : ChangeBpm(p, b, now) \/ TempoChanged(p, b, now)
             \/ SetInterval(p) \/ \E now \in Clock : UpdateStreamsError(p, now)
      PROVE  pump'[r].to \subseteq On'
  <2>1. UNCHANGED <<pump, conn>>
    BY <1>3 DEF ChangeBpm, TempoChanged, SetInterval, UpdateStreamsError
  <2> QED BY <1>0, <2>1 DEF On
<1>4. CASE UNCHANGED vars
  BY <1>0, <1>4 DEF vars, On
<1> QED BY <1>1, <1>2, <1>3, <1>4 DEF Next, Goes, Hears

\* What a bridge's own steps leave of the others and of the room.
LEMMA OthersAlike ==
  ASSUME BridgeTypes, NEW p \in Daws, SetTempo(p) \/ Poll(p) \/ (\E b \in Bpm : Turn(p, b))
  PROVE  /\ \A q \in Daws \ {p} : Alike(q)
         /\ UNCHANGED <<conn, bpm, down>> /\ On' = On
         /\ Quiet' <=> Quiet
         /\ \A b : Wave(b)' <=> Wave(b)
<1>1. UNCHANGED vars
  BY DEF SetTempo, Poll, Turn
<1>2. \A q \in Daws \ {p} : Alike(q)
  <2> TAKE q \in Daws \ {p}
  <2>1. bpm'[q] = bpm[q]
    BY <1>1 DEF vars, sessionVars
  <2>2. daw'[q] = daw[q] /\ det'[q] = det[q] /\ cmds'[q] = cmds[q]
        /\ evs'[q] = evs[q] /\ mine'[q] = mine[q]
    BY DEF SetTempo, Poll, Turn, BridgeTypes
  <2> QED BY <2>1, <2>2 DEF Alike
<1>3. UNCHANGED <<conn, bpm, adopted, notice, up, pump, down, room>> /\ On' = On
  BY <1>1 DEF vars, sessionVars, On
<1>4. Quiet' <=> Quiet
  BY <1>3 DEF Quiet
<1>5. ASSUME NEW b PROVE Wave(b)' <=> Wave(b)
  <2>1. Greets' <=> Greets
    BY <1>3 DEF Greets, Greeting, Following, Still, AnchorComes
  <2>2. Delivers(b)' <=> Delivers(b)
    BY <1>3 DEF Delivers, Still, Carries, Converges
  <2>3. \A r \in Peer : Spreads(r, b)' <=> Spreads(r, b)
    BY <1>3 DEF Spreads, Still, Carries, Converges, CopyComes, Stage, Declared, ForwardsIt,
                CopyIsNext, ForwardsCopy, Anchors
  <2> QED BY <1>3, <2>1, <2>2, <2>3 DEF Wave, Told
<1> QED BY <1>2, <1>3, <1>4, <1>5

\* The poller writes what the session told it.
LEMMA SetTempoFollows ==
  ASSUME BridgeTypes, Follow, NEW p \in Daws, SetTempo(p)
  PROVE  Follow'
<1>0. /\ \A q \in Daws \ {p} : Alike(q)
      /\ UNCHANGED <<conn, bpm, down>> /\ On' = On
      /\ \A b : Wave(b)' <=> Wave(b)
  BY OthersAlike
<1>1. Ordered(p) /\ ~AtRest(p) /\ ~Wants(p)
  BY StatesDiffer DEF SetTempo, Follow, Bridges
<1>2. /\ cmds'[p] = <<>> /\ daw'[p] = bpm[p] /\ evs'[p] = <<>> /\ bpm'[p] = bpm[p]
      /\ det'[p].last = bpm[p] /\ det'[p].samples = det[p].samples
      /\ det'[p].candidate = NoCandidate /\ det'[p].held = 0
  <2>1. det[p] = [det[p] EXCEPT !.last = det[p].last] /\ det = [q \in Daws |-> det[q]]
        /\ cmds \in [Daws -> Seq(Bpm)] /\ daw \in [Daws -> Bpm]
    BY DEF BridgeTypes, Detector
  <2>2. Head(cmds[p]) = bpm[p] /\ Tail(cmds[p]) = <<>>
    BY <1>1 DEF Ordered
  <2>3. det'[p] = [det[p] EXCEPT !.last = bpm[p], !.guard = Guard,
                                 !.candidate = NoCandidate, !.held = 0]
    BY <2>1, <2>2 DEF SetTempo
  <2>4. Detector(det[p], det[p].candidate)
    BY DEF BridgeTypes
  <2>5. /\ det'[p].last = bpm[p] /\ det'[p].samples = det[p].samples
        /\ det'[p].candidate = NoCandidate /\ det'[p].held = 0
    BY <2>3, <2>4 DEF Detector
  <2> QED BY <1>0, <1>1, <2>1, <2>2, <2>5 DEF SetTempo, Ordered
<1>3. Written(p)'
  <2>1. daw[p] \in Bpm /\ bpm[p] \in Bpm
    <3>1. cmds[p] \in Seq(Bpm) /\ cmds[p] = <<bpm[p]>> /\ daw[p] \in Bpm
      BY <1>1 DEF BridgeTypes, Ordered
    <3>2. Head(cmds[p]) \in Bpm /\ Head(cmds[p]) = bpm[p]
      BY <3>1
    <3> QED BY <3>1, <3>2
  <2>2. Resting(det[p], daw[p])
    BY <1>1 DEF Ordered
  <2>3. Settling(det'[p], bpm[p])
    BY <1>2, <2>1, <2>2, WriteSettles
  <2> QED BY <1>2, <2>3 DEF Written, Idle
<1>4. \A q \in Daws : ~Wants(q) /\ ~Wants(q)'
  <2>1. ~Wants(p)'
    BY <1>2 DEF Wants, Turned, Reported
  <2>2. \A q \in Daws \ {p} : ~Wants(q)
    BY <1>1 DEF Follow, OneWants
  <2> QED BY <1>0, <1>1, <2>1, <2>2, AlikeBridge
<1>5. Bridges'
  <2>1. conn[p] # "out"
    BY <1>1 DEF Follow, Bridges
  <2> QED BY <1>0, <1>3, <2>1, AlikeBridge DEF Follow, Bridges
<1>6. Waves'
  <2>1. \A q \in Daws : Moved(q)' => Moved(q)
    BY <1>0, <1>1, AlikeBridge DEF Moved
  <2>2. \A q \in Daws : Leftover(q) => Leftover(q)'
    BY <1>0, <2>1 DEF Leftover
  <2> QED BY <1>0, <2>1, <2>2 DEF Follow, Waves
<1> QED BY <1>4, <1>5, <1>6 DEF Follow, OneWants

\* What a poll leaves: a state as it was, or a turned tempo reported.
LEMMA PollStates ==
  ASSUME Tuned, BridgeTypes, NEW p \in Daws, Poll(p)
  PROVE  /\ AtRest(p) => AtRest(p)' /\ evs' = evs
         /\ Ordered(p) => Ordered(p)' /\ evs' = evs
         /\ Written(p) => Written(p)' /\ evs' = evs
         /\ Reported(p) => Reported(p)' /\ evs' = evs
         /\ Turned(p) => Turned(p)' \/ Reported(p)'
<1> DEFINE r == Checked(det[p], daw[p])
<1>1. /\ daw'[p] = daw[p] /\ cmds'[p] = cmds[p] /\ mine'[p] = mine[p] /\ bpm'[p] = bpm[p]
      /\ det'[p] = r.det
      /\ r.report = 0 => evs' = evs
      /\ r.report # 0 /\ evs[p] = <<>> => evs'[p] = <<r.report>>
  <2>1. /\ UNCHANGED <<vars, daw, cmds, mine>> /\ det' = [det EXCEPT ![p] = r.det]
        /\ evs' = IF r.report = 0 \/ Len(evs[p]) = Depth THEN evs
                  ELSE [evs EXCEPT ![p] = Append(@, r.report)]
    BY DEF Poll
  <2>2. det = [q \in Daws |-> det[q]] /\ evs \in [Daws -> Seq(Bpm)]
    BY DEF BridgeTypes
  <2>3. bpm' = bpm
    BY <2>1 DEF vars, sessionVars
  <2>4. r.report # 0 /\ evs[p] = <<>> => evs'[p] = <<r.report>>
    <3>1. evs[p] = <<>> => Len(evs[p]) # Depth
      BY DawAssumption
    <3> HIDE DEF r
    <3> QED BY <2>1, <2>2, <3>1
  <2> HIDE DEF r
  <2> QED BY <2>1, <2>2, <2>3, <2>4
<1>2. /\ AtRest(p) \/ Ordered(p) => r.report = 0 /\ Resting(r.det, daw[p])
      /\ Written(p) \/ Reported(p) => r.report = 0 /\ Settling(r.det, daw[p])
      /\ Turned(p) => \/ r.report = 0 /\ r.det.last = det[p].last /\ Turning(r.det, daw[p])
                      \/ r.report = daw[p] /\ Settling(r.det, daw[p])
  BY BridgeChecked
<1>3. daw[p] # 0
  BY TempoAssumption DEF BridgeTypes
<1> HIDE DEF r
<1> QED BY <1>1, <1>2, <1>3 DEF AtRest, Ordered, Written, Turned, Reported, Idle

LEMMA PollFollows ==
  ASSUME Tuned, BridgeTypes, Follow, NEW p \in Daws, Poll(p)
  PROVE  Follow'
<1>0. /\ \A q \in Daws \ {p} : Alike(q)
      /\ UNCHANGED <<conn, bpm, down>> /\ On' = On
      /\ Quiet' <=> Quiet
      /\ \A b : Wave(b)' <=> Wave(b)
  BY OthersAlike
<1>1. AtRest(p) \/ Ordered(p) \/ Written(p) \/ Turned(p) \/ Reported(p)
  BY DEF Follow, Bridges
<1>2. AtRest(p)' \/ Ordered(p)' \/ Written(p)' \/ Turned(p)' \/ Reported(p)'
  BY <1>1, PollStates
<1>3. AtRest(p) => AtRest(p)'
  BY PollStates
<1>4. Wants(p) <=> Wants(p)'
  <2>1. Wants(p) => Wants(p)'
    BY PollStates DEF Wants
  <2>2. ~Wants(p) => AtRest(p)' \/ Ordered(p)' \/ Written(p)'
    BY <1>1, PollStates DEF Wants
  <2>3. AtRest(p)' \/ Ordered(p)' \/ Written(p)' => ~Wants(p)'
    <3>1. <<bpm'[p]>> # <<>>
      OBVIOUS
    <3> QED BY <3>1 DEF AtRest, Ordered, Written, Turned, Reported, Idle, Wants
  <2> QED BY <2>1, <2>2, <2>3
<1>5. \A q \in Daws : (Wants(q)' => Wants(q)) /\ (AtRest(q) => AtRest(q)') /\ (Moved(q)' => Moved(q))
  BY <1>0, <1>3, <1>4, AlikeBridge DEF Moved
<1>6. Bridges'
  BY <1>0, <1>2, <1>3, AlikeBridge DEF Follow, Bridges
<1>7. Waves'
  <2>1. \A q \in Daws : Leftover(q) => Leftover(q)'
    BY <1>0, <1>5 DEF Leftover
  <2> QED BY <1>0, <1>5, <2>1 DEF Follow, Waves
<1>8. OneWants'
  BY <1>0, <1>5 DEF Follow, OneWants
<1> QED BY <1>6, <1>7, <1>8 DEF Follow

\* A musician turns a DAW's tempo while all is at rest.
LEMMA TurnFollows ==
  ASSUME ~Overlap, Tuned, BridgeTypes, Follow, NEW p \in Daws, NEW b \in Bpm, Turn(p, b)
  PROVE  Follow'
<1>0. /\ \A q \in Daws \ {p} : Alike(q)
      /\ UNCHANGED <<conn, bpm, down>> /\ On' = On
      /\ Quiet' <=> Quiet
      /\ \A c : Wave(c)' <=> Wave(c)
  BY OthersAlike
<1>1. Quiet /\ Calm
  BY DEF Turn, AllQuiet
<1>2. \A q \in Daws : AtRest(q)
  BY <1>1, CalmAtRest DEF Follow
<1>3. /\ daw'[p] = b /\ b # daw[p] /\ mine'[p] = TRUE /\ bpm'[p] = bpm[p]
      /\ det'[p] = det[p] /\ cmds'[p] = cmds[p] /\ evs'[p] = evs[p] /\ conn[p] # "out"
  BY <1>0 DEF Turn, BridgeTypes
<1>4. Turned(p)'
  <2>1. daw[p] \in Bpm /\ Resting(det[p], daw[p]) /\ daw[p] = bpm[p]
    BY <1>2 DEF AtRest, BridgeTypes
  <2>2. Turning(det[p], b) /\ det[p].last = daw[p]
    BY <1>3, <2>1, TurnTurns
  <2> QED BY <1>2, <1>3, <2>1, <2>2 DEF Turned, Idle, AtRest
<1>5. Wants(p)' /\ ~Moved(p)'
  BY <1>4 DEF Wants, Moved
<1>6. \A q \in Daws \ {p} : AtRest(q)' /\ ~Wants(q)' /\ ~Moved(q)'
  BY <1>0, <1>2, AlikeBridge, StatesDiffer DEF Moved
<1>7. Bridges'
  BY <1>0, <1>3, <1>4, <1>6 DEF Bridges
<1>8. Waves'
  <2>1. \A q \in Daws : Leftover(q) => Leftover(q)'
    BY <1>0, <1>5, <1>6 DEF Leftover
  <2> QED BY <1>0, <1>5, <1>6, <2>1 DEF Follow, Waves
<1>9. OneWants'
  <2>1. \A q \in Daws : conn[q] # "out" => down[q] = <<>>
    BY <1>1 DEF Calm, Settled
  <2> QED BY <1>0, <1>1, <1>6, <2>1 DEF OneWants
<1> QED BY <1>7, <1>8, <1>9 DEF Follow

\* Both tempos of a pair of tempos are natural numbers.
LEMMA TempoOfPeer ==
  ASSUME TypeOK, BridgeTypes, NEW p \in Daws
  PROVE  p \in Peer /\ bpm[p] \in Bpm /\ daw[p] \in Bpm
  BY DawAssumption DEF TypeOK, BridgeTypes

\* A session changes the tempo while all else is at rest: the room will hear of it.
LEMMA ChangeFollows ==
  ASSUME TypeOK, Agreement, Follow, Quiet, NEW p \in Peer, NEW b \in Bpm, NEW now \in Clock,
         ChangeBpm(p, b, now) \/ TempoChanged(p, b, now),
         \A q \in Daws \ {p} : AtRest(q)',
         p \in Daws => down[p] = <<>> /\ (Ordered(p)' \/ Written(p)')
  PROVE  Follow'
<1>1. /\ UNCHANGED <<conn, down>> /\ On' = On /\ bpm'[p] = b /\ conn[p] # "out"
  BY DEF ChangeBpm, TempoChanged, TypeOK, On, Running
<1>2. p \in On => Wave(b)'
  <2>1. Greets
    BY QuietGreets
  <2>2. p \in On => Spreads(p, b)'
    BY <2>1, GreetsActs
  <2> QED BY <2>2 DEF Wave, Told
<1>3. \A q \in Daws \ {p} : ~Wants(q)' /\ ~Moved(q)'
  <2>1. \A q \in Daws \ {p} : <<bpm'[q]>> # <<>> /\ <<daw'[q]>> # <<>>
    OBVIOUS
  <2> QED BY <2>1 DEF AtRest, Idle, Moved, Wants, Turned, Reported
<1>4. p \in Daws => ~Wants(p)'
  <2>1. <<bpm'[p]>> # <<>> /\ <<daw'[p]>> # <<>>
    OBVIOUS
  <2> QED BY <2>1 DEF Ordered, Written, Idle, Wants, Turned, Reported
<1>5. Bridges'
  BY <1>1 DEF Follow, Bridges
<1>6. Waves'
  <2> SUFFICES ASSUME NEW q \in Daws
               PROVE  (q \in On /\ Moved(q)' => Wave(bpm[q])') /\ (q \notin On => Leftover(q)')
    BY <1>1 DEF Waves
  <2>1. CASE q # p
    <3>1. q \notin On => Leftover(q)
      BY DEF Follow, Waves
    <3> QED BY <1>1, <1>3, <2>1, <3>1 DEF Leftover
  <2>2. CASE q = p
    <3>1. Range(down'[p]) = {}
      BY <1>1, <2>2, EmptyRange
    <3>2. Leftover(p)'
      BY <1>1, <3>1 DEF Leftover
    <3> QED BY <1>1, <1>2, <2>2, <3>2
  <2> QED BY <2>1, <2>2
<1>7. OneWants'
  BY <1>3, <1>4 DEF OneWants
<1> QED BY <1>5, <1>6, <1>7 DEF Follow

\* The session takes what its DAW turned to.
LEMMA TakeEventFollows ==
  ASSUME Tuned, TypeOK, BridgeTypes, Agreement, Follow, NEW p \in Daws, TakeEvent(p)
  PROVE  Follow'
<1>0. p \in Peer /\ bpm[p] \in Bpm /\ daw[p] \in Bpm
  BY TempoOfPeer
<1>1. Reported(p) /\ Wants(p)
  BY StatesDiffer DEF TakeEvent, Follow, Bridges, Wants
<1>2. Head(evs[p]) = daw[p] /\ Tail(evs[p]) = <<>> /\ daw[p] # bpm[p]
  BY <1>1 DEF Reported
<1>3. Abs(daw[p] - bpm[p]) > 1
  BY <1>0, <1>2 DEF Tuned
<1>4. PICK now \in Clock : TempoChanged(p, daw[p], now)
  <2>0. Bpm \subseteq Nat
    BY TempoAssumption
  <2>1. bpm[p] \in Nat /\ daw[p] \in Nat
    BY <1>0, <2>0
  <2>2. ~(Abs(daw[p] - bpm[p]) <= 1)
    BY <1>3, <2>1 DEF Abs
  <2> QED BY <1>2, <2>2 DEF TakeEvent
<1>5. /\ evs' = [evs EXCEPT ![p] = <<>>] /\ UNCHANGED <<daw, det, cmds, mine>>
      /\ bpm' = [bpm EXCEPT ![p] = daw[p]]
  BY <1>2, <1>4 DEF TakeEvent, TempoChanged
<1>6. evs \in [Daws -> Seq(Bpm)] /\ bpm \in [Peer -> Bpm]
  BY DEF BridgeTypes, TypeOK
<1>7. Quiet /\ (\A q \in Daws \ {p} : AtRest(q)) /\ down[p] = <<>>
  <2>1. conn[p] # "out"
    BY DEF TakeEvent, Running
  <2> QED BY <1>1, <2>1 DEF Follow, OneWants
<1>8. \A q \in Daws \ {p} : AtRest(q)'
  <2>1. \A q \in Daws \ {p} : Alike(q)
    <3>1. Daws \subseteq Peer
      BY DawAssumption
    <3> QED BY <1>5, <1>6, <3>1 DEF Alike
  <2> QED BY <1>7, <2>1, AlikeBridge
<1>9. Written(p)'
  <2>1. evs'[p] = <<>> /\ bpm'[p] = daw[p]
    BY <1>0, <1>5, <1>6
  <2> QED BY <1>1, <1>5, <2>1 DEF Written, Reported, Idle
<1> QED BY <1>0, <1>4, <1>7, <1>8, <1>9, ChangeFollows

\* The musician sets WAIL's tempo while all is at rest.
LEMMA ChangeBpmFollows ==
  ASSUME ~Overlap, Tuned, TypeOK, BridgeTypes, Agreement, Follow,
         NEW p \in Peer, NEW b \in Bpm, NEW now \in Clock, ChangeBpm(p, b, now),
         Overlap \/ Calm, Commands(p, TRUE), Rest
  PROVE  Follow'
<1>1. \A q \in Daws : AtRest(q)
  BY CalmAtRest DEF Follow
<1>2. Quiet /\ conn[p] # "out" /\ bpm' = [bpm EXCEPT ![p] = b]
  BY DEF ChangeBpm, Act, Running
<1>3. bpm \in [Peer -> Bpm] /\ cmds \in [Daws -> Seq(Bpm)] /\ Daws \subseteq Peer
  BY DawAssumption DEF BridgeTypes, TypeOK
<1>4. UNCHANGED <<daw, det, evs, mine>>
      /\ cmds' = IF p \in Daws THEN [cmds EXCEPT ![p] = Append(@, bpm'[p])] ELSE cmds
  BY DEF Rest, Commands
<1>5. \A q \in Daws \ {p} : AtRest(q)'
  <2>1. \A q \in Daws \ {p} : Alike(q)
    BY <1>2, <1>3, <1>4 DEF Alike
  <2> QED BY <1>1, <2>1, AlikeBridge
<1>6. ASSUME p \in Daws PROVE down[p] = <<>> /\ Ordered(p)'
  <2>1. down[p] = <<>>
    BY <1>2, <1>6 DEF Calm, Settled
  <2>2. cmds[p] = <<>> /\ evs[p] = <<>> /\ Resting(det[p], daw[p])
    BY <1>1, <1>6 DEF AtRest, Idle
  <2>3. cmds'[p] = Append(<<>>, bpm'[p])
    BY <1>3, <1>4, <1>6, <2>2
  <2>4. cmds'[p] = <<bpm'[p]>>
    BY <2>3
  <2> QED BY <1>4, <2>1, <2>2, <2>4 DEF Ordered
<1> QED BY <1>2, <1>5, <1>6, ChangeFollows

\* Somebody joins or changes the interval while all is at rest.
LEMMA CalmStarts ==
  ASSUME ~Overlap, Tuned, TypeOK, BridgeTypes, Follow,
         NEW p \in Peer, Overlap \/ Calm, Join(p) \/ SetInterval(p), UNCHANGED bridgeVars
  PROVE  Follow'
<1>1. \A q \in Daws : AtRest(q)
  BY CalmAtRest DEF Follow
<1>2. bpm' = bpm /\ UNCHANGED <<daw, det, cmds, evs, mine>>
  BY DEF Join, SetInterval, sessionVars, bridgeVars
<1>3. \A q \in Daws : AtRest(q)' /\ ~Wants(q)' /\ ~Moved(q)'
  <2>1. \A q \in Daws : Alike(q)
    BY <1>2 DEF Alike
  <2> QED BY <1>1, <2>1, AlikeBridge, StatesDiffer DEF Moved
<1>4. \A q \in Daws : q \notin On' => q \notin On /\ down'[q] = down[q]
  <2>1. Daws \subseteq Peer
    BY DawAssumption
  <2> QED BY <2>1 DEF Join, SetInterval, On, TypeOK
<1>5. Bridges'
  BY <1>3 DEF Bridges
<1>6. Waves'
  <2>1. \A q \in Daws : q \notin On' => Leftover(q)
    BY <1>4 DEF Follow, Waves
  <2>2. \A q \in Daws : q \notin On' => Leftover(q)'
    BY <1>3, <1>4, <2>1 DEF Leftover
  <2> QED BY <1>3, <2>2 DEF Waves
<1> QED BY <1>3, <1>5, <1>6 DEF Follow, OneWants

\* A DAW follows what its session hears from the room.
LEMMA HearsFollows ==
  ASSUME ~Overlap, TypeOK, BridgeTypes, Targets, Agreement, Follow,
         NEW p \in Peer, Hears(p), Commands(p, FALSE), Rest
  PROVE  Follow'
<1>1. /\ UNCHANGED <<conn, daw, det, evs, mine>> /\ On' = On
      /\ \A q \in Peer \ {p} : bpm'[q] = bpm[q] /\ down'[q] = down[q]
      /\ down[p] # <<>> /\ conn[p] # "out"
  <2>1. /\ UNCHANGED conn
        /\ \A q \in Peer \ {p} : bpm'[q] = bpm[q] /\ down'[q] = down[q]
    BY HearsStep
  <2>2. down[p] # <<>> /\ conn[p] # "out"
    BY DEF Hears, OnAnchor, OnDeclare, OnIntervalConfig, OnChange, Take, Running
  <2> QED BY <2>1, <2>2 DEF Rest, On
<1>2. Daws \subseteq Peer /\ cmds \in [Daws -> Seq(Bpm)]
  BY DawAssumption DEF BridgeTypes
<1>3. cmds' = IF p \in Daws /\ bpm'[p] # bpm[p]
              THEN [cmds EXCEPT ![p] = Append(@, bpm'[p])] ELSE cmds
  BY DEF Commands
<1>4. \A q \in Daws : q # p \/ bpm'[p] = bpm[p] => Alike(q)
  BY <1>1, <1>2, <1>3 DEF Alike
<1>5. p \in Daws => \A q \in Daws : ~Wants(q)
  BY <1>1 DEF Follow, OneWants
<1>6. ASSUME p \in Daws, bpm'[p] # bpm[p] PROVE AtRest(p) /\ Ordered(p)'
  <2>1. AtRest(p)
    <3> SUFFICES ASSUME Moved(p) PROVE FALSE
      BY <1>5, <1>6 DEF Moved
    <3>1. \A m \in Range(down[p]) : m.type = "Config" \/ m.bpm = bpm[p]
      <4>1. CASE p \in On
        <5>1. Wave(bpm[p])
          BY <1>6, <4>1 DEF Follow, Waves
        <5> QED BY <4>1, <5>1, WaveComes
      <4>2. CASE p \notin On
        <5>1. Leftover(p)
          BY <1>6, <4>2 DEF Follow, Waves
        <5> QED BY <5>1 DEF Leftover
      <4> QED BY <4>1, <4>2
    <3>2. bpm'[p] = bpm[p]
      BY <3>1, HearsOne
    <3> QED BY <1>6, <3>2
  <2>2. cmds[p] = <<>> /\ evs[p] = <<>> /\ Resting(det[p], daw[p])
    BY <2>1 DEF AtRest, Idle
  <2>3. cmds'[p] = Append(<<>>, bpm'[p])
    BY <1>2, <1>3, <1>6, <2>2
  <2>4. cmds'[p] = <<bpm'[p]>>
    BY <2>3
  <2> QED BY <1>1, <2>1, <2>2, <2>4 DEF Ordered
<1>7. ASSUME p \in Daws, bpm'[p] # bpm[p] PROVE ~Wants(p)'
  <2>1. <<bpm'[p]>> # <<>>
    OBVIOUS
  <2> QED BY <1>6, <1>7, <2>1 DEF Ordered, Wants, Turned, Reported, Idle
<1>8. Bridges'
  <2> SUFFICES ASSUME NEW q \in Daws
               PROVE  /\ (AtRest(q) \/ Ordered(q) \/ Written(q) \/ Turned(q) \/ Reported(q))'
                      /\ conn'[q] = "out" => AtRest(q)'
    BY DEF Bridges
  <2>1. CASE q # p \/ bpm'[p] = bpm[p]
    <3>1. Alike(q)
      BY <1>4, <2>1
    <3> QED BY <1>1, <3>1, AlikeBridge DEF Follow, Bridges
  <2>2. CASE q = p /\ bpm'[p] # bpm[p]
    BY <1>1, <1>6, <2>2
  <2> QED BY <2>1, <2>2
<1>9. ASSUME NEW b, Wave(b), On # {} PROVE Wave(b)'
  <2>1. Goes(p)
    BY DEF Goes
  <2> QED BY <1>1, <1>9, <2>1, WaveGoesOn
<1>10. Waves'
  <2> SUFFICES ASSUME NEW q \in Daws
               PROVE  (q \in On /\ Moved(q)' => Wave(bpm[q])') /\ (q \notin On => Leftover(q)')
    BY <1>1 DEF Waves
  <2>1. (q \in On /\ Moved(q) => Wave(bpm[q])) /\ (q \notin On => Leftover(q))
    BY DEF Follow, Waves
  <2>2. CASE q # p \/ bpm'[p] = bpm[p]
    <3>1. Moved(q)' <=> Moved(q)
      BY <1>4, <2>2, AlikeBridge
    <3>2. bpm'[q] = bpm[q]
      BY <1>1, <1>2, <2>2
    <3>3. ASSUME q \in On, Moved(q)' PROVE Wave(bpm[q])'
      <4>1. PICK b : b = bpm[q]
        OBVIOUS
      <4>2. Wave(b)'
        BY <1>9, <2>1, <3>1, <3>3, <4>1
      <4> QED BY <3>2, <4>1, <4>2
    <3>4. ASSUME q \notin On PROVE Leftover(q)'
      <4>1. PICK b \in Bpm : /\ \A m \in Range(down[q]) : m.type = "Config" \/ m.bpm = b
                             /\ Moved(q) => bpm[q] = b
        BY <2>1, <3>4 DEF Leftover
      <4>2. \A m \in Range(down'[q]) : m.type = "Config" \/ m.bpm = b
        <5>1. CASE q # p
          BY <1>1, <1>2, <4>1, <5>1
        <5>2. CASE q = p
          BY <4>1, <5>2, HearsOne
        <5> QED BY <5>1, <5>2
      <4> QED BY <3>1, <3>2, <4>1, <4>2 DEF Leftover
    <3> QED BY <3>3, <3>4
  <2>3. CASE q = p /\ bpm'[p] # bpm[p]
    <3>1. ASSUME q \in On PROVE Wave(bpm[q])'
      <4>1. PICK b : b = bpm'[p]
        OBVIOUS
      <4>2. Wave(b)
        BY <2>3, <3>1, <4>1, NewsIsWave
      <4>3. Wave(b)'
        BY <1>9, <3>1, <4>2
      <4> QED BY <2>3, <4>1, <4>3
    <3>2. ASSUME q \notin On PROVE Leftover(q)'
      <4>1. PICK b \in Bpm : \A m \in Range(down[q]) : m.type = "Config" \/ m.bpm = b
        BY <2>1, <3>2 DEF Leftover
      <4>2. /\ bpm'[q] = b
            /\ \A m \in Range(down'[q]) : m.type = "Config" \/ m.bpm = b
        BY <2>3, <4>1, HearsOne
      <4> QED BY <4>2 DEF Leftover
    <3> QED BY <3>1, <3>2
  <2> QED BY <2>2, <2>3
<1>11. OneWants'
  <2>1. CASE p \in Daws
    <3>1. \A q \in Daws : ~Wants(q)'
      BY <1>4, <1>5, <1>7, <2>1, AlikeBridge
    <3> QED BY <3>1 DEF OneWants
  <2>2. CASE p \notin Daws
    <3>1. \A q \in Daws : (Wants(q)' <=> Wants(q)) /\ (AtRest(q)' <=> AtRest(q)) /\ down'[q] = down[q]
      BY <1>1, <1>2, <1>4, <2>2, AlikeBridge
    <3>2. Quiet => Quiet'
      BY QuietGoes DEF Goes
    <3> QED BY <1>1, <3>1, <3>2 DEF Follow, OneWants
  <2> QED BY <2>1, <2>2
<1> QED BY <1>8, <1>10, <1>11 DEF Follow

\* A readPump at work is a member's.
LEMMA PumpsOn ==
  ASSUME Agreement, NEW q \in Peer, pump[q].phase # "idle"
  PROVE  q \in On
<1>1. Greets => q \in On
  BY DEF Greets, Greeting, Still
<1>2. ASSUME NEW b \in Bpm, Delivers(b) PROVE FALSE
  BY <1>2 DEF Delivers, Still
<1>3. ASSUME NEW b \in Bpm, NEW r \in Peer, Spreads(r, b) PROVE q \in On
  BY <1>3 DEF Spreads, Still
<1> QED BY <1>1, <1>2, <1>3 DEF Agreement

\* What the room does of itself leaves each bridge on its way.
LEMMA GoesFollows ==
  ASSUME ~Overlap, TypeOK, BridgeTypes, Targets, Agreement, ToMembers, Follow,
         NEW p \in Peer, Goes(p), ~Hears(p), UNCHANGED bridgeVars
  PROVE  Follow'
<1>0. Daws \subseteq Peer
  BY DawAssumption
<1>1. /\ bpm' = bpm /\ On' = IF Drop(p) THEN On \ {p} ELSE On
      /\ \A q \in Peer : (conn'[q] = "out") <=> (conn[q] = "out")
  BY GoesOnly
<1>2. \A q \in Daws : Alike(q)
  BY <1>1 DEF Alike, bridgeVars
<1>3. \A q \in Daws : /\ (Moved(q)' <=> Moved(q)) /\ (Wants(q)' <=> Wants(q))
                      /\ (AtRest(q)' <=> AtRest(q))
  BY <1>2, AlikeBridge
<1>4. Bridges'
  BY <1>0, <1>1, <1>2, AlikeBridge DEF Follow, Bridges
<1>5. ASSUME NEW q \in Peer, q \notin On PROVE Range(down'[q]) \subseteq Range(down[q])
  <2>1. CASE Drop(p)
    <3>1. p \in On /\ \E n : down' = [down EXCEPT ![p] = SubSeq(@, 1, n)]
      BY <2>1 DEF Drop
    <3> QED BY <1>5, <3>1 DEF TypeOK
  <2>2. CASE JoinOk(p)
    <3>1. down'[q] = down[q] \/ down'[q] = <<>>
      BY <2>2 DEF JoinOk, TypeOK
    <3> QED BY <3>1, EmptyRange
  <2>3. CASE Seed(p)
    <3>1. p \in On
      BY <2>3, PumpsOn DEF Seed
    <3>2. down'[q] = down[q]
      BY <1>5, <2>3, <3>1 DEF Seed, TypeOK
    <3> QED BY <3>2
  <2>4. ASSUME NEW r \in Peer, Send(p, r) PROVE Range(down'[q]) \subseteq Range(down[q])
    <3>1. r \in On
      BY <2>4 DEF Send, ToMembers
    <3>2. down'[q] = down[q]
      BY <1>5, <2>4, <3>1 DEF Send, TypeOK
    <3> QED BY <3>2
  <2>5. CASE PeerJoined(p) \/ Read(p) \/ Observe(p) \/ Announce(p)
    BY <2>5 DEF PeerJoined, Read, Observe, Announce
  <2> QED BY <2>1, <2>2, <2>3, <2>4, <2>5 DEF Goes
<1>6. Waves'
  <2> SUFFICES ASSUME NEW q \in Daws
               PROVE  (q \in On' /\ Moved(q)' => Wave(bpm[q])') /\ (q \notin On' => Leftover(q)')
    BY DEF Waves
  <2>1. (q \in On /\ Moved(q) => Wave(bpm[q])) /\ (q \notin On => Leftover(q))
    BY DEF Follow, Waves
  <2>2. ASSUME q \in On', Moved(q)' PROVE Wave(bpm[q])'
    <3>1. PICK b : b = bpm[q]
      OBVIOUS
    <3>2. Wave(b)
      BY <1>1, <1>3, <2>1, <2>2, <3>1
    <3>3. Wave(b)'
      BY <2>2, <3>2, WaveGoesOn
    <3> QED BY <1>1, <3>1, <3>3
  <2>3. ASSUME q \notin On' PROVE Leftover(q)'
    <3>1. CASE q \notin On
      <4>1. Range(down'[q]) \subseteq Range(down[q])
        BY <1>0, <1>5, <3>1
      <4> QED BY <1>1, <1>3, <2>1, <3>1, <4>1 DEF Leftover
    <3>2. CASE q \in On
      <4>1. Drop(p) /\ q = p
        BY <1>1, <2>3, <3>2
      <4>2. Range(down'[q]) \subseteq Range(down[q])
        <5>1. PICK n \in 0..Len(down[p]) : down' = [down EXCEPT ![p] = SubSeq(@, 1, n)]
          BY <4>1 DEF Drop
        <5>2. down[p] \in Seq(Msg) /\ down'[p] = SubSeq(down[p], 1, n)
          BY <5>1 DEF TypeOK
        <5> QED BY <4>1, <5>1, <5>2, PrefixRange
      <4>3. PICK b \in Bpm : /\ \A m \in Range(down[q]) : m.type = "Config" \/ m.bpm = b
                             /\ Moved(q) => bpm[q] = b
        <5>1. CASE Moved(q)
          <6>1. Wave(bpm[q]) /\ bpm[q] \in Bpm
            BY <1>0, <2>1, <3>2, <5>1 DEF TypeOK
          <6>2. \A m \in Range(down[q]) : m.type = "Config" \/ m.bpm = bpm[q]
            BY <3>2, <6>1, WaveComes
          <6> QED BY <6>1, <6>2
        <5>2. CASE ~Moved(q)
          BY <3>2, <5>2, OneTempoComes
        <5> QED BY <5>1, <5>2
      <4> QED BY <1>1, <1>3, <4>2, <4>3 DEF Leftover
    <3> QED BY <3>1, <3>2
  <2> QED BY <2>2, <2>3
<1>7. OneWants'
  <2> SUFFICES ASSUME NEW r \in Daws, Wants(r)'
               PROVE  /\ Quiet' /\ \A q \in Daws \ {r} : AtRest(q)'
                      /\ \A q \in Daws : conn'[q] # "out" => down'[q] = <<>>
    BY DEF OneWants
  <2>1. /\ Quiet /\ \A q \in Daws \ {r} : AtRest(q)
        /\ \A q \in Daws : conn[q] # "out" => down[q] = <<>>
    BY <1>3 DEF Follow, OneWants
  <2>2. Quiet' /\ (Drop(p) \/ PeerJoined(p))
    BY <2>1, QuietGoes
  <2>3. ASSUME NEW q \in Daws, down[q] = <<>> PROVE down'[q] = <<>>
    <3>1. CASE Drop(p)
      <4>1. PICK n \in 0..Len(down[p]) : down' = [down EXCEPT ![p] = SubSeq(@, 1, n)]
        BY <3>1 DEF Drop
      <4>2. CASE q = p
        <5>1. n = 0 /\ down'[q] = SubSeq(<<>>, 1, n)
          BY <2>3, <4>1, <4>2 DEF TypeOK
        <5>2. SubSeq(<<>>, 1, 0) = <<>>
          OBVIOUS
        <5> QED BY <5>1, <5>2
      <4>3. CASE q # p
        BY <1>0, <2>3, <4>1, <4>3 DEF TypeOK
      <4> QED BY <4>2, <4>3
    <3>2. CASE PeerJoined(p)
      BY <2>3, <3>2 DEF PeerJoined
    <3> QED BY <2>2, <3>1, <3>2
  <2> QED BY <1>0, <1>1, <1>3, <2>1, <2>2, <2>3
<1> QED BY <1>4, <1>6, <1>7 DEF Follow

\* What is rejected stays so.
LEMMA RejectsGrow ==
  ASSUME rejects \in Nat, [DawNext]_dawVars
  PROVE  rejects' \in Nat /\ (rejects' = 0 => rejects = 0)
<1>1. rejects' = rejects \/ rejects' = rejects + 1
  <2>1. ASSUME NEW p \in Peer, Bridged(p) PROVE rejects' = rejects
    BY <2>1 DEF Bridged, ChangeBpm, OnAnchor, OnDeclare, OnChange, Take, bounds
  <2>2. ASSUME NEW p \in Peer, Unbridged(p) PROVE rejects' = rejects \/ rejects' = rejects + 1
    BY <2>2 DEF Unbridged, Join, SetInterval, JoinOk, Seed, Drop, UpdateStreamsError, PeerJoined,
                Read, Observe, Announce, Send, OnIntervalConfig, Take, bounds
  <2>3. ASSUME NEW p \in Daws, SetTempo(p) \/ Poll(p) \/ TakeEvent(p) \/ \E b \in Bpm : Turn(p, b)
        PROVE  rejects' = rejects
    BY <2>3 DEF SetTempo, Poll, TakeEvent, Turn, TempoChanged, vars, bounds
  <2>4. CASE UNCHANGED dawVars
    BY <2>4 DEF dawVars, vars, bounds
  <2> QED BY <2>1, <2>2, <2>3, <2>4 DEF DawNext
<1> QED BY <1>1

LEMMA FollowStep ==
  ASSUME ~Overlap, Tuned, DawParts, rejects = 0, rejects' = 0, [DawNext]_dawVars
  PROVE  Follow'
<1> USE DEF DawParts
<1>1. ASSUME NEW p \in Peer, Bridged(p), Rest PROVE Follow'
  <2>1. CASE \E b \in Bpm, now \in Clock : ChangeBpm(p, b, now) /\ (Overlap \/ Calm)
                                            /\ Commands(p, TRUE)
    BY <1>1, <2>1, ChangeBpmFollows
  <2>2. CASE Hears(p) /\ Commands(p, FALSE)
    BY <1>1, <2>2, HearsFollows
  <2> QED BY <1>1, <2>1, <2>2 DEF Bridged, Hears
<1>2. ASSUME NEW p \in Peer, Unbridged(p), UNCHANGED bridgeVars PROVE Follow'
  <2>1. CASE (Overlap \/ Calm) /\ (Join(p) \/ SetInterval(p))
    BY <1>2, <2>1, CalmStarts
  <2>2. CASE JoinOk(p) \/ Seed(p) \/ Drop(p) \/ PeerJoined(p) \/ Read(p) \/ Observe(p)
             \/ Announce(p) \/ \E q \in Peer : Send(p, q)
    <3>1. CASE Hears(p)
      <4>1. Rest /\ cmds' = cmds
        BY <1>2 DEF Rest, bridgeVars
      <4>2. bpm' = bpm
        BY <2>2 DEF JoinOk, Seed, Drop, PeerJoined, Read, Observe, Announce, Send, sessionVars
      <4>3. Commands(p, FALSE)
        BY <4>1, <4>2 DEF Commands
      <4> QED BY <3>1, <4>1, <4>3, HearsFollows
    <3>2. CASE ~Hears(p)
      BY <1>2, <2>2, <3>2, GoesFollows DEF Goes
    <3> QED BY <3>1, <3>2
  <2>3. CASE \E now \in Clock : UpdateStreamsError(p, now)
    BY <2>3 DEF UpdateStreamsError
  <2>4. CASE OnIntervalConfig(p)
    <3>1. Hears(p) /\ bpm' = bpm
      BY <2>4 DEF Hears, OnIntervalConfig, sessionVars
    <3>2. Rest /\ cmds' = cmds
      BY <1>2 DEF Rest, bridgeVars
    <3>3. Commands(p, FALSE)
      BY <3>1, <3>2 DEF Commands
    <3> QED BY <3>1, <3>2, <3>3, HearsFollows
  <2> QED BY <1>2, <2>1, <2>2, <2>3, <2>4 DEF Unbridged
<1>3. ASSUME NEW p \in Daws, SetTempo(p) PROVE Follow'
  BY <1>3, SetTempoFollows
<1>4. ASSUME NEW p \in Daws, Poll(p) PROVE Follow'
  BY <1>4, PollFollows
<1>5. ASSUME NEW p \in Daws, TakeEvent(p) PROVE Follow'
  BY <1>5, TakeEventFollows
<1>6. ASSUME NEW p \in Daws, NEW b \in Bpm, Turn(p, b) PROVE Follow'
  BY <1>6, TurnFollows
<1>7. CASE UNCHANGED dawVars
  <2>1. /\ UNCHANGED <<daw, det, cmds, evs, mine, conn, bpm, adopted, notice, up, pump, down, room>>
        /\ On' = On
    BY <1>7 DEF dawVars, bridgeVars, vars, sessionVars, On
  <2>2. \A p \in Daws : Alike(p)
    BY <2>1 DEF Alike
  <2>3. \A p \in Daws : (Moved(p)' <=> Moved(p)) /\ (Wants(p)' <=> Wants(p))
                        /\ (AtRest(p)' <=> AtRest(p))
    BY <2>2, AlikeBridge
  <2>4. Bridges'
    BY <2>1, <2>2, AlikeBridge DEF Follow, Bridges
  <2>5. ASSUME NEW b PROVE Wave(b)' <=> Wave(b)
    <3>1. Greets' <=> Greets
      BY <2>1 DEF Greets, Greeting, Following, Still, AnchorComes
    <3>2. Delivers(b)' <=> Delivers(b)
      BY <2>1 DEF Delivers, Still, Carries, Converges
    <3>3. \A r \in Peer : Spreads(r, b)' <=> Spreads(r, b)
      BY <2>1 DEF Spreads, Still, Carries, Converges, CopyComes, Stage, Declared, ForwardsIt,
                  CopyIsNext, ForwardsCopy, Anchors
    <3> QED BY <2>1, <3>1, <3>2, <3>3 DEF Wave, Told
  <2>6. Waves'
    <3>1. \A p \in Daws : Leftover(p) => Leftover(p)'
      BY <2>1, <2>3 DEF Leftover
    <3> QED BY <2>1, <2>3, <2>5, <3>1 DEF Follow, Waves
  <2>7. OneWants'
    <3>1. Quiet' <=> Quiet
      BY <2>1 DEF Quiet
    <3> QED BY <2>1, <2>3, <3>1 DEF Follow, OneWants
  <2> QED BY <2>4, <2>6, <2>7 DEF Follow
<1> QED BY <1>1, <1>2, <1>3, <1>4, <1>5, <1>6, <1>7 DEF DawNext

LEMMA DawInvStep ==
  ASSUME ~Overlap, Tuned
  PROVE  DawInv /\ [DawNext]_dawVars => DawInv'
<1> SUFFICES ASSUME DawInv, [DawNext]_dawVars PROVE DawInv'
  OBVIOUS
<1>1. rejects' \in Nat /\ (rejects' = 0 => rejects = 0)
  BY RejectsGrow DEF DawInv
<1>2. ASSUME rejects = 0, rejects' = 0 PROVE DawParts'
  <2>1. DawParts
    BY <1>2 DEF DawInv
  <2>2. [Next]_vars /\ ReportsAreTempos
    BY <2>1, DawStep, BridgesReport DEF DawParts, Follow
  <2>3. TypeOK'
    BY <2>1, <2>2, TypeStep DEF DawParts
  <2>4. BridgeTypes'
    BY <2>1, <2>2, <2>3, BridgeStep DEF DawParts
  <2>5. Targets' /\ Agreement'
    BY <1>2, <2>1, <2>2, AgreeStep DEF DawParts, AgreeInv
  <2>6. ToMembers'
    BY <2>1, <2>2, ToMembersStep DEF DawParts
  <2>7. Follow'
    BY <1>2, <2>1, FollowStep
  <2> QED BY <2>3, <2>4, <2>5, <2>6, <2>7 DEF DawParts
<1> QED BY <1>1, <1>2 DEF DawInv

LEMMA DawInvInit == DawInit => DawInv
<1> SUFFICES ASSUME DawInit PROVE DawInv
  OBVIOUS
<1>1. Init /\ rejects = 0
  BY DEF DawInit, Init
<1>2. TypeOK /\ BridgeTypes /\ Targets /\ Agreement
  BY <1>1, TypeInit, AgreeInit, BridgeInit DEF AgreeInv
<1>3. ToMembers
  BY <1>1 DEF Init, ToMembers, At
<1>4. \A p \in Daws : conn[p] = "out" /\ p \notin On /\ Range(down[p]) = {}
  <2>1. Daws \subseteq Peer
    BY DawAssumption
  <2> QED BY <1>1, <2>1, EmptyRange DEF Init, On
<1>5. ASSUME NEW p \in Daws PROVE AtRest(p)
  <2>1. p \in Peer /\ JoinBpm[p] \in Bpm
    BY DawAssumption, TempoAssumption
  <2>2. /\ daw[p] = JoinBpm[p] /\ bpm[p] = JoinBpm[p] /\ cmds[p] = <<>> /\ evs[p] = <<>>
        /\ det[p] = [last |-> JoinBpm[p], guard |-> 0, samples |-> <<>>,
                     candidate |-> NoCandidate, held |-> 0]
    BY <1>1, <2>1 DEF DawInit, Init
  <2>3. Old(<<>>, JoinBpm[p], JoinBpm[p], 0)
    <3>1. <<>> \in Seq(Bpm) /\ Len(<<>>) = 0 /\ 0 <= Window
      BY DawAssumption
    <3> QED BY <3>1 DEF Old
  <2> QED BY <2>2, <2>3 DEF AtRest, Idle, Resting
<1>6. \A p \in Daws : ~Wants(p)
  BY <1>5, StatesDiffer
<1>7. Bridges /\ OneWants
  BY <1>5, <1>6 DEF Bridges, OneWants
<1>8. Waves
  <2>1. \A p \in Daws : Leftover(p)
    BY <1>4, <1>5, TempoAssumption DEF Leftover, Moved
  <2> QED BY <1>4, <2>1 DEF Waves
<1> QED BY <1>1, <1>2, <1>3, <1>7, <1>8 DEF DawInv, DawParts, Follow

\* A DAW plays its session's tempo whenever nothing is under way in the room or
\* between session and DAW: whatever the musicians set in WAIL or in their DAWs, for any
\* number of them, through lost connections, rejoins and clocks that disagree
\* (link_types.go, session.go), as long as each starts what it starts when the rest is
\* over and the tempos are ones the detector's bars tell apart.
THEOREM DawsFollow ==
  ASSUME ~Overlap, Tuned
  PROVE  DawSpec => []DawFollows
<1>1. DawInit => DawInv
  BY DawInvInit
<1>2. DawInv /\ [DawNext]_dawVars => DawInv'
  BY DawInvStep
<1>3. DawInv => DawFollows
  <2> SUFFICES ASSUME DawInv, AllQuiet, rejects = 0, NEW p \in Daws, p \in On
               PROVE  Near(daw[p], bpm[p])
    BY DEF DawFollows
  <2>1. AtRest(p)
    BY CalmAtRest DEF DawInv, DawParts, Follow, AllQuiet
  <2>2. daw[p] \in Nat /\ daw[p] = bpm[p]
    <3>1. Bpm \subseteq Nat
      BY TempoAssumption
    <3> QED BY <2>1, <3>1 DEF AtRest, DawInv, DawParts, BridgeTypes
  <2>3. Snap \in Nat
    BY DawAssumption
  <2> QED BY <2>2, <2>3 DEF Near, Abs
<1> QED BY <1>1, <1>2, <1>3, PTL DEF DawSpec

\* What a bridge reports as the musician's is the musician's: neither its own writes
\* nor the mean of a window that has yet to pass comes back as a change of the DAW
\* (ArmEchoGuard, Check), under the same conditions.
THEOREM NoEchoReported ==
  ASSUME ~Overlap, Tuned
  PROVE  DawSpec => NoEcho
<1>1. DawInit => DawInv
  BY DawInvInit
<1>2. DawInv /\ [DawNext]_dawVars => DawInv'
  BY DawInvStep
<1>3. DawInv /\ [DawNext]_dawVars
      => [\A p \in Daws : Len(evs'[p]) > Len(evs[p]) /\ rejects = 0 => mine[p]]_dawVars
  <2> SUFFICES ASSUME DawInv, DawNext, NEW p \in Daws, Len(evs'[p]) > Len(evs[p]), rejects = 0
               PROVE  mine[p]
    OBVIOUS
  <2>1. DawParts /\ evs \in [Daws -> Seq(Bpm)] /\ Len(evs[p]) \in Nat
    BY DEF DawInv, DawParts, BridgeTypes
  <2>2. evs' # evs
    BY <2>1
  <2>3. PICK q \in Daws : Poll(q) \/ TakeEvent(q)
    <3>1. \A q \in Peer : ~(Bridged(q) /\ Rest) /\ ~(Unbridged(q) /\ UNCHANGED bridgeVars)
      BY <2>2 DEF Rest, bridgeVars
    <3>2. \A q \in Daws : ~SetTempo(q) /\ \A b \in Bpm : ~Turn(q, b)
      BY <2>2 DEF SetTempo, Turn
    <3> QED BY <3>1, <3>2 DEF DawNext
  <2>4. q = p
    BY <2>1, <2>3 DEF Poll, TakeEvent
  <2>5. CASE TakeEvent(p)
    <3>1. evs[p] # <<>> /\ evs'[p] = Tail(evs[p]) /\ evs[p] \in Seq(Bpm)
      BY <2>1, <2>5 DEF TakeEvent
    <3>2. Len(Tail(evs[p])) = Len(evs[p]) - 1
      BY <3>1
    <3> QED BY <2>1, <3>1, <3>2
  <2>6. CASE Poll(p)
    <3>1. AtRest(p) \/ Ordered(p) \/ Written(p) \/ Turned(p) \/ Reported(p)
      BY <2>1 DEF DawParts, Follow, Bridges
    <3>2. Turned(p)
      BY <2>1, <2>2, <2>6, <3>1, PollStates DEF DawParts
    <3> QED BY <3>2 DEF Turned
  <2> QED BY <2>3, <2>4, <2>5, <2>6
<1> QED BY <1>1, <1>2, <1>3, PTL DEF DawSpec, NoEcho
=============================================================================
