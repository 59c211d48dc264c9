----------------------------- MODULE PubSubProofs -----------------------------
(***************************************************************************)
(* Theorems about PubSub, for any number of subscriptions and messages and *)
(* for channels of any capacity: no channel is closed twice or sent to     *)
(* once it is closed, each subscriber sees messages in order, and none     *)
(* that found room in a channel is lost.                                   *)
(***************************************************************************)
EXTENDS PubSub, TLAPS

USE PubSubAssumption

\* Each subscription has a channel and a history.
Channels == buffer \in [Subs -> Seq(Messages)] /\ handled \in [Subs -> Seq(Messages)]

\* A Publish sends only to channels in the map, and only while it holds the
\* mutex: no writer takes any out or closes it.
SendsToMap ==
  \A m \in Messages : IF publish[m] = "sending" THEN toSend[m] \subseteq subs
                                                ELSE toSend[m] = {}

\* A channel in the map is open, and one that is closed has been taken out of it
\* by its unsub or by Close, which empties the map.
MapIsOpen ==
  /\ subs \cap shut = {}
  /\ closed => subs = {}
  /\ shut # {} => closed \/ shut \subseteq unsubbed
  /\ \A s \in Subs : s \in subs \cup shut \cup unsubbed => consumer[s] # "none"

MapInv == TypeOK /\ Channels /\ NoPanic /\ SendsToMap /\ MapIsOpen

\* A message in a channel is one its Publish has put there, and will not again.
SentOnce ==
  \A s \in Subs, i \in Nat :
    i \in DOMAIN Seen(s) => /\ publish[Seen(s)[i]] \in {"sending", "done"}
                            /\ s \notin toSend[Seen(s)[i]]
EarlierIsDone ==
  \A m \in Messages, n \in Messages : n \in earlier[m] => publish[n] = "done"

OrderInv == SentOnce /\ EarlierIsDone /\ InOrder

\* A Publish under way has put its message in each channel of its topic, or has
\* still to come to it, or the channel has been full.
SentOrFull ==
  \A m \in Messages, s \in subs :
    publish[m] = "sending" /\ TopicOf[s] = TopicOf[m]
      => s \in toSend[m] \/ m \in Range(Seen(s)) \/ Len(Seen(s)) >= Capacity

\* A subscription is in the map until its channel is closed; none in the map was
\* stopped, and a consumer that ended has left nothing in its channel.
OpenOrShut ==
  \A s \in Subs :
    /\ consumer[s] # "none" => s \in subs \cup shut
    /\ s \in unsubbed => s \notin subs
EndedIsDrained ==
  \A s \in Subs : consumer[s] = "ended" => s \in shut /\ buffer[s] = <<>>

DrainInv == OpenOrShut /\ EndedIsDrained

\* Once a subscription was stopped or the broker closed, its consumer has a next
\* step until it has ended: a message to take, a handler that returns, or the
\* end of a channel that is closed and empty.
ConsumerGoesOn ==
  \A s \in Subs : consumer[s] # "none" /\ (closed \/ s \in unsubbed)
    => \/ consumer[s] = "ready" /\ (buffer[s] # <<>> \/ s \in shut)
       \/ consumer[s] = "handling"
       \/ consumer[s] = "ended" /\ buffer[s] = <<>>

\* A message leaves a channel for the handler only.
LeavesForHandler ==
  [][\A s \in Subs : \A m \in Range(buffer[s]) :
       m \in Range(buffer'[s]) \cup Range(handled'[s])]_vars

-----------------------------------------------------------------------------
(***************************************************************************)
(* Sequences.                                                              *)
(***************************************************************************)

LEMMA AppendAfter ==
  ASSUME NEW S, NEW h \in Seq(S), NEW b \in Seq(S), NEW e \in S
  PROVE  /\ h \o b \in Seq(S)
         /\ Len(h \o Append(b, e)) = Len(h \o b) + 1
         /\ (h \o Append(b, e))[Len(h \o b) + 1] = e
         /\ \A i \in 1 .. Len(h \o b) : (h \o Append(b, e))[i] = (h \o b)[i]
  OBVIOUS

LEMMA LongerHasRange ==
  ASSUME NEW S, NEW short \in Seq(S), NEW long \in Seq(S), NEW e,
         Len(long) = Len(short) + 1, long[Len(short) + 1] = e,
         \A i \in 1 .. Len(short) : long[i] = short[i]
  PROVE  e \in Range(long) /\ Range(short) \subseteq Range(long)
<1>1. /\ DOMAIN short = 1 .. Len(short) /\ DOMAIN long = 1 .. Len(long)
      /\ Len(short) \in Nat
  OBVIOUS
<1>2. Len(short) + 1 \in DOMAIN long /\ DOMAIN short \subseteq DOMAIN long
  BY <1>1
<1> QED BY <1>1, <1>2 DEF Range

\* Taking the head of the channel into the history changes nothing together.
LEMMA HeadMoves ==
  ASSUME NEW S, NEW h \in Seq(S), NEW b \in Seq(S), b # <<>>
  PROVE  Append(h, Head(b)) \o Tail(b) = h \o b
<1> DEFINE l == Append(h, Head(b)) \o Tail(b)
           r == h \o b
<1>1. Head(b) \in S /\ Tail(b) \in Seq(S) /\ Len(Tail(b)) = Len(b) - 1
  OBVIOUS
<1>2. l \in Seq(S) /\ r \in Seq(S) /\ Len(l) = Len(r)
  BY <1>1
<1>3. ASSUME NEW i \in 1 .. Len(r) PROVE l[i] = r[i]
  BY <1>1, <1>3
<1> QED BY <1>2, <1>3

-----------------------------------------------------------------------------
(***************************************************************************)
(* The map of subscriptions.                                               *)
(***************************************************************************)

LEMMA MapInvariant == Spec => []MapInv
<1>1. Init => MapInv
  <2> SUFFICES ASSUME Init PROVE MapInv
    OBVIOUS
  <2>1. <<>> \in Seq(Messages) /\ Len(<<>>) = 0
    OBVIOUS
  <2>2. Channels /\ \A s \in Subs : buffer[s] = <<>> /\ handled[s] = <<>>
    BY <2>1 DEF Init, Channels
  <2>3. \A s \in Subs : /\ buffer[s] \in Seq(Messages) /\ Len(buffer[s]) <= Capacity
                       /\ handled[s] \in Seq(Messages)
    <3>1. 0 <= Capacity
      OBVIOUS
    <3> QED BY <2>1, <2>2, <3>1, Zenon
  <2>4. TypeOK
    BY <2>3 DEF Init, TypeOK
  <2> QED BY <2>2, <2>4 DEF Init, MapInv, NoPanic, SendsToMap, MapIsOpen
<1>2. MapInv /\ [Next]_vars => MapInv'
  <2> SUFFICES ASSUME MapInv, [Next]_vars PROVE MapInv'
    OBVIOUS
  <2> USE DEF MapInv, TypeOK, Channels, NoPanic, SendsToMap, MapIsOpen, Runs, Panics,
              subVars, consumeVars, publishVars
  <2>1. ASSUME NEW s \in Subs, On(s) PROVE MapInv'
    BY <2>1 DEF On, MuFree
  <2>2. ASSUME NEW s \in Subs, Unsub(s) PROVE MapInv'
    <3>1. OfTopic(s) # {} => s \notin shut
      BY <2>2 DEF Unsub, OfTopic
    <3> QED BY <2>2, <3>1 DEF Unsub, MuFree
  <2>3. CASE Close
    BY <2>3 DEF Close, MuFree
  <2>4. ASSUME NEW m \in Messages, PublishBegins(m) PROVE MapInv'
    BY <2>4 DEF PublishBegins, OfTopic
  <2>5. ASSUME NEW m \in Messages, PublishReturns(m) PROVE MapInv'
    BY <2>5 DEF PublishReturns
  <2>6. ASSUME NEW m \in Messages, NEW s \in Subs, Send(m, s) PROVE MapInv'
    <3>1. buffer' \in [Subs -> Seq(Messages)]
      BY <2>6 DEF Send
    <3>2. \A t \in Subs : Len(buffer'[t]) <= Capacity
      BY <2>6 DEF Send
    <3>3. UNCHANGED <<closed, subs, shut, unsubbed, consumer, handled, publish,
                      earlier>>
      BY <2>6 DEF Send
    <3>4. proc' = "running"
      <4>1. publish[m] = "sending" /\ s \in subs
        BY <2>6 DEF Send
      <4> QED BY <2>6, <4>1 DEF Send
    <3>5. toSend' \in [Messages -> SUBSET Subs] /\ SendsToMap'
      BY <2>6 DEF Send
    <3> QED BY <3>1, <3>2, <3>3, <3>4, <3>5
  <2>7. ASSUME NEW s \in Subs, Receive(s) PROVE MapInv'
    <3>1. Head(buffer[s]) \in Messages /\ Tail(buffer[s]) \in Seq(Messages)
      BY <2>7 DEF Receive
    <3>2. Len(Tail(buffer[s])) <= Capacity
      BY <2>7 DEF Receive
    <3>3. buffer' \in [Subs -> Seq(Messages)] /\ handled' \in [Subs -> Seq(Messages)]
      BY <2>7, <3>1 DEF Receive
    <3>4. \A t \in Subs : Len(buffer'[t]) <= Capacity
      BY <2>7, <3>2 DEF Receive
    <3>5. consumer' \in [Subs -> {"none", "ready", "handling", "ended"}]
          /\ \A t \in Subs : consumer[t] # "none" => consumer'[t] # "none"
      BY <2>7 DEF Receive
    <3>6. UNCHANGED <<proc, subVars, publishVars>>
      BY <2>7 DEF Receive
    <3> QED BY <3>3, <3>4, <3>5, <3>6
  <2>8. ASSUME NEW s \in Subs, HandlerReturns(s) \/ ConsumerEnds(s) PROVE MapInv'
    <3>1. consumer' \in [Subs -> {"none", "ready", "handling", "ended"}]
          /\ \A t \in Subs : consumer[t] # "none" => consumer'[t] # "none"
      BY <2>8 DEF HandlerReturns, ConsumerEnds
    <3>2. UNCHANGED <<proc, subVars, publishVars, buffer, handled>>
      BY <2>8 DEF HandlerReturns, ConsumerEnds
    <3> QED BY <3>1, <3>2
  <2>9. CASE UNCHANGED vars
    BY <2>9 DEF vars
  <2> QED BY <2>1, <2>2, <2>3, <2>4, <2>5, <2>6, <2>7, <2>8, <2>9
          DEF Next, Consume, PublishNext
<1> QED BY <1>1, <1>2, PTL DEF Spec

-----------------------------------------------------------------------------
(***************************************************************************)
(* The order of messages.                                                  *)
(***************************************************************************)

\* Steps that change neither what subscribers see nor the sends.
LEMMA OrderKeeps ==
  ASSUME OrderInv, \A s \in Subs : Seen(s)' = Seen(s),
         UNCHANGED <<publish, toSend, earlier>>
  PROVE  OrderInv'
  BY DEF OrderInv, SentOnce, EarlierIsDone, InOrder

LEMMA SeenIsSeq ==
  ASSUME MapInv, NEW s \in Subs
  PROVE  Seen(s) \in Seq(Messages)
<1>1. buffer[s] \in Seq(Messages) /\ handled[s] \in Seq(Messages)
  BY DEF MapInv, Channels
<1> QED BY <1>1 DEF Seen

LEMMA SendKeepsOrder ==
  ASSUME MapInv, OrderInv, NEW m \in Messages, NEW s \in Subs, Send(m, s)
  PROVE  OrderInv'
<1> DEFINE seen == handled[s] \o buffer[s]
<1> USE DEF MapInv, TypeOK, Channels
<1>1. publish[m] = "sending"
  BY DEF Send, SendsToMap
<1>2. UNCHANGED <<publish, earlier, handled>>
      /\ toSend' = [toSend EXCEPT ![m] = @ \ {s}] /\ s \in toSend[m]
  BY DEF Send, consumeVars
<1>3. \A t \in Subs : t # s => Seen(t)' = Seen(t)
  BY <1>2 DEF Send, Seen
<1>4. CASE Len(buffer[s]) >= Capacity
  <2>1. buffer' = buffer
    BY <1>4 DEF Send
  <2> QED BY <2>1, <1>2 DEF OrderInv, SentOnce, EarlierIsDone, InOrder, Seen
<1>5. CASE Len(buffer[s]) < Capacity
  <2>1. Seen(s)' = handled[s] \o Append(buffer[s], m)
    BY <1>5, <1>2 DEF Send, Seen
  <2>2. /\ Len(Seen(s)') = Len(seen) + 1
        /\ Seen(s)'[Len(seen) + 1] = m
        /\ \A i \in 1 .. Len(seen) : Seen(s)'[i] = seen[i]
        /\ seen \in Seq(Messages) /\ Seen(s)' \in Seq(Messages)
    BY <2>1, AppendAfter
  <2>3. \A i \in 1 .. Len(seen) : /\ publish[seen[i]] \in {"sending", "done"}
                                  /\ s \notin toSend[seen[i]]
                                  /\ seen[i] \in Messages
    BY <2>2 DEF OrderInv, SentOnce, Seen
  <2>4. SentOnce'
    <3> SUFFICES ASSUME NEW t \in Subs, NEW i \in Nat, i \in DOMAIN Seen(t)'
                 PROVE  /\ publish'[Seen(t)'[i]] \in {"sending", "done"}
                        /\ t \notin toSend'[Seen(t)'[i]]
      BY DEF SentOnce
    <3>1. CASE t # s
      <4>1. Seen(t)' = Seen(t) /\ Seen(t) \in Seq(Messages)
        BY <1>3, <3>1, SeenIsSeq
      <4>2. /\ publish[Seen(t)[i]] \in {"sending", "done"}
            /\ t \notin toSend[Seen(t)[i]] /\ Seen(t)[i] \in Messages
        BY <4>1 DEF OrderInv, SentOnce
      <4> QED BY <1>2, <4>1, <4>2
    <3>2. CASE t = s /\ i = Len(seen) + 1
      BY <3>2, <2>2, <1>1, <1>2
    <3>3. CASE t = s /\ i # Len(seen) + 1
      <4>1. i \in 1 .. Len(seen)
        BY <3>3, <2>2
      <4> QED BY <3>3, <4>1, <2>2, <2>3, <1>2
    <3> QED BY <3>1, <3>2, <3>3
  <2>5. EarlierIsDone'
    BY <1>2 DEF OrderInv, EarlierIsDone
  <2>6. InOrder'
    <3> SUFFICES ASSUME NEW t \in Subs, NEW i \in DOMAIN Seen(t)',
                        NEW j \in DOMAIN Seen(t)', i < j
                 PROVE  /\ Seen(t)'[j] # Seen(t)'[i]
                        /\ Seen(t)'[j] \notin earlier'[Seen(t)'[i]]
      BY DEF InOrder
    <3>1. CASE t # s
      BY <3>1, <1>2, <1>3 DEF OrderInv, InOrder
    <3>2. CASE t = s /\ j = Len(seen) + 1
      <4>1. i \in 1 .. Len(seen) /\ Seen(s)'[i] = seen[i] /\ Seen(s)'[j] = m
        BY <3>2, <2>2
      <4>2. seen[i] # m
        BY <4>1, <2>3, <1>2
      <4>3. m \notin earlier[seen[i]]
        BY <4>1, <2>3, <1>1 DEF OrderInv, EarlierIsDone
      <4> QED BY <3>2, <4>1, <4>2, <4>3, <1>2
    <3>3. CASE t = s /\ j # Len(seen) + 1
      <4>1. i \in DOMAIN seen /\ j \in DOMAIN seen
            /\ Seen(s)'[i] = seen[i] /\ Seen(s)'[j] = seen[j]
        BY <3>3, <2>2
      <4> QED BY <3>3, <4>1, <1>2 DEF OrderInv, InOrder, Seen
    <3> QED BY <3>1, <3>2, <3>3
  <2> QED BY <2>4, <2>5, <2>6 DEF OrderInv
<1> QED BY <1>4, <1>5

\* A Publish that begins or returns.
LEMMA PublishKeepsOrder ==
  ASSUME MapInv, OrderInv, NEW m \in Messages, PublishBegins(m) \/ PublishReturns(m)
  PROVE  OrderInv'
<1> USE DEF MapInv, TypeOK, Channels, subVars, consumeVars
<1>1. \A s \in Subs : Seen(s)' = Seen(s) /\ Seen(s) \in Seq(Messages)
  BY SeenIsSeq DEF PublishBegins, PublishReturns, Seen
<1>2. ASSUME NEW s \in Subs, NEW i \in DOMAIN Seen(s)
      PROVE  /\ Seen(s)[i] \in Messages
             /\ publish[Seen(s)[i]] \in {"sending", "done"}
             /\ s \notin toSend[Seen(s)[i]]
  BY <1>1, <1>2 DEF OrderInv, SentOnce
<1>3. CASE PublishBegins(m)
  <2>1. /\ publish[m] = "new"
        /\ publish' = [publish EXCEPT ![m] = IF closed THEN "refused" ELSE "sending"]
        /\ toSend' = [toSend EXCEPT ![m] = IF closed THEN {} ELSE OfTopic(m)]
        /\ earlier' = [earlier EXCEPT ![m] = {n \in Messages : publish[n] = "done"}]
    BY <1>3 DEF PublishBegins
  <2>2. SentOnce'
    BY <1>1, <1>2, <2>1 DEF SentOnce
  <2>3. EarlierIsDone'
    BY <2>1 DEF OrderInv, EarlierIsDone
  <2>4. ASSUME NEW s \in Subs, NEW i \in DOMAIN Seen(s)
        PROVE  Seen(s)[i] # m /\ earlier'[Seen(s)[i]] = earlier[Seen(s)[i]]
    BY <2>1, <1>2, <2>4
  <2>5. InOrder'
    BY <1>1, <2>4 DEF OrderInv, InOrder
  <2> QED BY <2>2, <2>3, <2>5 DEF OrderInv
<1>4. CASE PublishReturns(m)
  <2>1. /\ publish[m] = "sending" /\ UNCHANGED <<toSend, earlier>>
        /\ publish' = [publish EXCEPT ![m] = "done"]
    BY <1>4 DEF PublishReturns
  <2> QED BY <1>1, <1>2, <2>1 DEF OrderInv, SentOnce, EarlierIsDone, InOrder
<1> QED BY <1>3, <1>4

LEMMA ConsumeKeepsSeen ==
  ASSUME MapInv, NEW s \in Subs, Consume(s)
  PROVE  \A t \in Subs : Seen(t)' = Seen(t)
<1>1. CASE Receive(s)
  <2>1. buffer[s] \in Seq(Messages) /\ handled[s] \in Seq(Messages)
    BY DEF MapInv, Channels
  <2>2. Append(handled[s], Head(buffer[s])) \o Tail(buffer[s])
          = handled[s] \o buffer[s]
    BY <1>1, <2>1, HeadMoves DEF Receive
  <2> QED BY <1>1, <2>2 DEF Receive, Seen, MapInv, Channels
<1>2. CASE HandlerReturns(s) \/ ConsumerEnds(s)
  BY <1>2 DEF HandlerReturns, ConsumerEnds, Seen
<1> QED BY <1>1, <1>2 DEF Consume

LEMMA OrderInvariant == Spec => []OrderInv
<1>1. Init => OrderInv
  <2> SUFFICES ASSUME Init PROVE OrderInv
    OBVIOUS
  <2>1. ASSUME NEW s \in Subs PROVE DOMAIN Seen(s) = {}
    <3>1. Seen(s) = <<>>
      BY DEF Init, Seen
    <3> QED BY <3>1
  <2> QED BY <2>1 DEF Init, OrderInv, SentOnce, EarlierIsDone, InOrder
<1>2. MapInv /\ OrderInv /\ [Next]_vars => OrderInv'
  <2> SUFFICES ASSUME MapInv, OrderInv, [Next]_vars PROVE OrderInv'
    OBVIOUS
  <2> USE DEF subVars, consumeVars, publishVars, Seen
  <2>1. CASE Close \/ \E s \in Subs : On(s) \/ Unsub(s)
    BY <2>1, OrderKeeps DEF Close, On, Unsub
  <2>2. ASSUME NEW m \in Messages, PublishNext(m) PROVE OrderInv'
    BY <2>2, SendKeepsOrder, PublishKeepsOrder DEF PublishNext
  <2>3. ASSUME NEW s \in Subs, Consume(s) PROVE OrderInv'
    BY <2>3, ConsumeKeepsSeen, OrderKeeps
    DEF Consume, Receive, HandlerReturns, ConsumerEnds
  <2>4. CASE UNCHANGED vars
    BY <2>4, OrderKeeps DEF vars
  <2> QED BY <2>1, <2>2, <2>3, <2>4 DEF Next
<1> QED BY <1>1, <1>2, MapInvariant, PTL DEF Spec

-----------------------------------------------------------------------------
(***************************************************************************)
(* What a Publish leaves behind.                                           *)
(***************************************************************************)

LEMMA SendKeepsSentOrFull ==
  ASSUME MapInv, SentOrFull, NEW n \in Messages, NEW t \in Subs, Send(n, t)
  PROVE  SentOrFull'
<1> USE DEF MapInv, TypeOK, Channels
<1>1. /\ UNCHANGED <<subs, publish, handled>>
      /\ toSend' = [toSend EXCEPT ![n] = @ \ {t}]
  BY DEF Send, subVars, consumeVars
<1>2. \A s \in Subs : s # t => Seen(s)' = Seen(s)
  BY <1>1 DEF Send, Seen
<1>3. CASE Len(buffer[t]) >= Capacity
  <2>1. buffer' = buffer
    BY <1>3 DEF Send
  <2>2. Len(Seen(t)) >= Capacity
    BY <1>3 DEF Seen
  <2> QED BY <1>1, <2>1, <2>2 DEF SentOrFull, Seen
<1>4. CASE Len(buffer[t]) < Capacity
  <2>1. Seen(t)' = handled[t] \o Append(buffer[t], n)
    BY <1>1, <1>4 DEF Send, Seen
  <2>2. /\ Seen(t) \in Seq(Messages) /\ Len(Seen(t)') = Len(Seen(t)) + 1
        /\ Seen(t)' \in Seq(Messages)
        /\ Seen(t)'[Len(Seen(t)) + 1] = n
        /\ \A i \in 1 .. Len(Seen(t)) : Seen(t)'[i] = Seen(t)[i]
    BY <2>1, AppendAfter DEF Seen
  <2>3. n \in Range(Seen(t)') /\ Range(Seen(t)) \subseteq Range(Seen(t)')
    BY <2>2, LongerHasRange
  <2> QED BY <1>1, <1>2, <2>2, <2>3 DEF SentOrFull
<1> QED BY <1>3, <1>4

LEMMA SentOrFullAlways == Spec => []SentOrFull
<1>1. Init => SentOrFull
  BY DEF Init, SentOrFull
<1>2. MapInv /\ SentOrFull /\ [Next]_vars => SentOrFull'
  <2> SUFFICES ASSUME MapInv, SentOrFull, [Next]_vars PROVE SentOrFull'
    OBVIOUS
  <2> USE DEF subVars, consumeVars, publishVars
  <2>1. CASE Close \/ \E s \in Subs : On(s) \/ Unsub(s)
    <3>1. MuFree /\ publish' = publish
      BY <2>1 DEF Close, On, Unsub
    <3> QED BY <3>1 DEF MuFree, SentOrFull
  <2>2. ASSUME NEW m \in Messages, NEW s \in Subs, Send(m, s) PROVE SentOrFull'
    BY <2>2, SendKeepsSentOrFull
  <2>3. ASSUME NEW m \in Messages, PublishBegins(m) PROVE SentOrFull'
    BY <2>3 DEF PublishBegins, OfTopic, SentOrFull, Seen, MapInv, TypeOK
  <2>4. ASSUME NEW m \in Messages, PublishReturns(m) PROVE SentOrFull'
    BY <2>4 DEF PublishReturns, SentOrFull, Seen, MapInv, TypeOK
  <2>5. ASSUME NEW s \in Subs, Consume(s) PROVE SentOrFull'
    <3>1. \A t \in Subs : Seen(t)' = Seen(t)
      BY <2>5, ConsumeKeepsSeen
    <3>2. UNCHANGED <<subs, publish, toSend>>
      BY <2>5 DEF Consume, Receive, HandlerReturns, ConsumerEnds
    <3> QED BY <3>1, <3>2 DEF SentOrFull, MapInv, TypeOK
  <2>6. CASE UNCHANGED vars
    BY <2>6 DEF vars, SentOrFull, Seen
  <2> QED BY <2>1, <2>2, <2>3, <2>4, <2>5, <2>6 DEF Next, PublishNext
<1> QED BY <1>1, <1>2, MapInvariant, PTL DEF Spec

-----------------------------------------------------------------------------
(***************************************************************************)
(* What a channel that is closed leaves behind.                            *)
(***************************************************************************)

LEMMA DrainInvariant == Spec => []DrainInv
<1>1. Init => DrainInv
  BY DEF Init, DrainInv, OpenOrShut, EndedIsDrained
<1>2. MapInv /\ DrainInv /\ [Next]_vars => DrainInv'
  <2> SUFFICES ASSUME MapInv, DrainInv, [Next]_vars PROVE DrainInv'
    OBVIOUS
  <2> USE DEF subVars, consumeVars, publishVars, DrainInv, OpenOrShut, EndedIsDrained
  <2>1. ASSUME NEW s \in Subs, On(s) PROVE DrainInv'
    BY <2>1 DEF On, MapInv, TypeOK, MapIsOpen
  <2>2. ASSUME NEW s \in Subs, Unsub(s) PROVE DrainInv'
    <3>1. s \in subs => OfTopic(s) # {}
      BY DEF OfTopic
    <3> QED BY <2>2, <3>1 DEF Unsub
  <2>3. CASE Close
    BY <2>3 DEF Close
  <2>4. ASSUME NEW m \in Messages, PublishBegins(m) \/ PublishReturns(m)
        PROVE  DrainInv'
    BY <2>4 DEF PublishBegins, PublishReturns
  <2>5. ASSUME NEW m \in Messages, NEW s \in Subs, Send(m, s) PROVE DrainInv'
    <3>1. s \in subs /\ s \notin shut
      BY <2>5 DEF Send, MapInv, SendsToMap, MapIsOpen, TypeOK
    <3>2. \A u \in Subs : u # s => buffer'[u] = buffer[u]
      BY <2>5 DEF Send, MapInv, Channels
    <3> QED BY <2>5, <3>1, <3>2 DEF Send
  <2>6. ASSUME NEW s \in Subs, Consume(s) PROVE DrainInv'
    BY <2>6 DEF Consume, Receive, HandlerReturns, ConsumerEnds, MapInv, TypeOK, Channels
  <2>7. CASE UNCHANGED vars
    BY <2>7 DEF vars
  <2> QED BY <2>1, <2>2, <2>3, <2>4, <2>5, <2>6, <2>7 DEF Next, PublishNext
<1> QED BY <1>1, <1>2, MapInvariant, PTL DEF Spec

LEMMA SendKeepsBuffered ==
  ASSUME MapInv, NEW n \in Messages, NEW t \in Subs, Send(n, t), NEW s \in Subs
  PROVE  Range(buffer[s]) \subseteq Range(buffer'[s])
<1>1. buffer \in [Subs -> Seq(Messages)]
  BY DEF MapInv, Channels
<1>2. CASE s = t /\ Len(buffer[t]) < Capacity
  <2>1. buffer'[t] = Append(buffer[t], n)
    BY <1>1, <1>2 DEF Send
  <2>2. /\ Append(buffer[t], n) \in Seq(Messages)
        /\ Len(Append(buffer[t], n)) = Len(buffer[t]) + 1
        /\ Append(buffer[t], n)[Len(buffer[t]) + 1] = n
        /\ \A i \in 1 .. Len(buffer[t]) : Append(buffer[t], n)[i] = buffer[t][i]
    BY <1>1
  <2> QED BY <1>1, <1>2, <2>1, <2>2, LongerHasRange
<1>3. CASE ~(s = t /\ Len(buffer[t]) < Capacity)
  <2>1. buffer'[s] = buffer[s]
    BY <1>1, <1>3 DEF Send
  <2> QED BY <2>1
<1> QED BY <1>2, <1>3

LEMMA ReceiveHandsOver ==
  ASSUME MapInv, NEW t \in Subs, Receive(t), NEW s \in Subs, NEW m \in Range(buffer[s])
  PROVE  m \in Range(buffer'[s]) \cup Range(handled'[s])
<1>1. buffer \in [Subs -> Seq(Messages)] /\ handled \in [Subs -> Seq(Messages)]
  BY DEF MapInv, Channels
<1>2. CASE s # t
  BY <1>1, <1>2 DEF Receive
<1>3. CASE s = t
  <2> DEFINE b == buffer[t]
             h == handled[t]
  <2>1. b \in Seq(Messages) /\ h \in Seq(Messages) /\ b # <<>>
    BY <1>1 DEF Receive
  <2>2. buffer'[t] = Tail(b) /\ handled'[t] = Append(h, Head(b))
    BY <1>1 DEF Receive
  <2>3. PICK i \in 1 .. Len(b) : b[i] = m
    BY <1>3, <2>1 DEF Range
  <2>4. CASE i = 1
    <3>1. Append(h, Head(b))[Len(h) + 1] = m /\ Len(h) + 1 \in DOMAIN Append(h, Head(b))
      BY <2>1, <2>3, <2>4
    <3> QED BY <1>3, <2>2, <3>1 DEF Range
  <2>5. CASE i # 1
    <3>1. i - 1 \in DOMAIN Tail(b) /\ Tail(b)[i - 1] = m
      BY <2>1, <2>3, <2>5
    <3> QED BY <1>3, <2>2, <3>1 DEF Range
  <2> QED BY <2>4, <2>5
<1> QED BY <1>2, <1>3

-----------------------------------------------------------------------------
(***************************************************************************)
(* Theorems.                                                               *)
(***************************************************************************)

\* The variables keep their types, and no channel holds more than its capacity.
THEOREM TypeCorrect == Spec => []TypeOK
<1>1. MapInv => TypeOK
  BY DEF MapInv
<1> QED BY <1>1, MapInvariant, PTL

\* No send to a closed channel and no second close panics, however Publish, unsub
\* and Close race, as long as each unsub is called once.
THEOREM NoPanicAlways == Spec => []NoPanic
<1>1. MapInv => NoPanic
  BY DEF MapInv
<1> QED BY <1>1, MapInvariant, PTL

\* A subscriber sees a message once at most, and never before one whose Publish
\* had returned when its own began.
THEOREM InOrderAlways == Spec => []InOrder
<1>1. OrderInv => InOrder
  BY DEF OrderInv
<1> QED BY <1>1, OrderInvariant, PTL

\* What BufferedIsHandled and ConsumersEnd need besides fair consumers: after
\* unsub or Close the channel is closed, whichever came first, so that a consumer
\* is never left waiting and never ends before it has emptied its channel.
THEOREM ConsumerGoesOnAlways == Spec => []ConsumerGoesOn
<1>1. MapInv /\ DrainInv => ConsumerGoesOn
  BY DEF MapInv, TypeOK, MapIsOpen, DrainInv, OpenOrShut, EndedIsDrained, ConsumerGoesOn
<1> QED BY <1>1, MapInvariant, DrainInvariant, PTL

\* No message that found room in a channel is lost or overwritten, whatever is
\* published, unsubscribed or closed.
THEOREM LeavesForHandlerAlways == Spec => LeavesForHandler
<1>1. MapInv /\ [Next]_vars
        => [\A s \in Subs : \A m \in Range(buffer[s]) :
              m \in Range(buffer'[s]) \cup Range(handled'[s])]_vars
  <2> SUFFICES ASSUME MapInv, Next, NEW s \in Subs, NEW m \in Range(buffer[s])
               PROVE  m \in Range(buffer'[s]) \cup Range(handled'[s])
    OBVIOUS
  <2> USE DEF subVars, consumeVars, publishVars
  <2>1. CASE Close \/ \E t \in Subs : On(t) \/ Unsub(t)
    BY <2>1 DEF Close, On, Unsub
  <2>2. ASSUME NEW n \in Messages, PublishBegins(n) \/ PublishReturns(n)
        PROVE  m \in Range(buffer'[s])
    BY <2>2 DEF PublishBegins, PublishReturns
  <2>3. ASSUME NEW n \in Messages, NEW t \in Subs, Send(n, t)
        PROVE  m \in Range(buffer'[s])
    BY <2>3, SendKeepsBuffered
  <2>4. ASSUME NEW t \in Subs, Receive(t)
        PROVE  m \in Range(buffer'[s]) \cup Range(handled'[s])
    BY <2>4, ReceiveHandsOver
  <2>5. ASSUME NEW t \in Subs, HandlerReturns(t) \/ ConsumerEnds(t)
        PROVE  m \in Range(buffer'[s])
    BY <2>5 DEF HandlerReturns, ConsumerEnds
  <2> QED BY <2>1, <2>2, <2>3, <2>4, <2>5 DEF Next, PublishNext, Consume
<1> QED BY <1>1, MapInvariant, PTL DEF Spec, LeavesForHandler

=============================================================================
