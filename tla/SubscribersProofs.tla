--------------------------- MODULE SubscribersProofs ---------------------------
(***************************************************************************)
(* Theorems about Subscribers, for any number of subscriptions, requests   *)
(* and topics: the webhook server and the subscribers use PubSub as it is  *)
(* specified, so that what is proved of it holds of them; a message is     *)
(* routed to the subscription its device topic addresses; and the files    *)
(* of a certificate handler are of one message.                            *)
(***************************************************************************)
EXTENDS Subscribers, PubSubProofs, WellFoundedInduction

\* What a handler has still to write.
Remaining == {<<>>, <<"root_ca.crt">>, <<"secure_tunnel.key", "root_ca.crt">>, Files}

HandlersTyped ==
  /\ stateless \subseteq Certificates
  /\ answer \in [Messages -> {0, 202, 400, 405, 415, 500}]
  /\ left \in [Certificates -> Remaining]
  /\ file \in [Dirs -> [Range(Files) -> Messages \cup {Nothing, Damaged}]]

\* A request that is rejected is never published.
RejectedIsNew == \A m \in Messages : Rejection(m) # 0 => publish[m] = "new"

\* A handler with files to write was called with a valid message and runs.
WritesInHandler ==
  \A s \in Certificates :
    left[s] # <<>> => /\ consumer[s] = "handling"
                      /\ handled[s] # <<>> /\ Current(s) \in ValidPayload

\* The files of a directory that is being written are the new ones up to the
\* one that is next, and any other directory is complete or has a damaged file.
FilesInPlace ==
  \A s \in Certificates, m \in Messages :
    LET d == DirOf(s, m)
    IN  IF left[s] # <<>> /\ d = Dir(s)
          THEN \A f \in Range(Files) \ Range(left[s]) : file[d][f] = Latest(s, d)
          ELSE \/ Damaged \in Range(file[d])
               \/ \A f \in Range(Files) : file[d][f] = Latest(s, d)

HandlerInv == HandlersTyped /\ WritesInHandler /\ FilesInPlace

-----------------------------------------------------------------------------
(***************************************************************************)
(* Routing.                                                                *)
(***************************************************************************)

LEMMA Joined ==
  ASSUME NEW S, NEW a \in Seq(S), NEW b \in Seq(S)
  PROVE  /\ a \o b \in Seq(S) /\ Len(a \o b) = Len(a) + Len(b)
         /\ \A k \in 1 .. Len(a) : (a \o b)[k] = a[k]
         /\ \A k \in 1 .. Len(b) : (a \o b)[Len(a) + k] = b[k]
  OBVIOUS

LEMMA SameSequence ==
  ASSUME NEW S, NEW a \in Seq(S), NEW b \in Seq(S), Len(a) = Len(b),
         \A k \in 1 .. Len(a) : a[k] = b[k]
  PROVE  a = b
  OBVIOUS

\* Where the thing name is inserted into a topic, and what it leaves in place.
LEMMA InsertedAt ==
  ASSUME NEW S, NEW t \in Seq(S), NEW i \in 1 .. Len(t), NEW e \in S
  PROVE  /\ InsertAt(t, i + 1, e) \in Seq(S)
         /\ Len(InsertAt(t, i + 1, e)) = Len(t) + 1
         /\ InsertAt(t, i + 1, e)[i + 1] = e
         /\ \A k \in 1 .. i : InsertAt(t, i + 1, e)[k] = t[k]
         /\ \A k \in i + 1 .. Len(t) : InsertAt(t, i + 1, e)[k + 1] = t[k]
<1> DEFINE a == SubSeq(t, 1, i)
           c == a \o <<e>>
           b == SubSeq(t, i + 1, Len(t))
           u == c \o b
<1>1. i \in Nat /\ Len(t) \in Nat /\ i >= 1 /\ i <= Len(t) /\ (i + 1) - 1 = i
  OBVIOUS
<1>2. /\ a \in Seq(S) /\ Len(a) = i
      /\ \A k \in 1 .. i : a[k] = t[k]
  BY <1>1
<1>3. /\ b \in Seq(S) /\ Len(b) = Len(t) - i
      /\ \A k \in 1 .. Len(t) - i : b[k] = t[i + k]
  BY <1>1
<1>4. InsertAt(t, i + 1, e) = u
  BY <1>1 DEF InsertAt
<1>5. /\ c \in Seq(S) /\ Len(c) = i + 1 /\ c[i + 1] = e
      /\ \A k \in 1 .. i : c[k] = t[k]
  BY <1>1, <1>2
<1> HIDE DEF a, b, c
<1>6. /\ u \in Seq(S) /\ Len(u) = Len(c) + Len(b)
      /\ \A k \in 1 .. Len(c) : u[k] = c[k]
      /\ \A k \in 1 .. Len(b) : u[Len(c) + k] = b[k]
  <2>1. c \in Seq(S) /\ b \in Seq(S)
    BY <1>3, <1>5
  <2>2. c \o b \in Seq(S) /\ Len(c \o b) = Len(c) + Len(b)
    BY <2>1
  <2>3. \A k \in 1 .. Len(c) : (c \o b)[k] = c[k]
    BY <2>1, Joined, Zenon
  <2>4. \A k \in 1 .. Len(b) : (c \o b)[Len(c) + k] = b[k]
    BY <2>1
  <2> QED BY <2>2, <2>3, <2>4
<1> HIDE DEF u
<1>7. Len(u) = Len(t) + 1
  BY <1>1, <1>3, <1>5, <1>6
<1>8. u[i + 1] = e /\ \A k \in 1 .. i : u[k] = t[k]
  BY <1>1, <1>5, <1>6
<1>9. ASSUME NEW k \in i + 1 .. Len(t) PROVE u[k + 1] = t[k]
  <2> DEFINE j == k - i
  <2>1. j \in 1 .. Len(t) - i /\ (i + 1) + j = k + 1 /\ i + j = k
    BY <1>1
  <2> HIDE DEF j
  <2>2. u[(i + 1) + j] = b[j] /\ b[j] = t[i + j]
    BY <2>1, <1>3, <1>5, <1>6
  <2> QED BY <2>1, <2>2
<1> QED BY <1>4, <1>6, <1>7, <1>8, <1>9

\* Taking it out again gives the topic back.
LEMMA RemovedAt ==
  ASSUME NEW S, NEW t \in Seq(S), NEW i \in 1 .. Len(t), NEW e \in S
  PROVE  RemoveAt(InsertAt(t, i + 1, e), i + 1) = t
<1> DEFINE u == InsertAt(t, i + 1, e)
           a == SubSeq(u, 1, i)
           b == SubSeq(u, i + 2, Len(u))
           v == a \o b
<1>1. /\ i \in Nat /\ Len(t) \in Nat /\ i >= 1 /\ i <= Len(t)
      /\ (i + 1) - 1 = i /\ (i + 1) + 1 = i + 2
  OBVIOUS
<1>2. /\ u \in Seq(S) /\ Len(u) = Len(t) + 1
      /\ \A k \in 1 .. i : u[k] = t[k]
      /\ \A k \in i + 1 .. Len(t) : u[k + 1] = t[k]
  BY InsertedAt
<1>3. RemoveAt(u, i + 1) = v
  BY <1>1 DEF RemoveAt
<1> HIDE DEF u
<1>4. /\ a \in Seq(S) /\ Len(a) = i
      /\ \A k \in 1 .. i : a[k] = t[k]
  BY <1>1, <1>2
<1>5. /\ b \in Seq(S) /\ Len(b) = Len(t) - i
      /\ \A k \in 1 .. Len(t) - i : b[k] = u[(i + k) + 1]
  BY <1>1, <1>2
<1>6. ASSUME NEW k \in 1 .. Len(t) - i PROVE b[k] = t[i + k]
  <2>1. i + k \in i + 1 .. Len(t)
    BY <1>1
  <2> QED BY <2>1, <1>2, <1>5
<1> HIDE DEF a, b
<1>7. /\ v \in Seq(S) /\ Len(v) = Len(a) + Len(b)
      /\ \A k \in 1 .. Len(a) : v[k] = a[k]
      /\ \A k \in 1 .. Len(b) : v[Len(a) + k] = b[k]
  <2>1. a \in Seq(S) /\ b \in Seq(S)
    BY <1>4, <1>5
  <2>2. a \o b \in Seq(S) /\ Len(a \o b) = Len(a) + Len(b)
    BY <2>1
  <2>3. \A k \in 1 .. Len(a) : (a \o b)[k] = a[k]
    BY <2>1, Joined, Zenon
  <2>4. \A k \in 1 .. Len(b) : (a \o b)[Len(a) + k] = b[k]
    BY <2>1
  <2> QED BY <2>2, <2>3, <2>4
<1> HIDE DEF v
<1>8. Len(v) = Len(t)
  BY <1>1, <1>4, <1>5, <1>7
<1>9. ASSUME NEW k \in 1 .. Len(v) PROVE v[k] = t[k]
  <2>1. CASE k <= i
    BY <2>1, <1>1, <1>4, <1>7
  <2>2. CASE k > i
    <3> DEFINE j == k - i
    <3>1. j \in 1 .. Len(t) - i /\ i + j = k
      BY <2>2, <1>1, <1>8
    <3> HIDE DEF j
    <3> QED BY <3>1, <1>4, <1>5, <1>6, <1>7
  <2> QED BY <2>1, <2>2, <1>1
<1>10. v = t
  BY <1>7, <1>8, <1>9, SameSequence
<1> QED BY <1>3, <1>10 DEF u

LEMMA SmallestIs ==
  ASSUME NEW A \in SUBSET Int, NEW i \in A, \A j \in A : i <= j
  PROVE  Min(A) = i
<1> DEFINE x == CHOOSE j \in A : \A k \in A : j <= k
<1>1. x \in A /\ \A k \in A : x <= k
  OBVIOUS
<1> HIDE DEF x
<1>2. x \in Int /\ i \in Int /\ x <= i /\ i <= x
  BY <1>1
<1> QED BY <1>2 DEF Min, x

LEMMA PrefixOfItself ==
  ASSUME NEW S, NEW e \in Seq(S)
  PROVE  IsPrefix(e, e) /\ SubSeq(e, Len(e) + 1, Len(e)) = <<>>
  BY DEF IsPrefix

\* The same where a thing name is inserted into a topic.
LEMMA ThingInserted ==
  ASSUME NEW t \in Seq(Seq(STRING)), NEW i \in 1 .. Len(t), NEW thing \in Seq(STRING)
  PROVE  /\ InsertAt(t, i + 1, thing) \in Seq(Seq(STRING))
         /\ Len(InsertAt(t, i + 1, thing)) = Len(t) + 1
         /\ InsertAt(t, i + 1, thing)[i + 1] = thing
         /\ \A k \in 1 .. i : InsertAt(t, i + 1, thing)[k] = t[k]
<1> DEFINE Segment == Seq(STRING)
<1>1. t \in Seq(Segment) /\ thing \in Segment
  OBVIOUS
<1> HIDE DEF Segment
<1>2. /\ InsertAt(t, i + 1, thing) \in Seq(Segment)
      /\ Len(InsertAt(t, i + 1, thing)) = Len(t) + 1
      /\ InsertAt(t, i + 1, thing)[i + 1] = thing
      /\ \A k \in 1 .. i : InsertAt(t, i + 1, thing)[k] = t[k]
  BY <1>1, InsertedAt
<1> QED BY <1>2 DEF Segment

\* A topic without the thing name is routed as it is, and one with the thing
\* name inserted after Things as it was before.
LEMMA Normalizes ==
  ASSUME NEW t, SubscribersTopic(t), NEW thing \in Seq(STRING)
  PROVE  /\ Things \notin Range(t) => normalizeMQTTTopic(t, thing) = t
         /\ \A i \in DOMAIN t :
              t[i] = Things
                => normalizeMQTTTopic(InsertAt(t, i + 1, thing), thing) = t
<1> DEFINE hits(u) == {k \in 2 .. Len(u) - 1 :
                         u[k] = Things /\ IsPrefix(thing, u[k + 1])}
<1>1. t \in Seq(Seq(STRING)) /\ DOMAIN t = 1 .. Len(t) /\ Len(t) \in Nat
  BY DEF SubscribersTopic
<1>2. ASSUME Things \notin Range(t) PROVE normalizeMQTTTopic(t, thing) = t
  <2>1. hits(t) = {}
    BY <1>1, <1>2 DEF Range
  <2> QED BY <2>1 DEF normalizeMQTTTopic
<1>3. ASSUME NEW i \in DOMAIN t, t[i] = Things
      PROVE  normalizeMQTTTopic(InsertAt(t, i + 1, thing), thing) = t
  <2> DEFINE u == InsertAt(t, i + 1, thing)
  <2>1. i \in 2 .. Len(t) /\ i \in 1 .. Len(t)
    <3>1. i # 1
      BY <1>3 DEF SubscribersTopic
    <3> QED BY <3>1, <1>1
  <2>2. /\ u \in Seq(Seq(STRING)) /\ Len(u) = Len(t) + 1 /\ u[i + 1] = thing
        /\ \A k \in 1 .. i : u[k] = t[k]
    <3>1. t \in Seq(Seq(STRING)) /\ i \in 1 .. Len(t)
      BY <1>1, <2>1
    <3> QED BY <3>1, ThingInserted, Zenon
  <2>3. RemoveAt(u, i + 1) = t
    BY <1>1, <2>1, RemovedAt
  <2> HIDE DEF u
  <2>4. i \in hits(u)
    <3>1. i \in 2 .. Len(u) - 1 /\ u[i] = Things
      BY <1>1, <1>3, <2>1, <2>2
    <3>2. IsPrefix(thing, u[i + 1])
      BY <2>2, PrefixOfItself
    <3> QED BY <3>1, <3>2
  <2>5. ASSUME NEW k \in hits(u) PROVE i <= k
    <3>1. CASE k < i
      <4>1. k \in 2 .. Len(u) - 1 /\ u[k] = Things
        OBVIOUS
      <4>2. k \in 1 .. i /\ k \in DOMAIN t
        BY <3>1, <4>1, <1>1, <2>1
      <4>3. t[k] = Things
        BY <4>1, <4>2, <2>2
      <4>4. k = i
        BY <4>2, <4>3, <1>3 DEF SubscribersTopic
      <4> QED BY <3>1, <4>4, <2>1
    <3> QED BY <3>1, <2>1
  <2>6. Min(hits(u)) = i
    <3>1. hits(u) \in SUBSET Int
      OBVIOUS
    <3> QED BY <3>1, <2>4, <2>5, SmallestIs
  <2>7. SubSeq(u[i + 1], Len(thing) + 1, Len(u[i + 1])) = <<>>
    BY <2>2, PrefixOfItself
  <2>8. hits(u) # {}
    BY <2>4
  <2>9. normalizeMQTTTopic(u, thing) = RemoveAt(u, i + 1)
    BY <2>6, <2>7, <2>8, Zenon DEF normalizeMQTTTopic
  <2> QED BY <2>3, <2>9 DEF u
<1> QED BY <1>2, <1>3

\* A request that is not rejected and whose device topic is that of a
\* subscription with the thing name in it, as cloud topics are (server.go:97),
\* is published to the topic of that subscription: "/things/" and the name
\* lose the name, whatever else the topic holds.
THEOREM Routed ==
  ASSUME NEW m \in Messages, NEW s \in Subs, Rejection(m) = 0, Addresses(m, s)
  PROVE  TopicOf[s] = TopicOf[m]
<1>1. /\ TopicOf[m] = normalizeMQTTTopic(Request[m].topic, Request[m].thing)
      /\ SubscribersTopic(TopicOf[s])
      /\ Request[m].thing \in Seq(STRING)
  BY SubscribersAssumption
<1> QED BY <1>1, Normalizes DEF Addresses

-----------------------------------------------------------------------------
(***************************************************************************)
(* Webhook server and subscribers are a use of PubSub.                     *)
(***************************************************************************)

LEMMA StepIsPubSub == [SubscribersNext]_allVars => [Next]_vars
<1> SUFFICES ASSUME [SubscribersNext]_allVars PROVE [Next]_vars
  OBVIOUS
<1>1. ASSUME NEW m \in Messages, Webhook(m) PROVE [Next]_vars
  BY <1>1 DEF Webhook, Rejects, Publishes, Sends, Accepts, Next, PublishNext
<1>2. ASSUME NEW s \in Subs, Goroutine(s) \/ WriteFails(s) PROVE [Next]_vars
  <2>1. CASE HandlerBegins(s) \/ HandlerEnds(s) \/ GoroutineEnds(s)
    BY <2>1 DEF HandlerBegins, HandlerEnds, GoroutineEnds, Next, Consume
  <2>2. ASSUME NEW content, Write(s, content) PROVE UNCHANGED vars
    BY <2>2 DEF Write, Runs, vars
  <2> QED BY <1>2, <2>1, <2>2 DEF Goroutine, WriteFile, WriteFails
<1>3. CASE ((\E s \in Subs : On(s) \/ Unsub(s)) \/ Close)
           /\ UNCHANGED <<answer, handlerVars>>
  BY <1>3 DEF Next
<1>4. CASE UNCHANGED allVars
  BY <1>4 DEF allVars
<1> QED BY <1>1, <1>2, <1>3, <1>4, SubscribersAssumption DEF SubscribersNext

\* The requests and the handlers of this program drive PubSub by its own
\* operations only, each Publish once and each handler between two receives: a
\* behaviour of the whole is one of PubSub, and what holds of PubSub for any
\* publishers and consumers holds here.
THEOREM UsesPubSub == SubscribersSpec => Spec
<1>1. SubscribersInit => Init
  BY DEF SubscribersInit
<1> QED BY <1>1, StepIsPubSub, PTL DEF SubscribersSpec, Spec

LEMMA PubSubInvariant == SubscribersSpec => [](MapInv /\ OrderInv /\ SentOrFull)
BY UsesPubSub, MapInvariant, OrderInvariant, SentOrFullAlways, PTL

\* With the requests and the handlers of this program no send, unsub or Close
\* panics either, what each handler is called with is in order, and a message
\* in a channel leaves it for the handler only.
THEOREM PubSubSafety ==
  SubscribersSpec => [](NoPanic /\ InOrder /\ ConsumerGoesOn) /\ LeavesForHandler
BY UsesPubSub, NoPanicAlways, InOrderAlways, ConsumerGoesOnAlways,
   LeavesForHandlerAlways, PTL

-----------------------------------------------------------------------------
(***************************************************************************)
(* Requests.                                                               *)
(***************************************************************************)

LEMMA RejectedIsNewAlways == SubscribersSpec => []RejectedIsNew
<1>1. SubscribersInit => RejectedIsNew
  BY DEF SubscribersInit, Init, RejectedIsNew
<1>2. MapInv /\ RejectedIsNew /\ [SubscribersNext]_allVars => RejectedIsNew'
  <2> SUFFICES ASSUME MapInv, RejectedIsNew, [SubscribersNext]_allVars
               PROVE  RejectedIsNew'
    OBVIOUS
  <2>1. publish \in [Messages -> {"new", "sending", "done", "refused"}]
    BY DEF MapInv, TypeOK
  <2>2. ASSUME NEW m \in Messages, Publishes(m) PROVE RejectedIsNew'
    <3>1. Rejection(m) = 0 /\ publish' = [publish EXCEPT
            ![m] = IF closed THEN "refused" ELSE "sending"]
      BY <2>2 DEF Publishes, PublishBegins
    <3> QED BY <2>1, <3>1 DEF RejectedIsNew
  <2>3. ASSUME NEW m \in Messages, Accepts(m) PROVE RejectedIsNew'
    <3>1. publish[m] = "sending" /\ publish' = [publish EXCEPT ![m] = "done"]
      BY <2>3 DEF Accepts, PublishReturns
    <3> QED BY <2>1, <3>1 DEF RejectedIsNew
  <2>4. CASE publish' = publish
    BY <2>4 DEF RejectedIsNew
  <2>5. publish' = publish \/ \E m \in Messages : Publishes(m) \/ Accepts(m)
    <3> USE DEF vars, publishVars
    <3>1. ASSUME NEW m \in Messages, Rejects(m) \/ Sends(m)
          PROVE  publish' = publish
      BY <3>1 DEF Rejects, Sends, Send
    <3>2. ASSUME NEW s \in Subs, Goroutine(s) PROVE publish' = publish
      BY <3>2 DEF Goroutine, HandlerBegins, Receive, WriteFile, Write, HandlerEnds,
                  HandlerReturns, GoroutineEnds, ConsumerEnds
    <3>3. ASSUME NEW s \in Certificates, WriteFails(s) PROVE publish' = publish
      BY <3>3 DEF WriteFails, Write
    <3>4. ASSUME (\E s \in Subs : On(s) \/ Unsub(s)) \/ Close
          PROVE  publish' = publish
      BY <3>4 DEF On, Unsub, Close
    <3> QED BY <3>1, <3>2, <3>3, <3>4 DEF SubscribersNext, Webhook, allVars
  <2> QED BY <2>2, <2>3, <2>4, <2>5
<1> QED BY <1>1, <1>2, PubSubInvariant, PTL DEF SubscribersSpec

LEMMA RejectionIs ==
  ASSUME NEW m
  PROVE  Rejection(m) \in {0, 400, 405, 415}
  BY DEF Rejection

\* A request is answered with 202 when its Publish returns.
LEMMA AcceptedReturns ==
  ASSUME HandlersTyped, NEW m \in Messages, [SubscribersNext]_allVars,
         answer[m] = 0, answer'[m] = 202
  PROVE  PublishReturns(m) /\ publish[m] = "sending" /\ toSend[m] = {}
         /\ UNCHANGED <<subs, buffer, handled>>
<1>1. \E n \in Messages : Rejects(n) \/ Publishes(n) \/ Accepts(n)
  <2> SUFFICES ASSUME \A n \in Messages : ~(Rejects(n) \/ Publishes(n) \/ Accepts(n))
               PROVE  answer' = answer
    OBVIOUS
  <2>1. ASSUME NEW n \in Messages, Sends(n) PROVE answer' = answer
    BY <2>1 DEF Sends
  <2>2. ASSUME NEW s \in Subs, Goroutine(s) \/ WriteFails(s) PROVE answer' = answer
    BY <2>2 DEF Goroutine, HandlerBegins, WriteFile, WriteFails, Write, HandlerEnds,
                GoroutineEnds
  <2> QED BY <2>1, <2>2, SubscribersAssumption DEF SubscribersNext, Webhook, allVars
<1>2. PICK n \in Messages : Rejects(n) \/ Publishes(n) \/ Accepts(n)
  BY <1>1
<1>3. ASSUME NEW status, Answers(n, status) PROVE n = m /\ status = 202
  BY <1>3 DEF Answers, HandlersTyped
<1>4. ~Rejects(n)
  BY <1>3, RejectionIs DEF Rejects
<1>5. ~Publishes(n)
  BY <1>3 DEF Publishes
<1>6. Accepts(n) /\ n = m
  BY <1>2, <1>3, <1>4, <1>5 DEF Accepts
<1> QED BY <1>6 DEF Accepts, PublishReturns, subVars, consumeVars

-----------------------------------------------------------------------------
(***************************************************************************)
(* Handlers.                                                               *)
(***************************************************************************)

LEMMA FilesLeft ==
  ASSUME NEW l \in Remaining, l # <<>>
  PROVE  /\ Head(l) \in Range(Files) /\ Tail(l) \in Remaining
         /\ Range(Files) \ Range(Tail(l)) \subseteq
              (Range(Files) \ Range(l)) \cup {Head(l)}
<1>1. CASE l = Files
  BY <1>1 DEF Remaining, Files, Range
<1>2. CASE l = <<"secure_tunnel.key", "root_ca.crt">>
  BY <1>2 DEF Remaining, Files, Range
<1>3. CASE l = <<"root_ca.crt">>
  BY <1>3 DEF Remaining, Files, Range
<1> QED BY <1>1, <1>2, <1>3 DEF Remaining

LEMMA RemainingIsSuffix ==
  ASSUME NEW l \in Remaining
  PROVE  IsSuffix(l, Files)
<1>1. CASE l = Files
  BY <1>1 DEF Files, IsSuffix, IsPrefix, Reverse
<1>2. CASE l = <<"secure_tunnel.key", "root_ca.crt">>
  BY <1>2 DEF Files, IsSuffix, IsPrefix, Reverse
<1>3. CASE l = <<"root_ca.crt">>
  BY <1>3 DEF Files, IsSuffix, IsPrefix, Reverse
<1>4. CASE l = <<>>
  BY <1>4 DEF Files, IsSuffix, IsPrefix, Reverse
<1> QED BY <1>1, <1>2, <1>3, <1>4 DEF Remaining

\* No two handlers write to the same directory.
LEMMA DirsDiffer ==
  ASSUME NEW s \in Certificates, NEW m \in Messages
  PROVE  /\ DirOf(s, m) \in Dirs
         /\ \A t \in Certificates, n \in Messages :
              DirOf(s, m) = DirOf(t, n) => s = t
  BY SubscribersAssumption DEF DirOf, Dirs

LEMMA LargestIs ==
  ASSUME NEW A \in SUBSET Int, NEW i \in A, \A j \in A : j <= i
  PROVE  Max(A) = i
<1> DEFINE x == CHOOSE j \in A : \A k \in A : j >= k
<1>1. x \in A /\ \A k \in A : x >= k
  OBVIOUS
<1> HIDE DEF x
<1>2. x \in Int /\ i \in Int /\ x <= i /\ i <= x
  BY <1>1
<1> QED BY <1>2 DEF Max, x

LEMMA LargestExists ==
  ASSUME NEW n \in Nat, NEW A \in SUBSET (1 .. n), A # {}
  PROVE  Max(A) \in A
<1> DEFINE T == {n - i : i \in A}
           Less == {p \in Nat \X Nat : p[1] < p[2]}
<1>1. IsWellFoundedOn(Less, Nat)
  BY NatLessThanWellFounded, Zenon DEF OpToRel
<1>2. T \subseteq Nat /\ T # {}
  <2>1. PICK i \in A : TRUE
    OBVIOUS
  <2>2. n - i \in T
    BY <2>1
  <2>3. T \subseteq Nat
    OBVIOUS
  <2> QED BY <2>2, <2>3
<1>3. PICK x \in T : \A y \in T : <<y, x>> \notin Less
  <2> HIDE DEF T, Less
  <2> QED BY <1>1, <1>2, WFMin, Zenon
<1>4. PICK i \in A : x = n - i
  OBVIOUS
<1>5. ASSUME NEW j \in A PROVE j <= i
  <2>1. <<n - j, x>> \notin Less
    BY <1>3
  <2> QED BY <2>1, <1>2, <1>4
<1> HIDE DEF T, Less
<1> QED BY <1>5, LargestIs

LEMMA LatestIsCurrent ==
  ASSUME NEW s \in Certificates, handled[s] \in Seq(Messages), handled[s] # <<>>,
         Current(s) \in ValidPayload
  PROVE  Latest(s, Dir(s)) = Current(s)
<1> DEFINE A == Stored(s, Dir(s))
           i == Len(handled[s])
<1>1. i \in Int /\ A \in SUBSET Int /\ i \in DOMAIN handled[s] /\ \A j \in A : j <= i
  BY DEF Stored
<1>2. i \in A
  BY <1>1 DEF Stored, Current, Last, Dir
<1>3. Max(A) = i
  <2> HIDE DEF A, i
  <2> QED BY <1>1, <1>2, LargestIs
<1> QED BY <1>2, <1>3 DEF Latest, Current, Last

\* A message that is not stored in a directory changes nothing there.
LEMMA LatestStays ==
  ASSUME NEW s \in Certificates, handled[s] \in Seq(Messages),
         NEW e \in Messages, handled'[s] = Append(handled[s], e),
         stateless' = stateless
  PROVE  \A d : (e \in ValidPayload => DirOf(s, e) # d)
                  => Latest(s, d)' = Latest(s, d)
<1> SUFFICES ASSUME NEW d, e \in ValidPayload => DirOf(s, e) # d
             PROVE  Latest(s, d)' = Latest(s, d)
  OBVIOUS
<1>1. /\ Len(handled[s]) \in Nat
      /\ DOMAIN handled[s] = 1 .. Len(handled[s])
      /\ DOMAIN handled'[s] = 1 .. Len(handled[s]) + 1
      /\ handled'[s][Len(handled[s]) + 1] = e
      /\ \A i \in 1 .. Len(handled[s]) : handled'[s][i] = handled[s][i]
  OBVIOUS
<1>2. \A n : DirOf(s, n)' = DirOf(s, n)
  BY DEF DirOf
<1>3. Stored(s, d)' = Stored(s, d)
  BY <1>1, <1>2 DEF Stored
<1>4. Stored(s, d) # {} => Max(Stored(s, d)) \in 1 .. Len(handled[s])
  <2> DEFINE A == Stored(s, d)
             n == Len(handled[s])
  <2>1. A \in SUBSET (1 .. n) /\ n \in Nat
    BY <1>1 DEF Stored
  <2> HIDE DEF A, n
  <2>2. A # {} => Max(A) \in A
    BY <2>1, LargestExists
  <2> QED BY <2>1, <2>2 DEF A, n
<1> HIDE DEF Stored
<1>5. Max(Stored(s, d))' = Max(Stored(s, d)')
  BY DEF Max
<1> QED BY <1>1, <1>3, <1>4, <1>5 DEF Latest

LEMMA SameHandled ==
  ASSUME NEW s, stateless' = stateless, handled'[s] = handled[s]
  PROVE  /\ Current(s)' = Current(s) /\ Dir(s)' = Dir(s)
         /\ \A m : DirOf(s, m)' = DirOf(s, m)
         /\ \A d : Latest(s, d)' = Latest(s, d)
<1>1. /\ Current(s)' = Current(s)
      /\ \A m : DirOf(s, m)' = DirOf(s, m)
  BY DEF Current, Last, DirOf
<1>2. Dir(s)' = Dir(s)
  BY <1>1 DEF Dir, DirOf, Current, Last
<1>3. \A d : Latest(s, d)' = Latest(s, d)
  BY DEF Latest, Stored, DirOf, Max
<1> QED BY <1>1, <1>2, <1>3

\* Steps that neither call a handler nor write.
LEMMA OthersKeepHandlers ==
  ASSUME HandlerInv, UNCHANGED <<handlerVars, handled>>,
         answer' \in [Messages -> {0, 202, 400, 405, 415, 500}],
         \A s \in Certificates : left[s] # <<>> => consumer'[s] = consumer[s]
  PROVE  HandlerInv'
<1>1. UNCHANGED <<stateless, left, file, handled>>
  BY DEF handlerVars
<1>2. HandlersTyped'
  BY <1>1 DEF HandlerInv, HandlersTyped
<1>3. WritesInHandler'
  BY <1>1, SameHandled DEF HandlerInv, WritesInHandler
<1>4. FilesInPlace'
  BY <1>1, SameHandled DEF HandlerInv, FilesInPlace
<1> QED BY <1>2, <1>3, <1>4 DEF HandlerInv

LEMMA BeginKeepsHandlers ==
  ASSUME MapInv, HandlerInv, NEW s \in Subs, HandlerBegins(s)
  PROVE  HandlerInv'
<1> DEFINE e == Head(buffer[s])
<1> USE DEF HandlerInv
<1>1. /\ consumer[s] = "ready" /\ consumer' = [consumer EXCEPT ![s] = "handling"]
      /\ handled' = [handled EXCEPT ![s] = Append(@, e)]
      /\ e \in Messages
      /\ UNCHANGED <<answer, stateless, file>>
  BY DEF HandlerBegins, Receive, MapInv, TypeOK, Channels
<1>2. left' = IF s \in Certificates /\ e \in ValidPayload
                THEN [left EXCEPT ![s] = Files] ELSE left
  BY DEF HandlerBegins
<1>3. \A t \in Subs : handled[t] \in Seq(Messages) /\ handled \in [Subs -> Seq(Messages)]
      /\ consumer \in [Subs -> {"none", "ready", "handling", "ended"}]
  BY DEF MapInv, TypeOK, Channels
<1> HIDE DEF e
<1>4. HandlersTyped'
  BY <1>1, <1>2 DEF HandlersTyped, Remaining
<1>5. ASSUME NEW t \in Certificates, t # s
      PROVE  /\ consumer'[t] = consumer[t] /\ left'[t] = left[t]
             /\ handled'[t] = handled[t]
  BY <1>1, <1>2, <1>3, <1>5, SubscribersAssumption DEF HandlersTyped
<1>6. ASSUME s \in Certificates
      PROVE  /\ left[s] = <<>> /\ consumer'[s] = "handling"
             /\ handled'[s] = Append(handled[s], e)
             /\ handled'[s] # <<>> /\ Last(handled'[s]) = e
             /\ left'[s] = IF e \in ValidPayload THEN Files ELSE <<>>
  <2>1. left[s] = <<>>
    BY <1>1, <1>6 DEF WritesInHandler
  <2>2. handled'[s] = Append(handled[s], e) /\ consumer'[s] = "handling"
    BY <1>1, <1>3
  <2>3. handled'[s] # <<>> /\ Last(handled'[s]) = e
    BY <1>1, <1>3, <2>2 DEF Last
  <2> QED BY <1>2, <1>6, <2>1, <2>2, <2>3 DEF HandlersTyped
<1>7. WritesInHandler'
  <2> SUFFICES ASSUME NEW t \in Certificates, left'[t] # <<>>
               PROVE  /\ consumer'[t] = "handling"
                      /\ handled'[t] # <<>> /\ Current(t)' \in ValidPayload
    BY DEF WritesInHandler
  <2>1. CASE t = s
    BY <2>1, <1>6 DEF Current
  <2>2. CASE t # s
    BY <2>2, <1>1, <1>5, SameHandled DEF WritesInHandler
  <2> QED BY <2>1, <2>2
<1>8. FilesInPlace'
  <2> SUFFICES ASSUME NEW t \in Certificates, NEW m \in Messages
               PROVE  IF left'[t] # <<>> /\ DirOf(t, m)' = Dir(t)'
                        THEN \A f \in Range(Files) \ Range(left'[t]) :
                               file'[DirOf(t, m)'][f] = Latest(t, DirOf(t, m))'
                        ELSE \/ Damaged \in Range(file'[DirOf(t, m)'])
                             \/ \A f \in Range(Files) :
                                  file'[DirOf(t, m)'][f] = Latest(t, DirOf(t, m))'
    BY DEF FilesInPlace
  <2>1. CASE t # s
    BY <2>1, <1>1, <1>5, SameHandled DEF FilesInPlace
  <2>2. CASE t = s
    <3> DEFINE d == DirOf(s, m)
    <3>1. /\ DirOf(s, m)' = d
          /\ Dir(s)' = DirOf(s, e)
      BY <1>1, <1>6, <2>2 DEF Dir, DirOf, Current
    <3>2. \/ Damaged \in Range(file[d])
          \/ \A f \in Range(Files) : file[d][f] = Latest(s, d)
      BY <1>6, <2>2 DEF FilesInPlace
    <3>3. CASE e \in ValidPayload /\ DirOf(s, e) = d
      <4>1. Files # <<>>
        BY DEF Files
      <4> QED BY <4>1, <3>1, <3>3, <2>2, <1>6
    <3>4. CASE ~(e \in ValidPayload /\ DirOf(s, e) = d)
      <4>1. Latest(s, d)' = Latest(s, d)
        <5>1. e \in ValidPayload => DirOf(s, e) # d
          BY <3>4
        <5>2. s \in Certificates /\ handled[s] \in Seq(Messages) /\ e \in Messages
          BY <2>2, <1>1, <1>3
        <5>3. \A c : (e \in ValidPayload => DirOf(s, e) # c)
                      => Latest(s, c)' = Latest(s, c)
          BY <5>2, <2>2, <1>1, <1>6, LatestStays
        <5> QED BY <5>1, <5>3, <3>1
      <4> QED BY <3>1, <3>2, <3>4, <4>1, <2>2, <1>1, <1>6
    <3> QED BY <3>3, <3>4
  <2> QED BY <2>1, <2>2
<1> QED BY <1>4, <1>7, <1>8

\* The file that is next, and no other, is written.
LEMMA FileWritten ==
  ASSUME MapInv, HandlerInv, NEW s \in Certificates, NEW c, Write(s, c)
  PROVE  /\ left[s] \in Remaining /\ left[s] # <<>>
         /\ Head(left[s]) \in Range(Files) /\ Dir(s) \in Dirs
         /\ Current(s) \in Messages
         /\ \A d \in Dirs : d # Dir(s) => file'[d] = file[d]
         /\ DOMAIN file'[Dir(s)] = Range(Files)
         /\ \A f \in Range(Files) :
              file'[Dir(s)][f] = IF f = Head(left[s]) THEN c ELSE file[Dir(s)][f]
         /\ c \in Messages \cup {Nothing, Damaged}
              => file' \in [Dirs -> [Range(Files) -> Messages \cup {Nothing, Damaged}]]
         /\ UNCHANGED <<stateless, answer, handled, consumer>>
<1> DEFINE C == Messages \cup {Nothing, Damaged}
<1>1. /\ left[s] # <<>> /\ UNCHANGED <<stateless, answer, handled, consumer>>
      /\ file' = [file EXCEPT ![Dir(s)][Head(left[s])] = c]
  BY DEF Write, Writing, consumeVars
<1>2. left[s] \in Remaining /\ file \in [Dirs -> [Range(Files) -> C]]
  BY DEF HandlerInv, HandlersTyped
<1>3. Head(left[s]) \in Range(Files)
  BY <1>1, <1>2, FilesLeft
<1>4. Current(s) \in Messages
  <2>1. handled[s] \in Seq(Messages) /\ handled[s] # <<>>
    BY <1>1, SubscribersAssumption DEF HandlerInv, WritesInHandler, MapInv, Channels
  <2> QED BY <2>1 DEF Current, Last
<1>5. Dir(s) \in Dirs
  BY <1>4, DirsDiffer DEF Dir
<1> HIDE DEF C
<1> QED BY <1>1, <1>2, <1>3, <1>4, <1>5 DEF C

LEMMA WriteKeepsHandlers ==
  ASSUME MapInv, HandlerInv, NEW s \in Certificates, WriteFile(s) \/ WriteFails(s)
  PROVE  HandlerInv'
<1> DEFINE l == left[s]
           h == Head(l)
<1> USE DEF HandlerInv
<1>1. PICK c \in {Current(s), Damaged} :
        /\ Write(s, c)
        /\ \/ c = Current(s) /\ left' = [left EXCEPT ![s] = Tail(@)]
           \/ c = Damaged /\ left' = [left EXCEPT ![s] = <<>>]
  BY DEF WriteFile, WriteFails
<1>2. /\ l \in Remaining /\ l # <<>> /\ h \in Range(Files)
      /\ Dir(s) \in Dirs /\ Current(s) \in Messages
      /\ \A d \in Dirs : d # Dir(s) => file'[d] = file[d]
      /\ DOMAIN file'[Dir(s)] = Range(Files)
      /\ \A f \in Range(Files) :
           file'[Dir(s)][f] = IF f = h THEN c ELSE file[Dir(s)][f]
      /\ file' \in [Dirs -> [Range(Files) -> Messages \cup {Nothing, Damaged}]]
      /\ UNCHANGED <<stateless, answer, handled, consumer>>
  <2>1. Current(s) \in Messages
    BY <1>1, FileWritten
  <2> QED BY <1>1, <2>1, FileWritten
<1>3. left \in [Certificates -> Remaining]
  BY DEF HandlersTyped
<1>4. /\ left' \in [Certificates -> Remaining]
      /\ \A t \in Certificates : t # s => left'[t] = left[t]
      /\ left'[s] \in Remaining
  BY <1>1, <1>2, <1>3, FilesLeft DEF Remaining
<1>5. HandlersTyped'
  BY <1>2, <1>4 DEF HandlersTyped
<1>6. \A t \in Certificates : /\ Current(t)' = Current(t) /\ Dir(t)' = Dir(t)
                              /\ \A m : DirOf(t, m)' = DirOf(t, m)
                              /\ \A d : Latest(t, d)' = Latest(t, d)
  BY <1>2, SameHandled
<1>7. WritesInHandler'
  BY <1>2, <1>4, <1>6 DEF WritesInHandler
<1>8. Latest(s, Dir(s)) = Current(s)
  <2>1. handled[s] \in Seq(Messages) /\ handled[s] # <<>> /\ Current(s) \in ValidPayload
    BY <1>2, SubscribersAssumption DEF WritesInHandler, MapInv, Channels
  <2> QED BY <2>1, LatestIsCurrent
<1>9. FilesInPlace'
  <2> SUFFICES ASSUME NEW t \in Certificates, NEW m \in Messages
               PROVE  IF left'[t] # <<>> /\ DirOf(t, m) = Dir(t)
                        THEN \A f \in Range(Files) \ Range(left'[t]) :
                               file'[DirOf(t, m)][f] = Latest(t, DirOf(t, m))
                        ELSE \/ Damaged \in Range(file'[DirOf(t, m)])
                             \/ \A f \in Range(Files) :
                                  file'[DirOf(t, m)][f] = Latest(t, DirOf(t, m))
    BY <1>6 DEF FilesInPlace
  <2>1. DirOf(t, m) \in Dirs
    BY DirsDiffer
  <2>2. CASE t # s
    <3>1. DirOf(t, m) # Dir(s)
      BY <2>2, <1>2, DirsDiffer DEF Dir
    <3> QED BY <2>1, <2>2, <3>1, <1>2, <1>4 DEF FilesInPlace
  <2>3. CASE t = s /\ DirOf(s, m) # Dir(s)
    BY <2>1, <2>3, <1>2 DEF FilesInPlace
  <2>4. CASE t = s /\ DirOf(s, m) = Dir(s)
    <3>1. \A f \in Range(Files) \ Range(l) : file[Dir(s)][f] = Current(s)
      BY <2>4, <1>2, <1>8 DEF FilesInPlace
    <3>2. CASE c = Current(s) /\ left' = [left EXCEPT ![s] = Tail(@)]
      <4>1. left'[s] = Tail(l)
        BY <3>2, <1>3
      <4>2. \A f \in Range(Files) \ Range(left'[s]) : file'[Dir(s)][f] = Current(s)
        BY <3>1, <3>2, <4>1, <1>2, FilesLeft
      <4>3. left'[s] = <<>> => Range(left'[s]) = {}
        BY DEF Range
      <4> QED BY <2>4, <4>2, <4>3, <1>8
    <3>3. CASE c = Damaged /\ left' = [left EXCEPT ![s] = <<>>]
      <4>1. left'[s] = <<>>
        BY <3>3, <1>3
      <4>2. Damaged \in Range(file'[Dir(s)])
        BY <3>3, <1>2 DEF Range
      <4> QED BY <2>4, <4>1, <4>2
    <3> QED BY <3>2, <3>3, <1>1
  <2> QED BY <2>2, <2>3, <2>4
<1> QED BY <1>5, <1>7, <1>9

LEMMA HandlerInvariant == SubscribersSpec => []HandlerInv
<1>1. SubscribersInit => HandlerInv
  <2> SUFFICES ASSUME SubscribersInit PROVE HandlerInv
    OBVIOUS
  <2>1. /\ stateless \subseteq Certificates
        /\ answer = [m \in Messages |-> 0]
        /\ left = [s \in Certificates |-> <<>>]
        /\ file = [d \in Dirs |-> [f \in Range(Files) |-> Nothing]]
        /\ \A s \in Subs : handled[s] = <<>>
    BY DEF SubscribersInit, Init
  <2>2. HandlersTyped
    BY <2>1 DEF HandlersTyped, Remaining
  <2>3. WritesInHandler
    BY <2>1 DEF WritesInHandler
  <2>4. ASSUME NEW s \in Certificates, NEW d PROVE Latest(s, d) = Nothing
    BY <2>1, SubscribersAssumption DEF Latest, Stored
  <2>5. FilesInPlace
    BY <2>1, <2>4, DirsDiffer DEF FilesInPlace
  <2> QED BY <2>2, <2>3, <2>5 DEF HandlerInv
<1>2. MapInv /\ HandlerInv /\ [SubscribersNext]_allVars => HandlerInv'
  <2> SUFFICES ASSUME MapInv, HandlerInv, [SubscribersNext]_allVars PROVE HandlerInv'
    OBVIOUS
  <2>1. answer \in [Messages -> {0, 202, 400, 405, 415, 500}]
    BY DEF HandlerInv, HandlersTyped
  <2>2. consumer \in [Subs -> {"none", "ready", "handling", "ended"}]
        /\ \A s \in Certificates : left[s] # <<>> => consumer[s] = "handling"
    BY DEF MapInv, TypeOK, HandlerInv, WritesInHandler
  <2>3. ASSUME NEW m \in Messages, Webhook(m) PROVE HandlerInv'
    <3>1. answer' \in [Messages -> {0, 202, 400, 405, 415, 500}]
      <4>1. CASE Rejects(m)
        BY <4>1, <2>1, RejectionIs DEF Rejects, Answers
      <4>2. CASE Publishes(m)
        BY <4>2, <2>1 DEF Publishes, Answers
      <4>3. CASE Accepts(m)
        BY <4>3, <2>1 DEF Accepts, Answers
      <4>4. CASE Sends(m)
        BY <4>4, <2>1 DEF Sends
      <4> QED BY <2>3, <4>1, <4>2, <4>3, <4>4 DEF Webhook
    <3>2. UNCHANGED <<handlerVars, handled, consumer>>
      BY <2>3 DEF Webhook, Rejects, Publishes, Sends, Accepts, Answers, PublishBegins,
                  PublishReturns, Send, vars, consumeVars
    <3> QED BY <3>1, <3>2, OthersKeepHandlers
  <2>4. ASSUME NEW s \in Subs, HandlerEnds(s) \/ GoroutineEnds(s) PROVE HandlerInv'
    <3>1. /\ UNCHANGED <<answer, handlerVars, handled>>
          /\ \E c \in {"ready", "ended"} : consumer' = [consumer EXCEPT ![s] = c]
          /\ s \in Certificates => left[s] = <<>>
      BY <2>2, <2>4 DEF HandlerEnds, GoroutineEnds, HandlerReturns, ConsumerEnds, Writing
    <3> QED BY <3>1, <2>1, <2>2, OthersKeepHandlers, SubscribersAssumption
  <2>5. ASSUME NEW s \in Subs, On(s) \/ Unsub(s) \/ Close,
               UNCHANGED <<answer, handlerVars>>
        PROVE  HandlerInv'
    <3>1. handled' = handled
      BY <2>5 DEF On, Unsub, Close, consumeVars
    <3>2. \A t \in Subs : consumer[t] # "none" => consumer'[t] = consumer[t]
      BY <2>2, <2>5 DEF On, Unsub, Close, consumeVars
    <3> QED BY <2>5, <3>1, <3>2, <2>1, <2>2, OthersKeepHandlers, SubscribersAssumption
  <2>6. ASSUME Close, UNCHANGED <<answer, handlerVars>> PROVE HandlerInv'
    BY <2>6, <2>1, OthersKeepHandlers DEF Close, consumeVars
  <2>7. CASE UNCHANGED allVars
    BY <2>7, <2>1, OthersKeepHandlers DEF allVars, vars, consumeVars
  <2>8. ASSUME NEW s \in Subs, Goroutine(s) PROVE HandlerInv'
    BY <2>8, <2>4, BeginKeepsHandlers, WriteKeepsHandlers
    DEF Goroutine, WriteFile, Write, Writing
  <2> QED BY <2>3, <2>5, <2>6, <2>7, <2>8, WriteKeepsHandlers DEF SubscribersNext
<1> QED BY <1>1, <1>2, PubSubInvariant, PTL DEF SubscribersSpec

-----------------------------------------------------------------------------
(***************************************************************************)
(* Theorems.                                                               *)
(***************************************************************************)

\* Requests, handlers and files keep their types, those of PubSub included: an
\* answer is one of the statuses of handleWebhook, and what a handler has still
\* to write is the end of its three files.
THEOREM SubscribersTypeCorrect == SubscribersSpec => []SubscribersTypeOK
<1>1. MapInv /\ HandlerInv => SubscribersTypeOK
  BY RemainingIsSuffix DEF MapInv, HandlerInv, HandlersTyped, SubscribersTypeOK
<1> QED BY <1>1, PubSubInvariant, HandlerInvariant, PTL

\* The three files of a directory are of one message, the latest that was
\* handled for it, whenever no handler is at them and no write to them failed:
\* two handlers never share a directory, and one stops at its first failure.
THEOREM FilesAreLatestAlways == SubscribersSpec => []FilesAreLatest
<1>1. HandlerInv => FilesAreLatest
  BY DEF HandlerInv, FilesInPlace, FilesAreLatest, Writing
<1> QED BY <1>1, HandlerInvariant, PTL

\* A request is answered with 202 only when its message is in the channel of each
\* subscription its device topic addresses, or was, or found that channel full.
THEOREM AcceptedIsQueuedAlways == SubscribersSpec => AcceptedIsQueued
<1>1. MapInv /\ SentOrFull /\ RejectedIsNew /\ HandlerInv /\ [SubscribersNext]_allVars
        => [\A m \in Messages, s \in subs :
              /\ answer[m] = 0 /\ answer'[m] = 202 /\ Addresses(m, s)
              => m \in Range(Seen(s)) \/ Len(Seen(s)) >= Capacity]_allVars
  <2> SUFFICES ASSUME MapInv, SentOrFull, RejectedIsNew, HandlerInv,
                      [SubscribersNext]_allVars,
                      NEW m \in Messages, NEW s \in subs,
                      answer[m] = 0, answer'[m] = 202, Addresses(m, s)
               PROVE  m \in Range(Seen(s)) \/ Len(Seen(s)) >= Capacity
    OBVIOUS
  <2>1. publish[m] = "sending" /\ toSend[m] = {}
    BY AcceptedReturns DEF HandlerInv
  <2>2. TopicOf[s] = TopicOf[m]
    BY <2>1, Routed DEF RejectedIsNew, MapInv, TypeOK
  <2> QED BY <2>1, <2>2 DEF SentOrFull
<1> QED BY <1>1, PubSubInvariant, RejectedIsNewAlways, HandlerInvariant, PTL
        DEF SubscribersSpec, AcceptedIsQueued

=============================================================================
