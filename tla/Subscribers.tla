----------------------------- MODULE Subscribers -----------------------------
(***************************************************************************)
(* The webhook server of internal/server, which publishes a message per    *)
(* request, and the subscribers of internal/subscribers on PubSub: those   *)
(* of certificate notifications write three files, the others only log.    *)
(*                                                                         *)
(* A topic is a sequence of segments and a segment a sequence of syllables *)
(* as fine as it takes to tell a thing name from one it is a prefix of.    *)
(***************************************************************************)
EXTENDS PubSub, FiniteSetsExt, SequencesExt

CONSTANTS
  Certificates,  \* subscriptions to certificate notifications
  Request,       \* the HTTP request that publishes each message
  ValidPayload,  \* messages whose payload has all three credentials
  Nothing,       \* the content of a file that does not exist
  Damaged        \* that of one whose last write failed: old, cut short or none

Things == <<"things">>

\* Mutant of normalizeMQTTTopic: messages are routed under the device topic.
KeepMQTTTopic(topic, thing) == topic

\* "/things/<thing>" becomes "/things" where it occurs first, in the middle of
\* a segment if the thing name is only a prefix of it.
normalizeMQTTTopic(topic, thing) ==
  LET hits == {i \in 2 .. Len(topic) - 1 :
                 topic[i] = Things /\ IsPrefix(thing, topic[i + 1])}
      at   == Min(hits)
      rest == SubSeq(topic[at + 1], Len(thing) + 1, Len(topic[at + 1]))
  IN  IF hits = {} THEN topic
      ELSE IF rest = <<>> THEN RemoveAt(topic, at + 1)
      ELSE [RemoveAt(topic, at + 1) EXCEPT ![at] = @ \o rest]

\* The status of a request that is not published.
Rejection(m) ==
  IF Request[m].method # "POST" THEN 405
  ELSE IF Request[m].type # "application/json" THEN 415
  ELSE IF ~Request[m].decodes \/ <<>> \in {Request[m].topic, Request[m].thing} THEN 400
  ELSE 0

\* Things occurs once at most in a topic of On, and not first, as in
\* "tessa/things/certificates/notify".
SubscribersTopic(topic) ==
  /\ topic \in Seq(Seq(STRING))
  /\ \A i, j \in DOMAIN topic :
       topic[i] = Things => i # 1 /\ (topic[j] = Things => i = j)

\* What the handler of certificate notifications writes, in this order.
Files == <<"secure_tunnel.crt", "secure_tunnel.key", "root_ca.crt">>

ASSUME SubscribersAssumption ==
  /\ Certificates \subseteq Subs
  /\ ValidPayload \subseteq Messages
  /\ {Nothing, Damaged} \cap Messages = {}
  /\ \A s, t \in Certificates, m \in Messages : s # <<t, m>>
  /\ \A s \in Subs : SubscribersTopic(TopicOf[s])
  /\ \A m \in Messages : /\ Request[m].topic \in Seq(Seq(STRING))
                         /\ Request[m].thing \in Seq(STRING)
  /\ \A m \in Messages :
       Rejection(m) = 0
         => TopicOf[m] = normalizeMQTTTopic(Request[m].topic, Request[m].thing)

VARIABLES
  stateless,  \* subscriptions whose starter has no credDir
  answer,     \* the HTTP status of each request, 0 before it is sent
  left,       \* the files each handler has still to write
  file        \* whose credentials each file holds

handlerVars == <<stateless, left, file>>
allVars == <<vars, answer, handlerVars>>

\* A stateless handler writes to a directory of its own for each message.
Dirs == Certificates \cup (Certificates \X Messages)
DirOf(s, m) == IF s \in stateless THEN <<s, m>> ELSE s

SubscribersTypeOK ==
  /\ TypeOK
  /\ stateless \subseteq Certificates
  /\ answer \in [Messages -> {0, 202, 400, 405, 415, 500}]
  /\ \A s \in Certificates : IsSuffix(left[s], Files)
  /\ file \in [Dirs -> [Range(Files) -> Messages \cup {Nothing, Damaged}]]

SubscribersInit ==
  /\ Init
  /\ stateless \in SUBSET Certificates
  /\ answer = [m \in Messages |-> 0]
  /\ left = [s \in Certificates |-> <<>>]
  /\ file = [d \in Dirs |-> [f \in Range(Files) |-> Nothing]]

-----------------------------------------------------------------------------
(***************************************************************************)
(* handleWebhook, in a goroutine per request.                              *)
(***************************************************************************)

Answers(m, status) ==
  /\ answer[m] = 0
  /\ answer' = [answer EXCEPT ![m] = status]
  /\ UNCHANGED handlerVars

Rejects(m) ==
  /\ Runs
  /\ Rejection(m) # 0
  /\ Answers(m, Rejection(m))
  /\ UNCHANGED vars

Publishes(m) ==
  /\ Rejection(m) = 0
  /\ PublishBegins(m)
  /\ IF closed THEN Answers(m, 500) ELSE UNCHANGED <<answer, handlerVars>>

Sends(m) == \E s \in Subs : Send(m, s) /\ UNCHANGED <<answer, handlerVars>>

Accepts(m) == PublishReturns(m) /\ Answers(m, 202)

Webhook(m) == Rejects(m) \/ Publishes(m) \/ Sends(m) \/ Accepts(m)

-----------------------------------------------------------------------------
(***************************************************************************)
(* The goroutine of each subscription and its handler.                     *)
(***************************************************************************)

Current(s) == Last(handled[s])
Dir(s)     == DirOf(s, Current(s))

\* The handler returns at once for an invalid payload.
HandlerBegins(s) ==
  /\ Receive(s)
  /\ left' = IF s \in Certificates /\ Head(buffer[s]) \in ValidPayload
               THEN [left EXCEPT ![s] = Files] ELSE left
  /\ UNCHANGED <<answer, stateless, file>>

Writing(s) == s \in Certificates /\ left[s] # <<>>

Write(s, content) ==
  /\ Runs
  /\ Writing(s)
  /\ file' = [file EXCEPT ![Dir(s)][Head(left[s])] = content]
  /\ UNCHANGED <<subVars, buffer, consumeVars, publishVars, answer, stateless>>

WriteFile(s) ==
  Write(s, Current(s)) /\ left' = [left EXCEPT ![s] = Tail(@)]

\* Mutant of WriteFails: the error is ignored and the handler goes on.
WriteErrorIgnored(s) ==
  /\ Writing(s)
  /\ Write(s, file[Dir(s)][Head(left[s])])
  /\ left' = [left EXCEPT ![s] = Tail(@)]

\* A write that fails is the last one of the handler.  That no temporary
\* directory could be made counts as a failure of the first write to it.
WriteFails(s) ==
  Write(s, Damaged) /\ left' = [left EXCEPT ![s] = <<>>]

\* Mutant of HandlerEnds: the loop does not wait for the handler.
HandlerRunsOn(s) == HandlerReturns(s) /\ UNCHANGED <<answer, handlerVars>>

HandlerEnds(s) ==
  /\ HandlerReturns(s)
  /\ ~Writing(s)
  /\ UNCHANGED <<answer, handlerVars>>

GoroutineEnds(s) == ConsumerEnds(s) /\ UNCHANGED <<answer, handlerVars>>

Goroutine(s) ==
  HandlerBegins(s) \/ WriteFile(s) \/ HandlerEnds(s) \/ GoroutineEnds(s)

-----------------------------------------------------------------------------
SubscribersNext ==
  \/ \E m \in Messages : Webhook(m)
  \/ \E s \in Subs : Goroutine(s)
  \/ \E s \in Certificates : WriteFails(s)
  \/ ((\E s \in Subs : On(s) \/ Unsub(s)) \/ Close)
     /\ UNCHANGED <<answer, handlerVars>>

\* Goroutines that can run do, and a write comes to an end.
SubscribersFairness ==
  \A s \in Subs :
    WF_allVars(Goroutine(s) \/ (s \in Certificates /\ WriteFails(s)))

SubscribersSpec ==
  SubscribersInit /\ [][SubscribersNext]_allVars /\ SubscribersFairness

-----------------------------------------------------------------------------
(***************************************************************************)
(* Properties.  Those of PubSub hold of its state here as well.            *)
(***************************************************************************)

\* The latest message whose credentials belong in a directory.
Stored(s, d) == {i \in DOMAIN handled[s] : /\ handled[s][i] \in ValidPayload
                                           /\ DirOf(s, handled[s][i]) = d}
Latest(s, d) == IF Stored(s, d) = {} THEN Nothing
                                     ELSE handled[s][Max(Stored(s, d))]

\* The files in a directory are all of the latest message handled for it,
\* whatever is published while a handler writes them, unless a file is left
\* damaged: a handler that cannot write stops at that file.
FilesAreLatest ==
  \A s \in Certificates : \A d \in {DirOf(s, m) : m \in Messages} :
    ~Writing(s) /\ Damaged \notin Range(file[d])
      => \A f \in Range(Files) : file[d][f] = Latest(s, d)

\* A device topic is that of the subscription with the thing name inserted.
Addresses(m, s) ==
  \/ Request[m].topic = TopicOf[s] /\ Things \notin Range(TopicOf[s])
  \/ \E i \in DOMAIN TopicOf[s] :
       /\ TopicOf[s][i] = Things
       /\ Request[m].topic = InsertAt(TopicOf[s], i + 1, Request[m].thing)

\* "message": "published" (server.go:92): a request that is answered with 202
\* is in the channel of each subscription its device topic addresses, or past
\* it, unless the channel was full.
AcceptedIsQueued ==
  [][\A m \in Messages, s \in subs :
       /\ answer[m] = 0 /\ answer'[m] = 202 /\ Addresses(m, s)
       => m \in Range(Seen(s)) \/ Len(Seen(s)) >= Capacity]_allVars

\* How late a message reached the handler of s, 0 if it did not.
Age(s, content) == IF content \in Range(handled[s])
                     THEN SelectInSeq(handled[s], LAMBDA m : m = content) ELSE 0

\* Credentials that were handled are on disk in the end, or newer ones, unless
\* a write to their directory failed.
CredentialsStored ==
  \A s \in Certificates, m \in ValidPayload :
    m \in Range(handled[s])
      ~> \/ Damaged \in Range(file[DirOf(s, m)])
         \/ \A f \in Range(Files) : Age(s, file[DirOf(s, m)][f]) >= Age(s, m)

=============================================================================
