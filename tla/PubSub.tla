-------------------------------- MODULE PubSub --------------------------------
(***************************************************************************)
(* The in-memory publish/subscribe of internal/pubsub, the subscribers of  *)
(* internal/subscribers, a goroutine each that consumes a channel, and the *)
(* webhook handlers that publish.  Subscribe, unsub and Close hold the     *)
(* mutex for writing and are one step each; Publish holds it for reading   *)
(* over its sends, so that several may be under way at once.               *)
(***************************************************************************)
EXTENDS Functions, Integers, Sequences

CONSTANTS
  Subs,      \* subscriptions, with their channels and consumers
  Messages,  \* messages, published once each
  TopicOf,   \* the topic of each of both
  Capacity   \* of a channel: 64 in the code

ASSUME PubSubAssumption ==
  /\ Subs \cap Messages = {}
  /\ DOMAIN TopicOf = Subs \cup Messages
  /\ Capacity \in Nat \ {0}

VARIABLES
  proc,      \* the process: running, or panicked
  closed,    \* ps.closed
  subs,      \* ps.subs: the channels, each in the map of its topic
  shut,      \* channels that are closed
  buffer,    \* the messages in each channel
  consumer,  \* what the goroutine of each subscription does
  handled,   \* history: the messages each handler was called with
  unsubbed,  \* subscriptions whose unsub was called
  publish,   \* the Publish of each message
  toSend,    \* channels its loop has still to come to
  earlier    \* history: messages whose Publish had returned when it began

subVars     == <<closed, subs, shut, unsubbed>>
consumeVars == <<consumer, handled>>
publishVars == <<publish, toSend, earlier>>
vars == <<proc, subVars, buffer, consumeVars, publishVars>>

TypeOK ==
  /\ proc \in {"running", "panicked"}
  /\ closed \in BOOLEAN
  /\ subs \subseteq Subs
  /\ shut \subseteq Subs
  /\ \A s \in Subs : buffer[s] \in Seq(Messages) /\ Len(buffer[s]) <= Capacity
  /\ consumer \in [Subs -> {"none", "ready", "handling", "ended"}]
  /\ \A s \in Subs : handled[s] \in Seq(Messages)
  /\ unsubbed \subseteq Subs
  /\ publish \in [Messages -> {"new", "sending", "done", "refused"}]
  /\ toSend \in [Messages -> SUBSET Subs]
  /\ earlier \in [Messages -> SUBSET Messages]

Init ==
  /\ proc = "running"
  /\ closed = FALSE
  /\ subs = {} /\ shut = {} /\ unsubbed = {}
  /\ buffer = [s \in Subs |-> <<>>]
  /\ consumer = [s \in Subs |-> "none"]
  /\ handled = [s \in Subs |-> <<>>]
  /\ publish = [m \in Messages |-> "new"]
  /\ toSend = [m \in Messages |-> {}]
  /\ earlier = [m \in Messages |-> {}]

Runs   == proc = "running" /\ UNCHANGED proc
Panics == proc = "running" /\ proc' = "panicked"

OfTopic(x) == {s \in subs : TopicOf[s] = TopicOf[x]}

\* The mutex is free for a writer.
MuFree == \A m \in Messages : publish[m] # "sending"

-----------------------------------------------------------------------------
\* Subscribe, and the goroutine that On starts for it.
On(s) ==
  /\ Runs
  /\ MuFree
  /\ ~closed
  /\ consumer[s] = "none"
  /\ subs' = subs \cup {s}
  /\ consumer' = [consumer EXCEPT ![s] = "ready"]
  /\ UNCHANGED <<closed, shut, unsubbed, buffer, handled, publishVars>>

\* Mutant of Unsub: the channel is not closed.
UnsubKeepsOpen(s) ==
  /\ Runs
  /\ MuFree
  /\ consumer[s] # "none" /\ s \notin unsubbed
  /\ unsubbed' = unsubbed \cup {s}
  /\ subs' = subs \ {s}
  /\ UNCHANGED <<closed, shut, buffer, consumeVars, publishVars>>

\* The unsub of a subscription, which stop calls once.  It closes the channel
\* whenever the topic still has a subscriber, be it this one or another.
Unsub(s) ==
  /\ MuFree
  /\ consumer[s] # "none" /\ s \notin unsubbed
  /\ unsubbed' = unsubbed \cup {s}
  /\ subs' = subs \ {s}
  /\ shut' = IF OfTopic(s) # {} THEN shut \cup {s} ELSE shut
  /\ IF OfTopic(s) # {} /\ s \in shut THEN Panics ELSE Runs
  /\ UNCHANGED <<closed, buffer, consumeVars, publishVars>>

\* Mutant of Close: the entries of ps.subs stay.
CloseKeepsSubs ==
  /\ MuFree
  /\ ~closed
  /\ closed' = TRUE
  /\ shut' = shut \cup subs
  /\ IF subs \cap shut # {} THEN Panics ELSE Runs
  /\ UNCHANGED <<subs, unsubbed, buffer, consumeVars, publishVars>>

Close ==
  /\ MuFree
  /\ ~closed
  /\ closed' = TRUE
  /\ shut' = shut \cup subs
  /\ IF subs \cap shut # {} THEN Panics ELSE Runs
  /\ subs' = {}
  /\ UNCHANGED <<unsubbed, buffer, consumeVars, publishVars>>

-----------------------------------------------------------------------------
\* Publish, called by a webhook handler.
PublishBegins(m) ==
  /\ Runs
  /\ publish[m] = "new"
  /\ publish' = [publish EXCEPT ![m] = IF closed THEN "refused" ELSE "sending"]
  /\ toSend' = [toSend EXCEPT ![m] = IF closed THEN {} ELSE OfTopic(m)]
  /\ earlier' = [earlier EXCEPT ![m] = {n \in Messages : publish[n] = "done"}]
  /\ UNCHANGED <<subVars, buffer, consumeVars>>

\* Mutant of Send: a channel that takes any number of messages.
SendUnbounded(m, s) ==
  /\ s \in toSend[m]
  /\ toSend' = [toSend EXCEPT ![m] = @ \ {s}]
  /\ buffer' = [buffer EXCEPT ![s] = Append(@, m)]
  /\ IF s \in shut THEN Panics ELSE Runs
  /\ UNCHANGED <<subVars, consumeVars, publish, earlier>>

\* A send that does not block: the message is dropped where there is no room.
Send(m, s) ==
  /\ s \in toSend[m]
  /\ toSend' = [toSend EXCEPT ![m] = @ \ {s}]
  /\ buffer' = [buffer EXCEPT ![s] = IF Len(@) < Capacity THEN Append(@, m)
                                                          ELSE @]
  /\ IF s \in shut THEN Panics ELSE Runs
  /\ UNCHANGED <<subVars, consumeVars, publish, earlier>>

\* Mutant of PublishReturns: the sends go on in goroutines of their own.
PublishReturnsEarly(m) ==
  /\ Runs
  /\ publish[m] = "sending"
  /\ publish' = [publish EXCEPT ![m] = "done"]
  /\ UNCHANGED <<subVars, buffer, consumeVars, toSend, earlier>>

PublishReturns(m) ==
  /\ Runs
  /\ publish[m] = "sending" /\ toSend[m] = {}
  /\ publish' = [publish EXCEPT ![m] = "done"]
  /\ UNCHANGED <<subVars, buffer, consumeVars, toSend, earlier>>

-----------------------------------------------------------------------------
\* Mutant of Receive: the goroutine leaves its loop when it is unsubscribed.
ReceiveOpen(s) ==
  /\ Runs
  /\ s \notin shut
  /\ consumer[s] = "ready" /\ buffer[s] # <<>>
  /\ consumer' = [consumer EXCEPT ![s] = "handling"]
  /\ handled' = [handled EXCEPT ![s] = Append(@, Head(buffer[s]))]
  /\ buffer' = [buffer EXCEPT ![s] = Tail(@)]
  /\ UNCHANGED <<subVars, publishVars>>

\* The goroutine of On: what is in a channel is received even if it is closed.
Receive(s) ==
  /\ Runs
  /\ consumer[s] = "ready" /\ buffer[s] # <<>>
  /\ consumer' = [consumer EXCEPT ![s] = "handling"]
  /\ handled' = [handled EXCEPT ![s] = Append(@, Head(buffer[s]))]
  /\ buffer' = [buffer EXCEPT ![s] = Tail(@)]
  /\ UNCHANGED <<subVars, publishVars>>

\* The handler returns, or its panic is recovered.
HandlerReturns(s) ==
  /\ Runs
  /\ consumer[s] = "handling"
  /\ consumer' = [consumer EXCEPT ![s] = "ready"]
  /\ UNCHANGED <<subVars, buffer, handled, publishVars>>

ConsumerEnds(s) ==
  /\ Runs
  /\ consumer[s] = "ready" /\ buffer[s] = <<>> /\ s \in shut
  /\ consumer' = [consumer EXCEPT ![s] = "ended"]
  /\ UNCHANGED <<subVars, buffer, handled, publishVars>>

-----------------------------------------------------------------------------
Consume(s) == Receive(s) \/ HandlerReturns(s) \/ ConsumerEnds(s)

PublishNext(m) ==
  PublishBegins(m) \/ PublishReturns(m) \/ \E s \in Subs : Send(m, s)

Next ==
  \/ \E s \in Subs : On(s) \/ Unsub(s) \/ Consume(s)
  \/ Close
  \/ \E m \in Messages : PublishNext(m)

\* Goroutines that can run do; the handlers of this code return.
Fairness == \A s \in Subs : WF_vars(Consume(s))

Spec == Init /\ [][Next]_vars
FairSpec == Spec /\ Fairness

-----------------------------------------------------------------------------
(***************************************************************************)
(* Properties.                                                             *)
(***************************************************************************)

\* No channel is closed twice, or sent to once it is closed, however Publish,
\* unsub and Close race, as long as each unsub is called once.
NoPanic == proc = "running"

\* A subscriber never sees a message before one whose Publish had returned
\* when its own began, nor twice, although Publish calls run side by side and
\* drop messages.
Seen(s) == handled[s] \o buffer[s]
InOrder ==
  \A s \in Subs : \A i, j \in DOMAIN Seen(s) :
    i < j => /\ Seen(s)[j] # Seen(s)[i]
             /\ Seen(s)[j] \notin earlier[Seen(s)[i]]

\* A message that found room in a channel is handled, whatever is unsubscribed
\* or closed afterwards.
BufferedIsHandled ==
  \A m \in Messages, s \in Subs :
    m \in Range(buffer[s]) ~> m \in Range(handled[s])

\* The goroutine of a subscription that was stopped, or whose pubsub was
\* closed, ends.
ConsumersEnd ==
  \A s \in Subs : consumer[s] # "none" /\ (closed \/ s \in unsubbed)
                    ~> consumer[s] = "ended"

=============================================================================
