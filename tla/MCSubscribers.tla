---------------------------- MODULE MCSubscribers ----------------------------
(***************************************************************************)
(* The instance of Subscribers with the subscription of the certificate    *)
(* handler, one that only logs, two notifications that a device topic      *)
(* addresses, and a request with a bad method.                             *)
(***************************************************************************)
EXTENDS Subscribers

CONSTANTS s1, s2, m1, m2, bad

Notify == <<<<"tessa">>, Things, <<"certificates">>, <<"notify">>>>
Device == <<<<"tessa">>, Things, <<"dev", "1">>, <<"certificates">>,
            <<"notify">>>>
Post   == [method |-> "POST", type |-> "application/json", decodes |-> TRUE,
           topic |-> Device, thing |-> <<"dev", "1">>]

MCRequest == [m \in Messages |->
                IF m = bad THEN [Post EXCEPT !.method = "GET"] ELSE Post]
MCTopicOf == [x \in Subs \cup Messages |->
                IF x \in Subs THEN Notify
                ELSE normalizeMQTTTopic(MCRequest[x].topic, MCRequest[x].thing)]

=============================================================================
