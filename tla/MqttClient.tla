------------------------------ MODULE MqttClient ------------------------------
(***************************************************************************)
(* A client of pkg/bindings/mqtt: calls from Lua that wait for the broker  *)
(* on the event loop, and message handlers, which wait for the event loop. *)
(*                                                                         *)
(* The client library (paho 1.1, external) reads acknowledgements and      *)
(* messages from one connection, in order.  It puts messages on a channel  *)
(* of Depth entries (MessageChannelDepth), waiting for room, from which    *)
(* its dispatcher takes them, one after the other, to the handler of their *)
(* topic.  It reconnects by itself.                                        *)
(***************************************************************************)
EXTENDS Naturals, Sequences, SequencesExt

CONSTANTS
  Topics,
  Depth,        \* the entries of the channel
  MaxMessages,  \* bound: messages the broker sends
  MaxDrops      \* bound: how often the connection is lost

ASSUME MqttAssumption == Depth \in Nat /\ MaxMessages \in Nat /\ MaxDrops \in Nat

VARIABLES
  clean,       \* whether the broker forgets the client when the connection is lost
  client,      \* "new", "up", "lost" or "closed"
  closing,     \* the goroutine of close has not run yet
  call,        \* the call the loop is in
  request,     \* where its request is
  callback,    \* the loop is in the callback of a message
  jobs,        \* callbacks of messages scheduled on the loop
  busy,        \* the dispatcher waits for a callback
  routes,      \* the topics that have a handler
  subs,        \* the broker's subscriptions of this client
  wire,        \* what the broker has sent and the library has not read
  inbox,       \* the channel of messages
  sent,        \* how many messages the broker has sent
  drops,       \* how often the connection was lost
  subscribed,  \* history: topics whose subscribe has returned, and no unsubscribe came
  unserved,    \* history: topics whose last subscribe the broker has denied, or whose
               \* subscription it has forgotten with the connection
  late         \* history: callbacks of each topic since its handler was removed

loopVars == <<call, request, callback, jobs, busy>>
brokerVars == <<subs, wire, inbox, sent>>
history == <<subscribed, unserved, late>>
vars == <<clean, client, closing, loopVars, routes, brokerVars, drops, history>>

Ops == {"connect", "subscribe", "unsubscribe", "publish"}
NoCall == [op |-> "none", topics |-> {}]
Ack == [id |-> 0]

Init ==
  /\ clean \in BOOLEAN
  /\ client = "new"
  /\ closing = FALSE
  /\ call = NoCall
  /\ request = "none"
  /\ callback = FALSE
  /\ jobs = <<>>
  /\ busy = FALSE
  /\ routes = {}
  /\ subs = {}
  /\ wire = <<>>
  /\ inbox = <<>>
  /\ sent = 0
  /\ drops = 0
  /\ subscribed = {}
  /\ unserved = {}
  /\ late = [t \in Topics |-> 0]

-----------------------------------------------------------------------------
(* Calls from Lua.                                                         *)

\* Lua code runs in the callback of a message, or in another task of the loop.
Waiting == call # NoCall

Asks(op, topics) ==
  /\ call' = [op |-> op, topics |-> topics]
  /\ request' = "asked"

\* newMQTT connects and waits.
Connect ==
  /\ client = "new"
  /\ ~Waiting
  /\ Asks("connect", {})
  /\ UNCHANGED <<clean, client, closing, callback, jobs, busy, routes, brokerVars, drops, history>>

Usable == client \in {"up", "lost"} /\ ~Waiting

\* Mutant: subscribe does not wait for the token.
SubscribeNoWait(t) ==
  /\ Usable
  /\ routes' = routes \cup {t}
  /\ subscribed' = subscribed \cup {t}
  /\ late' = [late EXCEPT ![t] = 0]
  /\ UNCHANGED <<clean, client, closing, loopVars, brokerVars, drops, unserved>>

Subscribe(t) ==
  /\ Usable
  /\ Asks("subscribe", {t})
  /\ routes' = routes \cup {t}
  /\ late' = [late EXCEPT ![t] = 0]
  /\ UNCHANGED <<clean, client, closing, callback, jobs, busy, brokerVars, drops, subscribed, unserved>>

\* The topics of an unsubscribe are all of its arguments but the last.
Unsubscribe(args) ==
  /\ Usable
  /\ Asks("unsubscribe", ToSet(Front(args)))
  /\ routes' = routes \ ToSet(Front(args))
  /\ subscribed' = subscribed \ ToSet(Front(args))
  /\ UNCHANGED <<clean, client, closing, callback, jobs, busy, brokerVars, drops, unserved, late>>

Publish ==
  /\ Usable
  /\ Asks("publish", {})
  /\ UNCHANGED <<clean, client, closing, callback, jobs, busy, routes, brokerVars, drops, history>>

\* close leaves the disconnecting to a goroutine.
Close ==
  /\ Usable
  /\ closing' = TRUE
  /\ UNCHANGED <<clean, client, loopVars, routes, brokerVars, drops, history>>

\* Mutant: the calls that wait are not ended.
DisconnectForgets ==
  /\ closing
  /\ closing' = FALSE
  /\ client' = "closed"
  /\ wire' = <<>>
  /\ inbox' = <<>>
  /\ UNCHANGED <<clean, loopVars, routes, subs, sent, drops, history>>

\* Disconnect: a call that waits ends with an error.
Disconnect ==
  /\ closing
  /\ closing' = FALSE
  /\ client' = "closed"
  /\ call' = NoCall
  /\ request' = "none"
  /\ wire' = <<>>
  /\ inbox' = <<>>
  /\ UNCHANGED <<clean, callback, jobs, busy, routes, subs, sent, drops, history>>

-----------------------------------------------------------------------------
(* Message handlers.                                                       *)

\* Mutant: the handler does not wait for the callback.
HandlerNoWait(m) == jobs' = Append(jobs, m) /\ UNCHANGED busy

\* The handler schedules the callback and waits for it.
Handler(m) == jobs' = Append(jobs, m) /\ busy' = TRUE

\* The dispatcher takes a message to the handler of its topic.
Dispatch ==
  /\ ~busy
  /\ inbox # <<>>
  /\ inbox' = Tail(inbox)
  /\ IF Head(inbox).topic \in routes THEN Handler(Head(inbox)) ELSE UNCHANGED <<jobs, busy>>
  /\ UNCHANGED <<clean, client, closing, call, request, callback, routes, subs, wire, sent, drops, history>>

\* The loop calls the callback.
Callback ==
  /\ ~Waiting
  /\ ~callback
  /\ jobs # <<>>
  /\ callback' = TRUE
  /\ jobs' = Tail(jobs)
  /\ late' = [late EXCEPT ![Head(jobs).topic] = IF Head(jobs).topic \in routes THEN @ ELSE @ + 1]
  /\ UNCHANGED <<clean, client, closing, call, request, busy, routes, brokerVars, drops, subscribed, unserved>>

CallbackReturns ==
  /\ ~Waiting
  /\ callback
  /\ callback' = FALSE
  /\ busy' = FALSE
  /\ UNCHANGED <<clean, client, closing, call, request, jobs, routes, brokerVars, drops, history>>

-----------------------------------------------------------------------------
(* The library and the broker.                                             *)

\* Mutant: the request is not forgotten.
ReturnKeeps == call' = NoCall /\ UNCHANGED request

\* A call returns.
Return == call' = NoCall /\ request' = "none"

Connected ==
  /\ call.op = "connect"
  /\ client' = "up"
  /\ Return
  /\ UNCHANGED <<clean, closing, callback, jobs, busy, routes, brokerVars, drops, history>>

\* A call returns an error.
Refused ==
  /\ Waiting
  /\ request = "asked"
  /\ Return
  /\ UNCHANGED <<clean, client, closing, callback, jobs, busy, routes, brokerVars, drops, history>>

Grants == subs' = subs \cup call.topics /\ unserved' = unserved \ call.topics
Denies == unserved' = unserved \cup (call.topics \ subs) /\ UNCHANGED subs
Ends == subs' = subs \ call.topics /\ UNCHANGED unserved

\* The broker does what was asked for, and acknowledges it.  It acknowledges a
\* subscribe that it denies too, which is no error of the token: subscribe, which looks
\* at nothing else, returns as if it were granted.  A publish of quality of service 0
\* has no acknowledgement.
BrokerAnswers ==
  /\ client = "up"
  /\ request = "asked"
  /\ \/ call.op = "subscribe" /\ (Grants \/ Denies)
     \/ call.op = "unsubscribe" /\ Ends
     \/ call.op = "publish" /\ UNCHANGED <<subs, unserved>>
  /\ \/ wire' = Append(wire, Ack) /\ request' = "answered" /\ UNCHANGED call
     \/ call.op = "publish" /\ Return /\ UNCHANGED wire
  /\ UNCHANGED <<clean, client, closing, callback, jobs, busy, routes, inbox, sent, drops,
                 subscribed, late>>

Send(t) ==
  /\ client = "up"
  /\ t \in subs
  /\ sent < MaxMessages
  /\ sent' = sent + 1
  /\ wire' = Append(wire, [id |-> sent + 1, topic |-> t])
  /\ UNCHANGED <<clean, client, closing, loopVars, routes, subs, inbox, drops, history>>

\* The library reads an acknowledgement, and completes the token.
ReadAck ==
  /\ wire # <<>> /\ Head(wire) = Ack
  /\ wire' = Tail(wire)
  /\ Return
  /\ subscribed' = IF call.op = "subscribe" THEN subscribed \cup call.topics ELSE subscribed
  /\ UNCHANGED <<clean, client, closing, callback, jobs, busy, routes, subs, inbox, sent, drops, unserved, late>>

\* It reads a message, once there is room for it.
ReadMessage ==
  /\ wire # <<>> /\ Head(wire) # Ack
  /\ Len(inbox) < Depth
  /\ wire' = Tail(wire)
  /\ inbox' = Append(inbox, Head(wire))
  /\ UNCHANGED <<clean, client, closing, loopVars, routes, subs, sent, drops, history>>

\* The connection is lost, and with it what is under way.  A request may be lost or
\* be made again when the library has reconnected.
Lost ==
  /\ client = "up"
  /\ drops < MaxDrops
  /\ drops' = drops + 1
  /\ client' = "lost"
  /\ wire' = <<>>
  /\ IF clean THEN subs' = {} /\ unserved' = unserved \cup subs ELSE UNCHANGED <<subs, unserved>>
  /\ request' \in IF Waiting THEN {"asked", "lost"} ELSE {"none"}
  /\ UNCHANGED <<clean, closing, call, callback, jobs, busy, routes, inbox, sent, subscribed, late>>

Reconnected ==
  /\ client = "lost"
  /\ client' = "up"
  /\ UNCHANGED <<clean, closing, loopVars, routes, brokerVars, drops, history>>

LoopStep == Callback \/ CallbackReturns
Library == Dispatch \/ ReadAck \/ ReadMessage \/ Disconnect

Next ==
  \/ Connect \/ Publish \/ Close
  \/ \E t \in Topics : Subscribe(t) \/ Send(t)
  \/ \E args \in SeqOf(Topics, 2) \ {<<>>} : Unsubscribe(args)
  \/ LoopStep
  \/ Library
  \/ Connected \/ Refused \/ BrokerAnswers \/ Lost \/ Reconnected

Spec == Init /\ [][Next]_vars

\* The loop comes to a callback in the order of its queue, and Lua functions return,
\* whatever calls they make: strong fairness.  The library reads and dispatches, and
\* a broker to which the client is connected answers.
Fairness ==
  /\ SF_vars(Callback) /\ SF_vars(CallbackReturns)
  /\ WF_vars(Dispatch) /\ WF_vars(ReadAck) /\ WF_vars(ReadMessage) /\ WF_vars(Disconnect)
  /\ WF_vars(BrokerAnswers) /\ WF_vars(Reconnected)

FairSpec == Spec /\ Fairness

-----------------------------------------------------------------------------
TypeOK ==
  /\ clean \in BOOLEAN
  /\ client \in {"new", "up", "lost", "closed"}
  /\ {closing, callback, busy} \subseteq BOOLEAN
  /\ call = NoCall \/ (call.op \in Ops /\ call.topics \subseteq Topics)
  /\ request \in {"none", "asked", "answered", "lost"}
  /\ (request = "none") = (call = NoCall)
  /\ routes \cup subs \cup subscribed \cup unserved \subseteq Topics
  /\ Len(inbox) <= Depth
  /\ sent \in 0 .. MaxMessages
  /\ drops \in 0 .. MaxDrops
  /\ late \in [Topics -> Nat]

\* After an unsubscribe one callback of its topic may still come, but not a second:
\* the handler waits, so no more than one callback is scheduled at a time
\* (mqttSubscribe's handler, mqttUnsubscribe).
AtMostOneLate == \A t \in Topics : late[t] <= 1

\* When subscribe has returned the broker sends the topic's messages, until it is
\* unsubscribed.  Two things prevent it without a word to the script: the broker has
\* denied the last subscribe, since only the token's error is looked at; or a clean
\* session has lost its connection since the subscribe was granted, since the library
\* reconnects but subscribes to nothing (newMQTT, mqttSubscribe).
SubscribedIsServed == subscribed \subseteq subs \cup unserved

\* The call waits for an acknowledgement that the library cannot read: it waits for
\* room in the channel, the dispatcher for the loop, and the loop for the call.
CircularWait ==
  /\ Waiting
  /\ busy
  /\ Len(inbox) = Depth
  /\ wire # <<>> /\ Head(wire) # Ack

\* Every call returns, unless it is a connect, the connection was lost while it waited,
\* or it is part of a circular wait, which lasts; and the loop releases a handler, unless
\* a call waits for ever (newMQTT, mqttSubscribe, mqttPublish, mqttUnsubscribe).
CallReturns ==
  /\ Waiting ~> ~Waiting \/ call.op = "connect" \/ request = "lost" \/ []CircularWait
  /\ busy ~> ~busy \/ []Waiting
=============================================================================
