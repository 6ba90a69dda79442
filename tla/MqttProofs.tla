----------------------------- MODULE MqttProofs -----------------------------
(***************************************************************************)
(* Proofs about an MQTT client, for any topics, any capacity of the channel*)
(* of messages, and any number of messages and lost connections.           *)
(***************************************************************************)
EXTENDS MqttClient, SequenceTheorems, TLAPS

Message == [id : Nat, topic : Topics]

QueuesInv ==
  /\ wire \in Seq(Message \cup {Ack})
  /\ inbox \in Seq(Message)
  /\ jobs \in Seq(Message)

\* A handler waits for its callback: there is one at most, scheduled or begun.
HandlerInv ==
  /\ Len(jobs) <= 1
  /\ ~busy => jobs = <<>> /\ ~callback
  /\ callback => jobs = <<>>

\* No callback came late yet if a handler is there, or a callback is scheduled.
LateInv ==
  \A t \in Topics :
    /\ late[t] <= 1
    /\ t \in routes => late[t] = 0
    /\ jobs # <<>> /\ Head(jobs).topic = t => late[t] = 0

\* There is an acknowledgement on the wire only for the call under way, and one only.
\* It is never the connect.
AckInv ==
  /\ call.op = "connect" => request # "answered"
  /\ \A i \in 1 .. Len(wire) : wire[i] = Ack => request = "answered"
  /\ \A i, j \in 1 .. Len(wire) : wire[i] = Ack /\ wire[j] = Ack => i = j

\* The broker has a subscription for what subscribe has returned for, and for what the
\* acknowledgement under way is about, or has denied or forgotten it.
ServedInv ==
  /\ subscribed \subseteq subs \cup unserved
  /\ call.op = "unsubscribe" => call.topics \cap subscribed = {}
  /\ call.op = "subscribe" /\ request = "answered" => call.topics \subseteq subs \cup unserved

MqttInv == TypeOK /\ QueuesInv /\ HandlerInv /\ LateInv /\ AckInv /\ ServedInv

-----------------------------------------------------------------------------
(* Lemmas about the data.                                                  *)

\* A message is no acknowledgement.
LEMMA MessageNotAck == \A t \in Topics, n \in Nat : [id |-> n + 1, topic |-> t] \in Message /\ [id |-> n + 1, topic |-> t] # Ack
BY DEF Message, Ack

\* What unsubscribe takes of its arguments are topics.
LEMMA FrontOfTopics ==
  ASSUME NEW args \in SeqOf(Topics, 2) \ {<<>>}
  PROVE  ToSet(Front(args)) \subseteq Topics
<1>1. PICK m \in 0 .. 2 : args \in [1 .. m -> Topics]
  BY DEF SeqOf
<1>2. args \in Seq(Topics) /\ Len(args) = m
  BY <1>1
<1>3. Len(args) - 1 <= Len(args) /\ Len(args) - 1 \in Int
  BY <1>2
<1>4. SubSeq(args, 1, Len(args) - 1) \in Seq(Topics)
  BY <1>2, <1>3, SubSeqProperties
<1> QED
  BY <1>4 DEF ToSet, Front

\* The head of a queue was in it, and what is left is its tail.
LEMMA Taken ==
  ASSUME NEW S, NEW s \in Seq(S), s # <<>>
  PROVE  /\ Head(s) \in S /\ Tail(s) \in Seq(S) /\ Len(Tail(s)) = Len(s) - 1
         /\ Len(s) \in Nat \ {0} /\ Head(s) = s[1]
         /\ \A i \in 1 .. Len(Tail(s)) : Tail(s)[i] = s[i + 1]
BY HeadTailProperties

LEMMA Nothing == Len(<<>>) = 0 /\ \A S : <<>> \in Seq(S)
BY EmptySeq

\* The topic of a callback.
LEMMA TopicOfJob ==
  ASSUME jobs \in Seq(Message), jobs # <<>>
  PROVE  Head(jobs).topic \in Topics
<1>1. Head(jobs) \in Message
  BY Taken
<1> QED
  BY <1>1 DEF Message

\* What becomes of the callbacks when the dispatcher takes a message.
LEMMA DispatchDoes ==
  ASSUME MqttInv, Dispatch
  PROVE  /\ Head(inbox) \in Message /\ jobs' \in Seq(Message) /\ Len(jobs') <= 1
         /\ jobs = <<>> /\ ~callback /\ ~callback' /\ UNCHANGED <<late, routes>>
         /\ \/ Head(inbox).topic \in routes /\ jobs' = <<Head(inbox)>> /\ busy' = TRUE
            \/ UNCHANGED <<jobs, busy>>
<1>0. Head(inbox) \in Message
  BY Taken DEF Dispatch, MqttInv, QueuesInv
<1>1. jobs = <<>> /\ ~callback
  BY DEF Dispatch, MqttInv, HandlerInv
<1>2. ~callback' /\ UNCHANGED <<late, routes>>
  BY <1>1 DEF Dispatch, history
<1>3. CASE Head(inbox).topic \in routes
  <2>1. jobs' = Append(jobs, Head(inbox)) /\ busy' = TRUE
    BY <1>3 DEF Dispatch, Handler
  <2>2. Append(<<>>, Head(inbox)) = <<Head(inbox)>> /\ Len(<<Head(inbox)>>) = 1
    OBVIOUS
  <2>3. <<Head(inbox)>> \in Seq(Message)
    BY <1>0
  <2> QED
    BY <1>0, <1>1, <1>2, <1>3, <2>1, <2>2, <2>3
<1>4. CASE Head(inbox).topic \notin routes
  <2>1. UNCHANGED <<jobs, busy>>
    BY <1>4 DEF Dispatch
  <2> QED
    BY <1>0, <1>1, <1>2, <2>1, Nothing
<1> QED
  BY <1>3, <1>4

-----------------------------------------------------------------------------
(* The initial state, and the steps.                                       *)

LEMMA MqttInit == Init => MqttInv
<1> SUFFICES ASSUME Init PROVE MqttInv
  OBVIOUS
<1>1. TypeOK
  <2>1. (request = "none") = (call = NoCall)
    BY DEF Init
  <2>2. Len(inbox) <= Depth
    BY MqttAssumption, Nothing DEF Init
  <2>3. {closing, callback, busy} \subseteq BOOLEAN
    BY DEF Init
  <2>4. late \in [Topics -> Nat]
    BY DEF Init
  <2> QED
    BY <2>1, <2>2, <2>3, <2>4, MqttAssumption DEF Init, TypeOK
<1>2. QueuesInv /\ HandlerInv /\ LateInv /\ AckInv
  BY DEF Init, QueuesInv, HandlerInv, LateInv, AckInv, NoCall
<1>3. ServedInv
  BY DEF Init, ServedInv, NoCall
<1> QED
  BY <1>1, <1>2, <1>3 DEF MqttInv

LEMMA TypeStep == MqttInv /\ [Next]_vars => TypeOK'
<1> SUFFICES ASSUME MqttInv, [Next]_vars PROVE TypeOK'
  OBVIOUS
<1> USE MqttAssumption DEF MqttInv, TypeOK, QueuesInv, Ops
<1>1. CASE Connect
  BY <1>1 DEF Connect, Asks, Waiting, NoCall, brokerVars, history
<1>2. CASE Publish
  BY <1>2 DEF Publish, Usable, Asks, Waiting, NoCall, brokerVars, history
<1>3. CASE Close
  BY <1>3 DEF Close, Usable, loopVars, brokerVars, history
<1>4. ASSUME NEW t \in Topics, Subscribe(t) PROVE TypeOK'
  BY <1>4 DEF Subscribe, Usable, Asks, Waiting, NoCall, brokerVars
<1>5. ASSUME NEW t \in Topics, Send(t) PROVE TypeOK'
  BY <1>5 DEF Send, loopVars, history
<1>6. ASSUME NEW args \in SeqOf(Topics, 2) \ {<<>>}, Unsubscribe(args) PROVE TypeOK'
  <2>1. ToSet(Front(args)) \subseteq Topics
    BY FrontOfTopics
  <2> QED
    BY <1>6, <2>1 DEF Unsubscribe, Usable, Asks, Waiting, NoCall, brokerVars
<1>7. CASE Callback
  <2>1. Head(jobs).topic \in Topics
    BY <1>7, TopicOfJob DEF Callback
  <2> QED
    BY <1>7, <2>1 DEF Callback, brokerVars
<1>8. CASE CallbackReturns
  BY <1>8 DEF CallbackReturns, brokerVars, history
<1>9. CASE Dispatch
  <2>1. Len(inbox') <= Depth
    BY <1>9, Taken DEF Dispatch
  <2>2. busy' \in BOOLEAN
    BY <1>9 DEF Dispatch, Handler
  <2> QED
    BY <1>9, <2>1, <2>2 DEF Dispatch, history
<1>10. CASE ReadAck
  <2>1. subscribed' \subseteq Topics
    BY <1>10 DEF ReadAck, NoCall
  <2> QED
    BY <1>10, <2>1 DEF ReadAck, Return
<1>11. CASE ReadMessage
  <2>1. Head(wire) \in Message
    BY <1>11, Taken DEF ReadMessage
  <2>2. Len(inbox') <= Depth
    BY <1>11, <2>1 DEF ReadMessage
  <2> QED
    BY <1>11, <2>2 DEF ReadMessage, loopVars, history
<1>12. CASE Disconnect
  <2>1. Len(inbox') <= Depth
    BY <1>12, Nothing DEF Disconnect
  <2> QED
    BY <1>12, <2>1 DEF Disconnect, history
<1>13. CASE Connected
  BY <1>13 DEF Connected, Return, brokerVars, history
<1>14. CASE Refused
  BY <1>14 DEF Refused, Return, brokerVars, history
<1>15. CASE BrokerAnswers
  <2>1. subs' \subseteq Topics /\ unserved' \subseteq Topics
    BY <1>15 DEF BrokerAnswers, Grants, Denies, Ends, NoCall
  <2> QED
    BY <1>15, <2>1 DEF BrokerAnswers, Return, NoCall
<1>16. CASE Lost
  <2>1. subs' \subseteq Topics /\ unserved' \subseteq Topics
    BY <1>16 DEF Lost
  <2> QED
    BY <1>16, <2>1 DEF Lost, Waiting
<1>17. CASE Reconnected
  BY <1>17 DEF Reconnected, loopVars, brokerVars, history
<1>18. CASE UNCHANGED vars
  BY <1>18 DEF vars, loopVars, brokerVars, history
<1> QED
  BY <1>1, <1>2, <1>3, <1>4, <1>5, <1>6, <1>7, <1>8, <1>9, <1>10, <1>11, <1>12, <1>13, <1>14,
     <1>15, <1>16, <1>17, <1>18 DEF Next, LoopStep, Library

LEMMA QueuesStep == MqttInv /\ [Next]_vars => QueuesInv'
<1> SUFFICES ASSUME MqttInv, [Next]_vars PROVE QueuesInv'
  OBVIOUS
<1> USE DEF MqttInv, QueuesInv
<1>1. CASE UNCHANGED <<wire, inbox, jobs>>
  BY <1>1
<1>2. ASSUME NEW t \in Topics, Send(t) PROVE QueuesInv'
  <2>1. sent \in Nat
    BY MqttAssumption DEF TypeOK
  <2>2. [id |-> sent + 1, topic |-> t] \in Message \cup {Ack}
    BY <2>1, MessageNotAck
  <2> QED
    BY <1>2, <2>2, AppendProperties DEF Send, loopVars
<1>3. CASE Callback
  BY <1>3, Taken DEF Callback, brokerVars
<1>4. CASE Dispatch
  <2>1. Head(inbox) \in Message /\ Tail(inbox) \in Seq(Message)
    BY <1>4, Taken DEF Dispatch
  <2>2. jobs' \in Seq(Message)
    BY <1>4, DispatchDoes
  <2> QED
    BY <1>4, <2>1, <2>2 DEF Dispatch
<1>5. CASE ReadAck
  BY <1>5, Taken DEF ReadAck
<1>6. CASE ReadMessage
  <2>1. Head(wire) \in Message /\ Tail(wire) \in Seq(Message \cup {Ack})
    BY <1>6, Taken DEF ReadMessage
  <2> QED
    BY <1>6, <2>1, AppendProperties DEF ReadMessage, loopVars
<1>7. CASE BrokerAnswers
  BY <1>7, AppendProperties DEF BrokerAnswers
<1>8. CASE Lost \/ Disconnect
  BY <1>8, Nothing DEF Lost, Disconnect
<1> QED
  BY <1>1, <1>2, <1>3, <1>4, <1>5, <1>6, <1>7, <1>8
  DEF Next, LoopStep, Library, vars, Connect, Publish, Close, Subscribe, Unsubscribe, CallbackReturns,
      Connected, Refused, Reconnected, loopVars, brokerVars

LEMMA HandlerStep == MqttInv /\ [Next]_vars => HandlerInv'
<1> SUFFICES ASSUME MqttInv, [Next]_vars PROVE HandlerInv'
  OBVIOUS
<1> USE DEF MqttInv, HandlerInv, QueuesInv
<1>1. CASE UNCHANGED <<jobs, busy, callback>>
  BY <1>1
<1>2. CASE Callback
  <2>1. jobs' = <<>>
    BY <1>2 DEF Callback
  <2> QED
    BY <1>2, <2>1 DEF Callback
<1>3. CASE CallbackReturns
  BY <1>3 DEF CallbackReturns
<1>4. CASE Dispatch
  <2>1. Len(jobs') <= 1 /\ ~callback' /\ jobs = <<>> /\ (busy' = TRUE \/ UNCHANGED <<jobs, busy>>)
    BY <1>4, DispatchDoes
  <2> QED
    BY <2>1
<1> QED
  BY <1>1, <1>2, <1>3, <1>4
  DEF Next, LoopStep, Library, vars, Connect, Publish, Close, Subscribe, Unsubscribe, Send, ReadAck,
      ReadMessage, Disconnect, Connected, Refused, BrokerAnswers, Lost, Reconnected, loopVars

LEMMA LateStep == MqttInv /\ [Next]_vars => LateInv'
<1> SUFFICES ASSUME MqttInv, [Next]_vars PROVE LateInv'
  OBVIOUS
<1> USE DEF MqttInv, LateInv, QueuesInv
<1>0. late \in [Topics -> Nat]
  BY DEF TypeOK
<1>1. CASE UNCHANGED <<late, jobs>> /\ routes' \subseteq routes
  BY <1>1
<1>2. ASSUME NEW t \in Topics, Subscribe(t) PROVE LateInv'
  BY <1>0, <1>2 DEF Subscribe
<1>3. CASE Callback
  <2>0. jobs # <<>> /\ jobs' = Tail(jobs)
    BY <1>3 DEF Callback
  <2>1. jobs' = <<>> /\ Head(jobs).topic \in Topics
    BY <2>0, Taken, TopicOfJob, EmptySeq DEF HandlerInv
  <2>2. late[Head(jobs).topic] = 0
    BY <1>3, <2>1 DEF Callback
  <2> QED
    BY <1>0, <1>3, <2>1, <2>2 DEF Callback
<1>4. CASE Dispatch
  <2>1. CASE Head(inbox).topic \in routes /\ jobs' = <<Head(inbox)>>
    <3>1. Head(jobs') = Head(inbox)
      BY <2>1
    <3> QED
      BY <1>4, <2>1, <3>1, DispatchDoes
  <2>2. CASE UNCHANGED jobs
    BY <1>4, <2>2, DispatchDoes
  <2> QED
    BY <1>4, <2>1, <2>2, DispatchDoes
<1> QED
  BY <1>1, <1>2, <1>3, <1>4
  DEF Next, LoopStep, Library, vars, Connect, Publish, Close, Unsubscribe, Send, CallbackReturns, ReadAck,
      ReadMessage, Disconnect, Connected, Refused, BrokerAnswers, Lost, Reconnected, loopVars, history

LEMMA AckStep == MqttInv /\ [Next]_vars => AckInv'
<1> SUFFICES ASSUME MqttInv, [Next]_vars PROVE AckInv'
  OBVIOUS
<1> USE DEF MqttInv, AckInv, QueuesInv
<1>1. CASE UNCHANGED <<wire, request, call>>
  BY <1>1
\* A call begins, or ends without an answer: there is no acknowledgement.
<1>2. CASE UNCHANGED wire /\ request # "answered" /\ request' # "answered"
  BY <1>2
<1>3. CASE wire' = <<>> /\ request' # "answered"
  BY <1>3
<1>4. ASSUME NEW t \in Topics, Send(t) PROVE AckInv'
  <2> DEFINE m == [id |-> sent + 1, topic |-> t]
  <2>1. m # Ack /\ m \in Message
    BY MessageNotAck, MqttAssumption DEF TypeOK
  <2>2. wire' = Append(wire, m) /\ request' = request /\ call' = call
    BY <1>4 DEF Send, loopVars
  <2> HIDE DEF m
  <2>3. \A i \in 1 .. Len(wire') : wire'[i] = Ack => i \in 1 .. Len(wire) /\ wire[i] = Ack
    BY <2>1, <2>2, AppendProperties
  <2> QED
    BY <2>2, <2>3
<1>5. CASE BrokerAnswers
  <2>1. \A i \in 1 .. Len(wire) : wire[i] # Ack
    BY <1>5 DEF BrokerAnswers
  <2>2. CASE wire' = wire /\ request' = "none"
    BY <2>1, <2>2
  <2>3. CASE wire' = Append(wire, Ack) /\ request' = "answered" /\ call'.op # "connect"
    BY <2>1, <2>3, AppendProperties
  <2> QED
    BY <1>5, <2>2, <2>3 DEF BrokerAnswers, Return
<1>6. CASE ReadAck
  <2>1. wire[1] = Ack /\ wire' = Tail(wire) /\ wire # <<>>
    BY <1>6, Taken DEF ReadAck
  <2>2. Len(wire) \in Nat \ {0} /\ Len(wire') = Len(wire) - 1 /\ \A i \in 1 .. Len(wire') : wire'[i] = wire[i + 1]
    BY <2>1, Taken
  <2>3. \A i \in 1 .. Len(wire') : wire'[i] # Ack
    <3> TAKE i \in 1 .. Len(wire')
    <3>1. i + 1 \in 1 .. Len(wire) /\ 1 \in 1 .. Len(wire) /\ i + 1 # 1
      BY <2>2
    <3> QED
      BY <2>1, <2>2, <3>1
  <2>4. request' = "none"
    BY <1>6 DEF ReadAck, Return
  <2> QED
    BY <2>3, <2>4
<1>7. CASE ReadMessage
  <2>1. wire' = Tail(wire) /\ wire # <<>> /\ request' = request /\ call' = call
    BY <1>7 DEF ReadMessage, loopVars
  <2>2. Len(wire) \in Nat \ {0} /\ Len(wire') = Len(wire) - 1 /\ \A i \in 1 .. Len(wire') : wire'[i] = wire[i + 1]
    BY <2>1, Taken
  <2>3. \A i \in 1 .. Len(wire') : i + 1 \in 1 .. Len(wire)
    BY <2>2
  <2>4. ASSUME NEW i \in 1 .. Len(wire'), NEW j \in 1 .. Len(wire'), wire'[i] = Ack, wire'[j] = Ack
        PROVE  i = j /\ request' = "answered"
    <3>1. i + 1 = j + 1 /\ request = "answered"
      BY <2>2, <2>3, <2>4
    <3> QED
      BY <2>1, <3>1
  <2> QED
    BY <2>1, <2>4
<1>8. CASE Connected \/ Refused
  BY <1>2, <1>8 DEF Connected, Refused, Return, brokerVars
<1> QED
  BY <1>1, <1>2, <1>3, <1>4, <1>5, <1>6, <1>7, <1>8
  DEF Next, LoopStep, Library, vars, TypeOK, Connect, Publish, Close, Subscribe, Unsubscribe, Callback,
      CallbackReturns, Dispatch, Disconnect, Lost, Reconnected, Usable, Waiting, Asks, loopVars, brokerVars

LEMMA ServedStep == MqttInv /\ [Next]_vars => ServedInv'
<1> SUFFICES ASSUME MqttInv, [Next]_vars PROVE ServedInv'
  OBVIOUS
<1> USE DEF MqttInv, ServedInv
<1>1. CASE UNCHANGED <<subscribed, unserved, subs, call, request>>
  BY <1>1
<1>2. CASE Connect \/ Publish
  BY <1>2 DEF Connect, Publish, Asks, brokerVars, history
<1>3. ASSUME NEW t \in Topics, Subscribe(t) PROVE ServedInv'
  BY <1>3 DEF Subscribe, Asks, brokerVars
<1>4. ASSUME NEW args \in SeqOf(Topics, 2) \ {<<>>}, Unsubscribe(args) PROVE ServedInv'
  BY <1>4 DEF Unsubscribe, Asks, brokerVars
<1>5. CASE Connected \/ Refused \/ Disconnect
  BY <1>5 DEF Connected, Refused, Disconnect, Return, NoCall, brokerVars, history
<1>6. CASE BrokerAnswers
  <2>1. CASE call.op = "subscribe" /\ (Grants \/ Denies)
    BY <1>6, <2>1 DEF BrokerAnswers, Grants, Denies, Return
  <2>2. CASE call.op = "unsubscribe" /\ Ends
    BY <1>6, <2>2 DEF BrokerAnswers, Ends, Return
  <2>3. CASE call.op = "publish" /\ UNCHANGED <<subs, unserved>>
    BY <1>6, <2>3 DEF BrokerAnswers, Return, NoCall
  <2> QED
    BY <1>6, <2>1, <2>2, <2>3 DEF BrokerAnswers
<1>7. CASE ReadAck
  <2>1. request = "answered"
    BY <1>7, Taken DEF ReadAck, AckInv, QueuesInv
  <2> QED
    BY <1>7, <2>1 DEF ReadAck, Return, NoCall
<1>8. CASE Lost
  BY <1>8 DEF Lost
<1> QED
  BY <1>1, <1>2, <1>3, <1>4, <1>5, <1>6, <1>7, <1>8
  DEF Next, LoopStep, Library, vars, Close, Send, Callback, CallbackReturns, Dispatch, ReadMessage,
      Reconnected, loopVars, brokerVars, history

-----------------------------------------------------------------------------
\* The inductive invariant of a client.
THEOREM MqttSafe == Spec => []MqttInv
<1>1. MqttInv /\ [Next]_vars => MqttInv'
  BY TypeStep, QueuesStep, HandlerStep, LateStep, AckStep, ServedStep DEF MqttInv
<1> QED
  BY <1>1, MqttInit, PTL DEF Spec

\* The state of a client is well-typed, and a request belongs to a call.
THEOREM MqttTyped == Spec => []TypeOK
<1>1. MqttInv => TypeOK
  BY DEF MqttInv
<1> QED
  BY <1>1, MqttSafe, PTL

\* After an unsubscribe one callback of a topic may still come, and no second one: a handler
\* waits for the callback it has scheduled (mqttSubscribe, mqttUnsubscribe).
THEOREM MqttOneLate == Spec => []AtMostOneLate
<1>1. MqttInv => AtMostOneLate
  BY DEF MqttInv, LateInv, AtMostOneLate
<1> QED
  BY <1>1, MqttSafe, PTL

\* The broker serves what subscribe has returned for, until it is unsubscribed, unless the
\* broker has denied the last subscribe of the topic, or a clean session has lost its
\* connection since it was granted (newMQTT, mqttSubscribe).
THEOREM MqttServed == Spec => []SubscribedIsServed
<1>1. MqttInv => SubscribedIsServed
  BY DEF MqttInv, ServedInv, SubscribedIsServed
<1> QED
  BY <1>1, MqttSafe, PTL
=============================================================================
