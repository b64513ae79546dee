-------------------------- MODULE MqttClientProofs --------------------------
(***************************************************************************)
(* Proofs, for every value of the constants that ClientAssumption allows, *)
(* of the invariants the mqtt_client run checks on one small instance.     *)
(*                                                                         *)
(* The invariants are not inductive on their own.  Two facts about the     *)
(* request list close the argument:                                        *)
(*  - ReqsOnlyConnected: lwIP holds no request unless it is Connected.     *)
(*    Publishes are issued only while is_connected, subscribes only from   *)
(*    the CONNACK, and mqtt_close empties the list.  So the connection     *)
(*    callback's tls_mqtt_sub_unsub_topics always starts from an empty     *)
(*    list, and its at most |Topics| requests fit in MaxInFlight;          *)
(*  - the list is a finite set, so that its cardinality can be bounded.    *)
(* SubRequestMatchesFlag also carries the uniqueness the flip needs: a     *)
(* pending sub/unsub request is fixed by its topic and the topic's flag,   *)
(* so a topic has at most one, and a success that flips the flag leaves    *)
(* no other request of that topic behind.                                  *)
(***************************************************************************)
EXTENDS MqttClient, FiniteSetTheorems, TLAPS

\* lwIP holds pending requests only on an accepted connection.
ReqsOnlyConnected == conn # "Connected" => reqs = {}

IInv ==
  /\ TypeOK
  /\ IsFiniteSet(reqs)
  /\ ReqsOnlyConnected
  /\ ConnectedFlagSound
  /\ NoUseAfterFree
  /\ SubRequestMatchesFlag

-----------------------------------------------------------------------------
(* Lemmas about requests.                                                  *)

\* A request is a publish of a message or a sub/unsub of a topic, and is
\* determined by those fields.
LEMMA RequestFacts ==
  ASSUME NEW q \in Request
  PROVE  \/ /\ q.kind = "pub"
            /\ q.msg \in MsgIds
            /\ q = PubReq(q.msg)
         \/ /\ q.kind \in {"sub", "unsub"}
            /\ q.topic \in Topics
            /\ q = SubReq(q.topic, q.kind = "sub")
BY DEF Request, PubReq, SubReq

\* SubReq(t, b) is a sub/unsub request of topic t, a subscribe iff b.
LEMMA SubReqFacts ==
  ASSUME NEW t \in Topics, NEW b \in BOOLEAN
  PROVE  /\ SubReq(t, b) \in Request
         /\ SubReq(t, b).kind # "pub"
         /\ SubReq(t, b).topic = t
         /\ (SubReq(t, b).kind = "sub") = b
BY DEF Request, SubReq

\* PubReq(m) is the publish request of message m.
LEMMA PubReqFacts ==
  ASSUME NEW m \in MsgIds
  PROVE  /\ PubReq(m) \in Request
         /\ PubReq(m).kind = "pub"
         /\ PubReq(m).msg = m
BY DEF Request, PubReq

-----------------------------------------------------------------------------
(* The inductive invariant.                                                *)

LEMMA InitIInv == Init => IInv
<1> SUFFICES ASSUME Init PROVE IInv
  OBVIOUS
<1>0. IsFiniteSet(reqs) /\ Cardinality(reqs) = 0
  BY FS_EmptySet DEF Init
<1>1. TypeOK
  <2>1. is_subscribed \in [Topics -> BOOLEAN] /\ retries \in [Topics -> 0..MaxRetries]
    BY ClientAssumption DEF Init
  <2>2. heap \subseteq 1..nextMsg /\ reqs \subseteq Request
    BY DEF Init
  <2>3. nextMsg \in 0..MaxPubs /\ closes \in 0..MaxCloses /\ round \in 0..NPub
    BY ClientAssumption DEF Init
  <2>4. Cardinality(reqs) <= MaxInFlight
    BY <1>0, ClientAssumption
  <2> QED
    BY <2>1, <2>2, <2>3, <2>4 DEF Init, TypeOK
<1>2. IsFiniteSet(reqs)
  BY <1>0
<1> QED
  BY <1>1, <1>2 DEF Init, IInv, ReqsOnlyConnected, ConnectedFlagSound,
     NoUseAfterFree, Pending, SubRequestMatchesFlag

\* The first tls_mqtt_connect: lwIP can only move from Disconnected, where
\* no request is pending and is_connected is clear.
LEMMA StartClientIInv ==
  ASSUME IInv, StartClient
  PROVE  IInv'
<1> USE DEF IInv, StartClient, TlsMqttConnect
<1>1. conn' \in {"Disconnected", "Connecting", "Connected"}
  BY DEF TypeOK
<1>2. TypeOK'
  BY <1>1 DEF TypeOK
<1>3. (ReqsOnlyConnected /\ ConnectedFlagSound)'
  BY DEF ReqsOnlyConnected, ConnectedFlagSound
<1> QED
  BY <1>2, <1>3 DEF NoUseAfterFree, Pending, SubRequestMatchesFlag

\* The CONNACK: the list is empty (lwIP was Connecting), and the
\* connection callback fills it with one subscribe per topic whose flag is
\* clear, at most |Topics| <= MaxInFlight requests.
LEMMA ConnAcceptedIInv ==
  ASSUME IInv, ConnAccepted
  PROVE  IInv'
<1> DEFINE need == {t \in Topics : is_subscribed[t] # TRUE}
<1>0. /\ reqs = {}
      /\ reqs' = {SubReq(t, TRUE) : t \in need}
      /\ retries' \in [Topics -> 0..MaxRetries]
      /\ is_connected' = TRUE /\ conn' = "Connected"
  <2>1. reqs = {}
    BY DEF IInv, ReqsOnlyConnected, ConnAccepted
  <2>2. reqs' = {SubReq(t, TRUE) : t \in need}
    BY <2>1 DEF ConnAccepted, SubUnsubTopics
  <2>3. retries' \in [Topics -> 0..MaxRetries]
    <3>1. retries' = [t \in Topics |-> IF t \in need THEN 0 ELSE retries[t]]
      BY DEF ConnAccepted, SubUnsubTopics
    <3>2. \A t \in Topics : (IF t \in need THEN 0 ELSE retries[t]) \in 0..MaxRetries
      <4> SUFFICES ASSUME NEW t \in Topics
                   PROVE  (IF t \in need THEN 0 ELSE retries[t]) \in 0..MaxRetries
        OBVIOUS
      <4>1. 0 \in 0..MaxRetries
        BY ClientAssumption
      <4>2. retries[t] \in 0..MaxRetries
        BY DEF IInv, TypeOK
      <4> QED
        BY <4>1, <4>2
    <3> QED
      BY <3>1, <3>2
  <2>4. is_connected' = TRUE /\ conn' = "Connected"
    BY DEF ConnAccepted, ConnectionCb
  <2> QED
    BY <2>1, <2>2, <2>3, <2>4
<1>1. /\ IsFiniteSet(need)
      /\ Cardinality(need) <= MaxInFlight
  <2>1. IsFiniteSet(need) /\ Cardinality(need) <= Cardinality(Topics)
    BY ClientAssumption, FS_Subset
  <2> QED
    BY <2>1, ClientAssumption, FS_CardinalityType
<1>2. [t \in need |-> SubReq(t, TRUE)] \in Surjection(need, reqs')
  <2> DEFINE f == [t \in need |-> SubReq(t, TRUE)]
  <2>1. \A t \in need : SubReq(t, TRUE) \in reqs'
    BY <1>0
  <2>2. \A q \in reqs' : \E t \in need : f[t] = q
    BY <1>0
  <2> QED
    BY <2>1, <2>2 DEF Surjection
<1>3. IsFiniteSet(reqs') /\ Cardinality(reqs') <= MaxInFlight
  <2>1. IsFiniteSet(reqs') /\ Cardinality(reqs') <= Cardinality(need)
    BY <1>1, <1>2, FS_Surjection
  <2>2. Cardinality(reqs') \in Nat /\ Cardinality(need) \in Nat
    BY <1>1, <2>1, FS_CardinalityType
  <2> QED
    BY <1>1, <2>1, <2>2, ClientAssumption
<1>4. \A q \in reqs' : /\ q \in Request
                       /\ q.kind # "pub"
                       /\ (q.kind = "sub") = ~is_subscribed[q.topic]
  <2> SUFFICES ASSUME NEW q \in reqs'
               PROVE  /\ q \in Request
                      /\ q.kind # "pub"
                      /\ (q.kind = "sub") = ~is_subscribed[q.topic]
    OBVIOUS
  <2>1. PICK t \in need : q = SubReq(t, TRUE)
    BY <1>0
  <2>2. is_subscribed[t] = FALSE
    BY DEF IInv, TypeOK
  <2> QED
    BY <2>1, <2>2, SubReqFacts
<1>5. TypeOK'
  <2>1. UNCHANGED <<is_subscribed, heap, started, brokerSubs, nextMsg, closes,
                    round>>
    BY DEF ConnAccepted
  <2> QED
    BY <1>0, <1>3, <1>4, <2>1 DEF IInv, TypeOK
<1>6. NoUseAfterFree'
  BY <1>4 DEF NoUseAfterFree, Pending
<1>7. SubRequestMatchesFlag'
  BY <1>4 DEF SubRequestMatchesFlag, ConnAccepted
<1> QED
  BY <1>0, <1>3, <1>5, <1>6, <1>7 DEF IInv, ReqsOnlyConnected,
     ConnectedFlagSound

\* mqtt_close: the list is emptied and the callback clears is_connected;
\* any reconnect it starts is only Connecting.
LEMMA CloseIInv ==
  ASSUME IInv, NEW status \in {"DISCONNECTED", "TIMEOUT", "REFUSED"},
         Close(status)
  PROVE  IInv'
<1>0. /\ reqs' = {}
      /\ is_connected' = FALSE
      /\ conn' \in {"Disconnected", "Connecting"}
      /\ heap' \subseteq heap
  BY DEF Close, ConnectionCb, TlsMqttConnect
<1>1. IsFiniteSet(reqs') /\ Cardinality(reqs') = 0
  BY <1>0, FS_EmptySet
<1>2. TypeOK'
  <2>1. closes' \in 0..MaxCloses
    BY ClientAssumption DEF IInv, TypeOK, Close
  <2>2. UNCHANGED <<is_subscribed, started, nextMsg, round, retries>>
    BY DEF Close
  <2>3. brokerSubs' = {}
    BY DEF Close
  <2>4. heap' \subseteq 1..nextMsg'
    BY <1>0, <2>2 DEF IInv, TypeOK
  <2>5. Cardinality(reqs') <= MaxInFlight /\ reqs' \subseteq Request
    BY <1>0, <1>1, ClientAssumption
  <2>6. is_connected' \in BOOLEAN /\ conn' \in {"Disconnected", "Connecting", "Connected"}
    BY <1>0
  <2> QED
    BY <2>1, <2>2, <2>3, <2>4, <2>5, <2>6 DEF IInv, TypeOK
<1> QED
  BY <1>0, <1>1, <1>2 DEF IInv, ReqsOnlyConnected, ConnectedFlagSound,
     NoUseAfterFree, Pending, SubRequestMatchesFlag

\* A step that moves only publish_topic_data's call index keeps the
\* invariant (the timer starting a round, a call that sends nothing, a
\* failed malloc that ends the round).
LEMMA RoundOnlyIInv ==
  ASSUME IInv, round' \in 0..NPub,
         UNCHANGED <<is_connected, is_subscribed, heap, started, conn, reqs,
                     brokerSubs, nextMsg, closes, retries>>
  PROVE  IInv'
BY DEF IInv, TypeOK, ReqsOnlyConnected, ConnectedFlagSound, NoUseAfterFree,
       Pending, SubRequestMatchesFlag

\* A publish completes: lwIP forgets the request, then the callback frees
\* the message; no other pending request names the same message.
LEMMA PubDoneIInv ==
  ASSUME IInv, NEW m \in MsgIds, PubDone(m)
  PROVE  IInv'
<1>0. /\ PubReq(m) \in reqs
      /\ reqs' = reqs \ {PubReq(m)}
      /\ heap' = heap \ {m}
      /\ UNCHANGED <<is_connected, is_subscribed, started, conn, brokerSubs,
                     nextMsg, closes, round, retries>>
  BY DEF PubDone, PubRequestCb
<1>1. IsFiniteSet(reqs') /\ Cardinality(reqs') <= MaxInFlight
  <2>1. IsFiniteSet(reqs') /\ Cardinality(reqs') = Cardinality(reqs) - 1
    BY <1>0, FS_RemoveElement DEF IInv
  <2>2. Cardinality(reqs) \in Nat
    BY FS_CardinalityType DEF IInv
  <2> QED
    BY <2>1, <2>2, ClientAssumption DEF IInv, TypeOK
<1>2. NoUseAfterFree'
  <2> SUFFICES ASSUME NEW q \in reqs', q.kind = "pub" PROVE q.msg \in heap'
    BY DEF NoUseAfterFree, Pending
  <2>1. q \in reqs /\ q # PubReq(m) /\ q \in Request
    BY <1>0 DEF IInv, TypeOK
  <2>2. q = PubReq(q.msg)
    BY <2>1, RequestFacts
  <2>3. q.msg # m
    BY <2>1, <2>2
  <2>4. q.msg \in heap
    BY <2>1 DEF IInv, NoUseAfterFree, Pending
  <2> QED
    BY <1>0, <2>3, <2>4
<1> QED
  BY <1>0, <1>1, <1>2 DEF IInv, TypeOK, ReqsOnlyConnected, ConnectedFlagSound,
     SubRequestMatchesFlag

\* tls_mqtt_publish: a call that allocates a message either has it queued
\* (lwIP Connected, since is_connected) or returns with the message
\* allocated and not pending.
LEMMA PublishIInv ==
  ASSUME IInv, NEW i \in 1..NPub, Publish(i)
  PROVE  IInv'
<1>0. /\ round = i
      /\ UNCHANGED <<is_connected, is_subscribed, started, conn, brokerSubs,
                     closes, retries>>
  BY DEF Publish, TlsMqttPublish
<1>1. CASE UNCHANGED <<heap, reqs, nextMsg>>
  <2>1. round' \in 0..NPub
    BY <1>0, ClientAssumption DEF Publish, TlsMqttPublish
  <2> QED
    BY <1>0, <1>1, <2>1, RoundOnlyIInv
<1>2. CASE /\ is_connected
           /\ nextMsg < MaxPubs
           /\ nextMsg' = nextMsg + 1
           /\ heap' = heap \cup {nextMsg + 1}
           /\ conn # "Disconnected"
           /\ Cardinality(reqs) < MaxInFlight
           /\ reqs' = reqs \cup {PubReq(nextMsg + 1)}
           /\ round' = IF i = NPub THEN 0 ELSE i + 1
  <2>1. nextMsg + 1 \in MsgIds /\ nextMsg' \in 0..MaxPubs
    BY <1>2, ClientAssumption DEF IInv, TypeOK, MsgIds
  <2>2. IsFiniteSet(reqs') /\ Cardinality(reqs') <= MaxInFlight
    <3>1. Cardinality(reqs) \in Nat
      BY FS_CardinalityType DEF IInv
    <3>2. IsFiniteSet(reqs') /\ Cardinality(reqs') <= Cardinality(reqs) + 1
      BY <1>2, <3>1, FS_AddElement DEF IInv
    <3>3. Cardinality(reqs') \in Nat
      BY <3>2, FS_CardinalityType
    <3> QED
      BY <1>2, <3>1, <3>2, <3>3, ClientAssumption
  <2>3. reqs' \subseteq Request /\ heap' \subseteq 1..nextMsg'
    BY <1>2, <2>1, PubReqFacts DEF IInv, TypeOK
  <2>4. round' \in 0..NPub
    BY <1>2, ClientAssumption
  <2>5. TypeOK'
    BY <1>0, <2>1, <2>2, <2>3, <2>4 DEF IInv, TypeOK
  <2>6. conn' = "Connected"
    BY <1>0, <1>2 DEF IInv, ConnectedFlagSound
  <2>7. NoUseAfterFree'
    <3> SUFFICES ASSUME NEW q \in reqs', q.kind = "pub" PROVE q.msg \in heap'
      BY DEF NoUseAfterFree, Pending
    <3>1. CASE q = PubReq(nextMsg + 1)
      BY <1>2, <3>1, <2>1, PubReqFacts
    <3>2. CASE q \in reqs
      BY <1>2, <3>2 DEF IInv, NoUseAfterFree, Pending
    <3> QED
      BY <1>2, <3>1, <3>2
  <2>8. SubRequestMatchesFlag'
    BY <1>0, <1>2, <2>1, PubReqFacts DEF IInv, SubRequestMatchesFlag
  <2> QED
    BY <1>0, <2>2, <2>5, <2>6, <2>7, <2>8 DEF IInv, ReqsOnlyConnected,
       ConnectedFlagSound
<1>3. CASE /\ nextMsg < MaxPubs
           /\ nextMsg' = nextMsg + 1
           /\ heap' = heap \cup {nextMsg + 1}
           /\ round' = 0
           /\ UNCHANGED reqs
  <2>1. TypeOK'
    BY <1>0, <1>3, ClientAssumption DEF IInv, TypeOK
  <2> QED
    BY <1>0, <1>3, <2>1 DEF IInv, ReqsOnlyConnected, ConnectedFlagSound,
       NoUseAfterFree, Pending, SubRequestMatchesFlag
<1> QED
  BY <1>1, <1>2, <1>3 DEF Publish, TlsMqttPublish

\* A pending sub/unsub request is the only one of its topic: it is fixed by
\* the topic and the topic's flag.
LEMMA OneRequestPerTopic ==
  ASSUME IInv, NEW r \in reqs, NEW q \in reqs,
         r.kind # "pub", q.kind # "pub", q.topic = r.topic
  PROVE  q = r
<1>1. r \in Request /\ q \in Request
  BY DEF IInv, TypeOK
<1>2. r = SubReq(r.topic, r.kind = "sub") /\ q = SubReq(q.topic, q.kind = "sub")
  BY <1>1, RequestFacts
<1>3. (r.kind = "sub") = (q.kind = "sub")
  BY DEF IInv, SubRequestMatchesFlag
<1> QED
  BY <1>2, <1>3

\* A sub/unsub completes: on success tls_mqtt_subscribe_request_cb flips
\* the flag of the only request of its topic; on failure it re-issues the
\* same request or drops it.
LEMMA SubDoneIInv ==
  ASSUME IInv, NEW r \in reqs, NEW ok \in BOOLEAN, SubDone(r, ok)
  PROVE  IInv'
<1> DEFINE t == r.topic
<1>0. /\ r.kind \in {"sub", "unsub"}
      /\ t \in Topics
      /\ r = SubReq(t, ~is_subscribed[t])
      /\ conn = "Connected"
      /\ brokerSubs' \subseteq Topics
      /\ UNCHANGED <<is_connected, heap, started, conn, nextMsg, closes, round>>
  <2>1. r \in Request /\ r.kind \in {"sub", "unsub"}
    BY DEF IInv, TypeOK, SubDone
  <2>2. t \in Topics /\ r = SubReq(t, r.kind = "sub")
    BY <2>1, RequestFacts
  <2>3. (r.kind = "sub") = ~is_subscribed[t]
    BY <2>1 DEF IInv, SubRequestMatchesFlag
  <2>4. brokerSubs' \subseteq Topics
    BY <2>2 DEF IInv, TypeOK, SubDone
  <2> QED
    BY <2>1, <2>2, <2>3, <2>4 DEF IInv, ReqsOnlyConnected, SubDone
<1>1. IsFiniteSet(reqs \ {r}) /\ Cardinality(reqs \ {r}) = Cardinality(reqs) - 1
  BY FS_RemoveElement DEF IInv
<1>2. Cardinality(reqs) \in Nat /\ Cardinality(reqs \ {r}) \in Nat
  BY <1>1, FS_CardinalityType DEF IInv
<1>3. \A q \in reqs \ {r} : q.kind # "pub" => q.topic # t
  <2> SUFFICES ASSUME NEW q \in reqs \ {r}, q.kind # "pub", q.topic = t
               PROVE  FALSE
    OBVIOUS
  <2>1. q = r
    BY <1>0, OneRequestPerTopic
  <2> QED
    BY <2>1
<1>4. CASE ok
  <2>1. /\ is_subscribed' = [is_subscribed EXCEPT ![t] = ~@]
        /\ reqs' = reqs \ {r}
        /\ UNCHANGED retries
    BY <1>4 DEF SubDone, SubscribeRequestCb
  <2>2. TypeOK'
    BY <1>0, <1>1, <1>2, <2>1, ClientAssumption DEF IInv, TypeOK
  <2>3. SubRequestMatchesFlag'
    BY <1>3, <2>1 DEF IInv, TypeOK, SubRequestMatchesFlag
  <2> QED
    BY <1>0, <1>1, <2>1, <2>2, <2>3 DEF IInv, ReqsOnlyConnected,
       ConnectedFlagSound, NoUseAfterFree, Pending
<1>5. CASE ~ok /\ reqs' = reqs \ {r} /\ UNCHANGED retries
  <2>1. UNCHANGED is_subscribed
    BY <1>5 DEF SubDone, SubscribeRequestCb
  <2>2. TypeOK'
    BY <1>0, <1>1, <1>2, <1>5, <2>1, ClientAssumption DEF IInv, TypeOK
  <2> QED
    BY <1>0, <1>1, <1>5, <2>1, <2>2 DEF IInv, ReqsOnlyConnected,
       ConnectedFlagSound, NoUseAfterFree, Pending, SubRequestMatchesFlag
<1>6. CASE /\ ~ok
           /\ Cardinality(reqs) < MaxInFlight
           /\ retries[t] < MaxRetries
           /\ reqs' = (reqs \ {r}) \cup {SubReq(t, ~is_subscribed[t])}
           /\ retries' = [retries EXCEPT ![t] = @ + 1]
  <2>0. reqs' = reqs /\ UNCHANGED is_subscribed
    BY <1>0, <1>6 DEF SubDone, SubscribeRequestCb
  <2>1. retries' \in [Topics -> 0..MaxRetries]
    BY <1>0, <1>6, ClientAssumption DEF IInv, TypeOK
  <2>2. TypeOK'
    BY <1>0, <2>0, <2>1 DEF IInv, TypeOK
  <2> QED
    BY <1>0, <2>0, <2>2 DEF IInv, ReqsOnlyConnected, ConnectedFlagSound,
       NoUseAfterFree, Pending, SubRequestMatchesFlag
<1> QED
  BY <1>4, <1>5, <1>6 DEF SubDone, SubscribeRequestCb

LEMMA NextIInv ==
  ASSUME IInv, [Next]_vars
  PROVE  IInv'
<1>1. CASE StartClient
  BY <1>1, StartClientIInv
<1>2. CASE ConnAccepted
  BY <1>2, ConnAcceptedIInv
<1>3. CASE \E s \in {"DISCONNECTED", "TIMEOUT", "REFUSED"} : Close(s)
  BY <1>3, CloseIInv
<1>4. CASE \E m \in MsgIds : PubDone(m)
  BY <1>4, PubDoneIInv
<1>5. CASE \E r \in reqs, ok \in BOOLEAN : SubDone(r, ok)
  BY <1>5, SubDoneIInv
<1>6. CASE StartRound
  <2>1. round' \in 0..NPub
    BY <1>6, ClientAssumption DEF StartRound
  <2> QED
    BY <1>6, <2>1, RoundOnlyIInv DEF StartRound
<1>7. CASE \E i \in 1..NPub : Publish(i)
  BY <1>7, PublishIInv
<1>8. CASE UNCHANGED vars
  BY <1>8 DEF vars, IInv, TypeOK, ReqsOnlyConnected, ConnectedFlagSound,
     NoUseAfterFree, Pending, SubRequestMatchesFlag
<1> QED
  BY <1>1, <1>2, <1>3, <1>4, <1>5, <1>6, <1>7, <1>8 DEF Next

LEMMA AlwaysIInv == Spec => []IInv
BY InitIInv, NextIInv, PTL DEF Spec

-----------------------------------------------------------------------------
(* Theorems.                                                               *)

\* Every reachable state of the client has the types TypeOK gives, the
\* request list included: it never holds more than MaxInFlight requests,
\* so the connection callback's subscribes always fit in lwIP's list.
THEOREM TypeCorrect == Spec => []TypeOK
BY AlwaysIInv, PTL DEF IInv

\* is_connected, which tls_mqtt_publish and the main loop read, is set
\* only while lwIP holds an accepted connection: through every close,
\* reconnect and refused CONNACK.
THEOREM ConnectedFlagAlwaysSound == Spec => []ConnectedFlagSound
BY AlwaysIInv, PTL DEF IInv

\* tls_mqtt_pub_request_cb never frees a message twice: every message lwIP
\* will call back for is still allocated.
THEOREM NoUseAfterFreeAlways == Spec => []NoUseAfterFree
BY AlwaysIInv, PTL DEF IInv

\* The flip in tls_mqtt_subscribe_request_cb is right: every pending
\* subscribe is for a topic whose flag is clear, every pending unsubscribe
\* for one whose flag is set, whatever the failures and retries.
THEOREM SubRequestsMatchFlags == Spec => []SubRequestMatchesFlag
BY AlwaysIInv, PTL DEF IInv

=============================================================================
