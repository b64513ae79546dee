----------------------------- MODULE MqttClient -----------------------------
(***************************************************************************)
(* The connection, subscription and publish lifecycle of the MQTT client   *)
(* engine (src/tls_mqtt_client.c) and its use by the network core's main   *)
(* loop (mqtt_sta_mode and publish_topic_data in src/main.c).              *)
(*                                                                         *)
(* Below the engine sits the lwIP MQTT client and the broker, modelled by  *)
(* what the engine relies on:                                              *)
(*  - a connection state: Disconnected, Connecting (CONNECT sent) or       *)
(*    Connected; mqtt_client_connect is refused unless Disconnected, and   *)
(*    may fail at once (no route, no memory), leaving it Disconnected;     *)
(*  - a list of at most MaxInFlight pending requests (subscribe,           *)
(*    unsubscribe, QoS 1 publish); a request is refused at once when the   *)
(*    list or the output buffer is full, and never calls back then;        *)
(*  - every pending request calls back exactly once: with success, with a  *)
(*    failure or timeout, or with an error when the connection closes      *)
(*    (the behaviour the comment in tls_mqtt_deinit relies on);            *)
(*  - clean sessions: the broker forgets the subscriptions of a closed     *)
(*    connection.                                                          *)
(* A published message is the heap block tls_mqtt_publish allocates; its   *)
(* payload is abstracted away.                                             *)
(***************************************************************************)
EXTENDS Naturals, FiniteSets

CONSTANTS
  Topics,       \* control topics (topics[] / topics_sessions[])
  NPub,         \* tls_mqtt_publish calls per publish_topic_data
  MaxInFlight,  \* lwIP: size of the request list (MQTT_REQ_MAX_IN_FLIGHT)
  CloseCallsBack, \* lwIP: mqtt_close calls pending requests back (with
                 \* ERR_CONN) rather than dropping them silently
  MaxPubs,      \* bound: messages allocated over a run
  MaxCloses,    \* bound: connections closed over a run
  MaxRetries    \* bound: re-issues of one sub/unsub request

ASSUME ClientAssumption ==
  /\ NPub \in Nat \ {0}
  /\ MaxInFlight \in Nat \ {0}
  /\ MaxPubs \in Nat
  /\ MaxCloses \in Nat
  /\ MaxRetries \in Nat
  /\ CloseCallsBack \in BOOLEAN
  /\ IsFiniteSet(Topics)
  /\ Cardinality(Topics) <= MaxInFlight

VARIABLES
  is_connected,  \* MQTT_CLIENT_T.is_connected
  is_subscribed, \* TopicState.is_subscribed, per topic
  heap,          \* MQTTMessage blocks allocated and not freed
  started,       \* mqtt_sta_mode has made its first tls_mqtt_connect
  conn,          \* lwIP: connection state
  reqs,          \* lwIP: pending requests
  brokerSubs,    \* broker: topics this session is subscribed to
  nextMsg,       \* messages allocated so far (the next block's name)
  closes,        \* connections closed so far
  round,         \* publish_topic_data: index of the next tls_mqtt_publish
                 \* call, 0 when the main loop is not inside it
  retries        \* re-issues of the current sub/unsub request, per topic

vars == <<is_connected, is_subscribed, heap, started, conn, reqs, brokerSubs,
          nextMsg, closes, round, retries>>

MsgIds == 1..MaxPubs
Request == [kind : {"sub", "unsub"}, topic : Topics] \cup
           [kind : {"pub"}, msg : MsgIds]
SubReq(t, sub) == [kind |-> IF sub THEN "sub" ELSE "unsub", topic |-> t]
PubReq(m) == [kind |-> "pub", msg |-> m]

\* The messages lwIP holds a callback for.
Pending == {r.msg : r \in {q \in reqs : q.kind = "pub"}}

-----------------------------------------------------------------------------
(* Plausible bugs of the engine, used to show that the properties below   *)
(* can fail: a sub/unsub issued whatever the topic's flag, a disconnect   *)
(* that leaves is_connected set, a message freed as soon as mqtt_publish  *)
(* has queued it, and a publish loop that runs one call too many.          *)

Mutant_SubUnsubTopicsUnguarded(sub) ==
  /\ reqs' = reqs \cup {SubReq(t, sub) : t \in Topics}
  /\ retries' = [t \in Topics |-> 0]

Mutant_ConnectionCbKeepFlag(status, c) ==
  IF status = "ACCEPTED" THEN is_connected' = TRUE
  ELSE IF status \in {"DISCONNECTED", "TIMEOUT"}
  THEN /\ UNCHANGED is_connected
       /\ IF c = "Disconnected" THEN conn' \in {"Connecting", "Disconnected"}
                                ELSE conn' = c
  ELSE /\ is_connected' = FALSE
       /\ conn' = c

Mutant_TlsMqttPublishFreeAfterSend(i) ==
  /\ round = i
  /\ \/ /\ round' = IF i = NPub THEN 0 ELSE i + 1
        /\ UNCHANGED <<heap, reqs, nextMsg>>
     \/ /\ is_connected
        /\ round' = 0
        /\ UNCHANGED <<heap, reqs, nextMsg>>
     \/ /\ is_connected
        /\ nextMsg < MaxPubs
        /\ nextMsg' = nextMsg + 1
        /\ \/ /\ conn # "Disconnected"
              /\ Cardinality(reqs) < MaxInFlight
              /\ reqs' = reqs \cup {PubReq(nextMsg + 1)}
              /\ round' = IF i = NPub THEN 0 ELSE i + 1
              /\ UNCHANGED heap
           \/ /\ round' = 0
              /\ heap' = heap \cup {nextMsg + 1}
              /\ UNCHANGED reqs

Mutant_TlsMqttPublishOffByOne(i) ==
  /\ round = i
  /\ \/ /\ round' = IF i = NPub + 1 THEN 0 ELSE i + 1
        /\ UNCHANGED <<heap, reqs, nextMsg>>
     \/ /\ is_connected
        /\ round' = 0
        /\ UNCHANGED <<heap, reqs, nextMsg>>
     \/ /\ is_connected
        /\ nextMsg < MaxPubs
        /\ nextMsg' = nextMsg + 1
        /\ heap' = heap \cup {nextMsg + 1}
        /\ \/ /\ conn # "Disconnected"
              /\ Cardinality(reqs) < MaxInFlight
              /\ reqs' = reqs \cup {PubReq(nextMsg + 1)}
              /\ round' = IF i = NPub + 1 THEN 0 ELSE i + 1
           \/ /\ round' = 0
              /\ UNCHANGED reqs

-----------------------------------------------------------------------------
(* Engine operations (the lwIP calls they make included).                 *)

\* tls_mqtt_connect, called with lwIP in state c: mqtt_client_connect starts
\* a connection (Connecting) when c is Disconnected and the TCP connect can be
\* issued; it may also fail at once (no route, no memory), and it returns
\* ERR_ISCONN in any other state.  No retry follows a failure.
TlsMqttConnect(c) ==
  IF c = "Disconnected" THEN conn' \in {"Connecting", "Disconnected"}
                        ELSE conn' = c

\* tls_mqtt_sub_unsub_topics(client, sub), called right after the CONNACK,
\* when the request list and the output buffer are empty: one mqtt_sub_unsub
\* for each topic whose flag differs from sub.
SubUnsubTopics(sub) ==
  LET need == {t \in Topics : is_subscribed[t] # sub}
  IN  /\ reqs' = reqs \cup {SubReq(t, sub) : t \in need}
      /\ retries' = [t \in Topics |-> IF t \in need THEN 0 ELSE retries[t]]

\* tls_mqtt_connection_cb(status), lwIP being in state c when it calls it:
\* accepted -> connected; disconnected or timeout -> not connected and
\* reconnect at once; any refusal -> not connected, no retry.
ConnectionCb(status, c) ==
  IF status = "ACCEPTED" THEN is_connected' = TRUE
  ELSE IF status \in {"DISCONNECTED", "TIMEOUT"}
  THEN /\ is_connected' = FALSE
       /\ TlsMqttConnect(c)
  ELSE /\ is_connected' = FALSE
       /\ conn' = c

\* tls_mqtt_publish, the i-th call of publish_topic_data.  Not connected or
\* an empty payload: ERR_OK, nothing sent.  A failed malloc: ERR_MEM, the
\* partial message freed, publish_topic_data returns.  Otherwise
\* mqtt_publish queues the message with tls_mqtt_pub_request_cb, or fails
\* (ERR_CONN, or ERR_MEM with the request list or output buffer full), and
\* publish_topic_data returns: the message is not freed.
TlsMqttPublish(i) ==
  /\ round = i
  /\ \/ /\ round' = IF i = NPub THEN 0 ELSE i + 1
        /\ UNCHANGED <<heap, reqs, nextMsg>>
     \/ /\ is_connected
        /\ round' = 0
        /\ UNCHANGED <<heap, reqs, nextMsg>>
     \/ /\ is_connected
        /\ nextMsg < MaxPubs
        /\ nextMsg' = nextMsg + 1
        /\ heap' = heap \cup {nextMsg + 1}
        /\ \/ /\ conn # "Disconnected"
              /\ Cardinality(reqs) < MaxInFlight
              /\ reqs' = reqs \cup {PubReq(nextMsg + 1)}
              /\ round' = IF i = NPub THEN 0 ELSE i + 1
           \/ /\ round' = 0
              /\ UNCHANGED reqs

\* tls_mqtt_pub_request_cb(message): whatever the result, clean_message.
PubRequestCb(m) == heap' = heap \ {m}

\* tls_mqtt_subscribe_request_cb(session, err) for the pending request r:
\* on success flip the flag; on failure re-issue the request with
\* mqtt_sub_unsub(!is_subscribed), which lwIP queues only if a request slot
\* is free (r's slot is released after the callback returns) and the output
\* buffer has room, else the error is only logged.
SubscribeRequestCb(r, ok) ==
  LET t == r.topic IN
  IF ok
  THEN /\ is_subscribed' = [is_subscribed EXCEPT ![t] = ~@]
       /\ reqs' = reqs \ {r}
       /\ UNCHANGED retries
  ELSE /\ UNCHANGED is_subscribed
       /\ \/ /\ Cardinality(reqs) < MaxInFlight
             /\ retries[t] < MaxRetries
             /\ reqs' = (reqs \ {r}) \cup {SubReq(t, ~is_subscribed[t])}
             /\ retries' = [retries EXCEPT ![t] = @ + 1]
          \/ /\ reqs' = reqs \ {r}
             /\ UNCHANGED retries

-----------------------------------------------------------------------------
(* The network core's main loop, lwIP and the broker.                     *)

Init ==
  /\ is_connected = FALSE
  /\ is_subscribed = [t \in Topics |-> FALSE]
  /\ heap = {}
  /\ started = FALSE
  /\ conn = "Disconnected"
  /\ reqs = {}
  /\ brokerSubs = {}
  /\ nextMsg = 0
  /\ closes = 0
  /\ round = 0
  /\ retries = [t \in Topics |-> 0]

\* mqtt_sta_mode, once tls_mqtt_init has succeeded: the first
\* tls_mqtt_connect; its result is not looked at.
StartClient ==
  /\ ~started
  /\ started' = TRUE
  /\ TlsMqttConnect(conn)
  /\ UNCHANGED <<is_connected, is_subscribed, heap, reqs, brokerSubs, nextMsg,
                 closes, round, retries>>

\* The broker accepts the CONNECT: lwIP is Connected and calls the
\* connection callback, which subscribes.
ConnAccepted ==
  /\ conn = "Connecting"
  /\ conn' = "Connected"
  /\ ConnectionCb("ACCEPTED", conn)
  /\ SubUnsubTopics(TRUE)
  /\ UNCHANGED <<is_subscribed, heap, started, brokerSubs, nextMsg, closes,
                 round>>

\* mqtt_close: the connection ends (TCP error or close, keep-alive or
\* connect timeout, or a refused CONNACK while Connecting).  lwIP drops its
\* pending requests, calling the publish ones back first if CloseCallsBack,
\* the broker forgets the session, and the connection callback runs with
\* lwIP Disconnected.
Close(status) ==
  /\ conn # "Disconnected"
  /\ status = "REFUSED" => conn = "Connecting"
  /\ closes < MaxCloses
  /\ closes' = closes + 1
  /\ heap' = IF CloseCallsBack THEN heap \ Pending ELSE heap
  /\ reqs' = {}
  /\ brokerSubs' = {}
  /\ ConnectionCb(status, "Disconnected")
  /\ UNCHANGED <<is_subscribed, started, nextMsg, round, retries>>

\* A pending publish ends (PUBACK, or its timeout): lwIP calls it back.
PubDone(m) ==
  /\ PubReq(m) \in reqs
  /\ PubRequestCb(m)
  /\ reqs' = reqs \ {PubReq(m)}
  /\ UNCHANGED <<is_connected, is_subscribed, started, conn, brokerSubs,
                 nextMsg, closes, round, retries>>

\* A pending sub/unsub ends: SUBACK/UNSUBACK (ok), or a refused SUBACK or
\* its timeout; the broker's subscriptions change only on success.
SubDone(r, ok) ==
  /\ r \in reqs
  /\ r.kind \in {"sub", "unsub"}
  /\ brokerSubs' = IF ~ok THEN brokerSubs
                   ELSE IF r.kind = "sub" THEN brokerSubs \cup {r.topic}
                   ELSE brokerSubs \ {r.topic}
  /\ SubscribeRequestCb(r, ok)
  /\ UNCHANGED <<is_connected, heap, started, conn, nextMsg, closes,
                 round>>

\* The main loop's publish timer expires while is_connected:
\* publish_topic_data starts.
StartRound ==
  /\ started
  /\ round = 0
  /\ is_connected
  /\ round' = 1
  /\ UNCHANGED <<is_connected, is_subscribed, heap, started, conn, reqs,
                 brokerSubs, nextMsg, closes, retries>>

\* One tls_mqtt_publish call of publish_topic_data.
Publish(i) ==
  /\ TlsMqttPublish(i)
  /\ UNCHANGED <<is_connected, is_subscribed, started, conn, brokerSubs,
                 closes, retries>>

Next ==
  \/ StartClient
  \/ ConnAccepted
  \/ \E s \in {"DISCONNECTED", "TIMEOUT", "REFUSED"} : Close(s)
  \/ \E m \in MsgIds : PubDone(m)
  \/ \E r \in reqs, ok \in BOOLEAN : SubDone(r, ok)
  \/ StartRound
  \/ \E i \in 1..NPub : Publish(i)

Spec == Init /\ [][Next]_vars

-----------------------------------------------------------------------------
(* Properties.                                                            *)

TypeOK ==
  /\ is_connected \in BOOLEAN
  /\ is_subscribed \in [Topics -> BOOLEAN]
  /\ heap \subseteq 1..nextMsg
  /\ started \in BOOLEAN
  /\ conn \in {"Disconnected", "Connecting", "Connected"}
  /\ reqs \subseteq Request
  /\ Cardinality(reqs) <= MaxInFlight
  /\ brokerSubs \subseteq Topics
  /\ nextMsg \in 0..MaxPubs
  /\ closes \in 0..MaxCloses
  /\ round \in 0..NPub
  /\ retries \in [Topics -> 0..MaxRetries]

\* The main loop publishes only while connected: is_connected, which
\* mqtt_sta_mode and tls_mqtt_publish read, is set only while lwIP holds an
\* accepted connection, through every close and reconnect.
ConnectedFlagSound == is_connected => conn = "Connected"

\* No use after free: every message lwIP will pass to
\* tls_mqtt_pub_request_cb is still allocated, so the callback's
\* clean_message never frees a block twice or reads a freed one.
NoUseAfterFree == Pending \subseteq heap

\* The flip in tls_mqtt_subscribe_request_cb is right: a pending subscribe
\* is for a topic whose flag is clear and a pending unsubscribe for one whose
\* flag is set, so a success sets the flag to what the broker now has and a
\* retry re-issues the same request.
SubRequestMatchesFlag ==
  \A r \in reqs : r.kind # "pub" => ((r.kind = "sub") = ~is_subscribed[r.topic])

\* Spec (PendingPublish): every message tls_mqtt_publish allocates is
\* released by its completion callback, so while allocated it is pending.
PublishNoLeak == heap \subseteq Pending

\* Spec (connection callback, Accepted): on every accepted connection the
\* node subscribes to all actuator topics, so a set is_subscribed flag is
\* true of the broker's session.
SubscribedFlagTruthful ==
  conn = "Connected" => \A t \in Topics : is_subscribed[t] => t \in brokerSubs

=============================================================================
