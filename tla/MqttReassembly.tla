--------------------------- MODULE MqttReassembly ---------------------------
(***************************************************************************)
(* Reassembly of incoming broker messages by the MQTT client engine        *)
(* (src/tls_mqtt_client.c).  The lwIP MQTT client announces a message with *)
(* tls_mqtt_incoming_publish_cb(topic, tot_len) and then hands its payload *)
(* to tls_mqtt_incoming_data_cb(data, len, flags) in one or more chunks,   *)
(* flagging the last one.  The engine keeps one TopicState per control     *)
(* topic: a fixed buffer, the number of bytes already in it and the number *)
(* still expected.  A complete message is passed to the command handler    *)
(* (pass_incom_data).  The connection may be lost in the middle of a       *)
(* message; the connection callback then reconnects (tls_mqtt_connect),    *)
(* which resets err_state.                                                 *)
(*                                                                         *)
(* Payload bytes are abstracted to their count: a property about the       *)
(* buffer only needs where a write starts and ends.                        *)
(***************************************************************************)
EXTENDS Naturals, Sequences

CONSTANTS
  Topics,    \* control topics that have a session (topics_sessions[])
  Unknown,   \* topic names that match no session
  NoTopic,   \* TLS_MQTT_NUMBER_OF_TOPICS: no session is receiving data
  BufSize,   \* sizeof(TopicState.topic_buffer)
  MaxLen,    \* largest payload length the broker sends
  MaxMsgs    \* bound: number of messages the broker starts

ASSUME ConstAssumption ==
  /\ Topics \cap Unknown = {}
  /\ NoTopic \notin Topics \cup Unknown
  /\ BufSize \in Nat \ {0}
  /\ MaxLen \in Nat
  /\ MaxMsgs \in Nat

VARIABLES
  topic_incom_data,    \* MQTT_CLIENT_T.topic_incom_data
  err_state,           \* MQTT_CLIENT_T.err_state (the values reassembly uses)
  topic_buffer_length, \* TopicState.topic_buffer_length, per topic
  data_in,             \* TopicState.data_in, per topic
  memory_fault,        \* a write outside a topic buffer, or through an
                       \* uninitialised session pointer, has happened
  handled,             \* calls of pass_incom_data: <<[topic, len]>>
  inMsg,               \* lwIP: the message being delivered, or NoMsg
  delivered,           \* lwIP: messages whose last chunk was delivered
  sent                 \* lwIP: messages started so far

engine == <<topic_incom_data, err_state, topic_buffer_length, data_in,
            memory_fault, handled>>
env == <<inMsg, delivered, sent>>
vars == <<engine, env>>

AllTopics == Topics \cup Unknown
Errors == {"OK", "UNDEFINED", "EXCEEDED"}
Msg == [topic : AllTopics, len : 0..MaxLen]
InFlight == [topic : AllTopics, len : 0..MaxLen, rem : 0..MaxLen]
NoMsg == [topic |-> NoTopic, len |-> 0, rem |-> 0]

\* The largest payload a session accepts: one byte is kept for the terminator.
Capacity == BufSize - 1

-----------------------------------------------------------------------------
(* Plausible bugs of the publish callback, used to show that the          *)
(* properties below can fail: the length check without the byte kept for *)
(* the terminator, a session not emptied when a new message starts, and   *)
(* an unmatched topic that does not set TOPIC_ERR_MQTT_UNDEFINED.         *)

IncomingPublishNoTerminatorByte(topic, tot_len) ==
  IF topic \in Topics
  THEN /\ topic_incom_data' = topic
       /\ topic_buffer_length' = [topic_buffer_length EXCEPT ![topic] = 0]
       /\ IF tot_len > BufSize
          THEN /\ data_in' = [data_in EXCEPT ![topic] = 0]
               /\ err_state' = "EXCEEDED"
          ELSE /\ data_in' = [data_in EXCEPT ![topic] = tot_len]
               /\ err_state' = "OK"
  ELSE /\ topic_incom_data' = NoTopic
       /\ err_state' = "UNDEFINED"
       /\ UNCHANGED <<topic_buffer_length, data_in>>

IncomingPublishNoReset(topic, tot_len) ==
  IF topic \in Topics
  THEN /\ topic_incom_data' = topic
       /\ UNCHANGED topic_buffer_length
       /\ IF tot_len > Capacity
          THEN /\ data_in' = [data_in EXCEPT ![topic] = 0]
               /\ err_state' = "EXCEEDED"
          ELSE /\ data_in' = [data_in EXCEPT ![topic] = tot_len]
               /\ err_state' = "OK"
  ELSE /\ topic_incom_data' = NoTopic
       /\ err_state' = "UNDEFINED"
       /\ UNCHANGED <<topic_buffer_length, data_in>>

IncomingPublishKeepError(topic, tot_len) ==
  IF topic \in Topics
  THEN /\ topic_incom_data' = topic
       /\ topic_buffer_length' = [topic_buffer_length EXCEPT ![topic] = 0]
       /\ IF tot_len > Capacity
          THEN /\ data_in' = [data_in EXCEPT ![topic] = 0]
               /\ err_state' = "EXCEEDED"
          ELSE /\ data_in' = [data_in EXCEPT ![topic] = tot_len]
               /\ err_state' = "OK"
  ELSE /\ topic_incom_data' = NoTopic
       /\ UNCHANGED <<err_state, topic_buffer_length, data_in>>

-----------------------------------------------------------------------------
(* Engine: the two inpub callbacks.                                       *)

\* tls_mqtt_incoming_publish_cb: match the topic against the sessions; on a
\* match drop any unfinished message of that session and accept the new one
\* if it fits.
IncomingPublish(topic, tot_len) ==
  IF topic \in Topics
  THEN /\ topic_incom_data' = topic
       /\ topic_buffer_length' = [topic_buffer_length EXCEPT ![topic] = 0]
       /\ IF tot_len > Capacity
          THEN /\ data_in' = [data_in EXCEPT ![topic] = 0]
               /\ err_state' = "EXCEEDED"
          ELSE /\ data_in' = [data_in EXCEPT ![topic] = tot_len]
               /\ err_state' = "OK"
  ELSE /\ topic_incom_data' = NoTopic
       /\ err_state' = "UNDEFINED"
       /\ UNCHANGED <<topic_buffer_length, data_in>>

\* tls_mqtt_incoming_data_cb: append a chunk to the receiving session; when no
\* byte is left to come, pass the message on if the chunk was the last one,
\* and empty the buffer.  With err_state OK and no receiving session the
\* callback dereferences an uninitialised pointer.
IncomingData(len, last) ==
  LET t   == topic_incom_data
      end == topic_buffer_length[t] + len
  IN  IF err_state # "OK"
      THEN UNCHANGED <<data_in, topic_buffer_length, memory_fault, handled>>
      ELSE IF t = NoTopic
      THEN /\ memory_fault' = TRUE
           /\ UNCHANGED <<data_in, topic_buffer_length, handled>>
      ELSE IF data_in[t] > 0
      THEN /\ data_in' = [data_in EXCEPT ![t] = @ - len]
           /\ memory_fault' = (memory_fault \/ end > Capacity)
           /\ IF data_in[t] = len
              THEN /\ topic_buffer_length' = [topic_buffer_length EXCEPT ![t] = 0]
                   /\ handled' = IF last
                                 THEN Append(handled, [topic |-> t, len |-> end])
                                 ELSE handled
              ELSE /\ topic_buffer_length' = [topic_buffer_length EXCEPT ![t] = end]
                   /\ UNCHANGED handled
      ELSE UNCHANGED <<data_in, topic_buffer_length, memory_fault, handled>>

-----------------------------------------------------------------------------
(* lwIP delivery of one message, and loss of the connection.              *)

Init ==
  /\ topic_incom_data = NoTopic
  /\ err_state = "OK"
  /\ topic_buffer_length = [t \in Topics |-> 0]
  /\ data_in = [t \in Topics |-> 0]
  /\ memory_fault = FALSE
  /\ handled = <<>>
  /\ inMsg = NoMsg
  /\ delivered = <<>>
  /\ sent = 0

\* A PUBLISH arrives: lwIP calls the publish callback with its total length.
Header ==
  /\ inMsg = NoMsg
  /\ sent < MaxMsgs
  /\ \E topic \in AllTopics, tot_len \in 0..MaxLen :
       /\ inMsg' = [topic |-> topic, len |-> tot_len, rem |-> tot_len]
       /\ IncomingPublish(topic, tot_len)
  /\ sent' = sent + 1
  /\ UNCHANGED <<memory_fault, handled, delivered>>

\* lwIP passes the next chunk; the last one carries MQTT_DATA_FLAG_LAST.  An
\* empty payload is passed as one empty chunk with the flag.
Chunk ==
  /\ inMsg # NoMsg
  /\ \E len \in IF inMsg.rem = 0 THEN {0} ELSE 1..inMsg.rem :
       LET last == len = inMsg.rem IN
       /\ inMsg' = IF last THEN NoMsg
                  ELSE [topic |-> inMsg.topic, len |-> inMsg.len, rem |-> inMsg.rem - len]
       /\ delivered' = IF last
                       THEN Append(delivered, [topic |-> inMsg.topic, len |-> inMsg.len])
                       ELSE delivered
       /\ IncomingData(len, last)
  /\ UNCHANGED <<topic_incom_data, err_state, sent>>

\* The connection closes (mqtt_close, any point of a message); the
\* connection callback calls tls_mqtt_connect, which resets err_state when
\* mqtt_client_connect is accepted and leaves it when it fails.
ConnectionLost ==
  /\ inMsg' = NoMsg
  /\ err_state' \in {"OK", err_state}
  /\ UNCHANGED <<topic_incom_data, topic_buffer_length, data_in,
                 memory_fault, handled, delivered, sent>>

Next == Header \/ Chunk \/ ConnectionLost

Spec == Init /\ [][Next]_vars

-----------------------------------------------------------------------------
(* Properties.                                                            *)

TypeOK ==
  /\ topic_incom_data \in Topics \cup {NoTopic}
  /\ err_state \in Errors
  /\ topic_buffer_length \in [Topics -> 0..Capacity]
  /\ data_in \in [Topics -> 0..MaxLen]
  /\ memory_fault \in BOOLEAN
  /\ handled \in Seq([topic : Topics, len : 0..Capacity])
  /\ inMsg \in InFlight \cup {NoMsg}
  /\ delivered \in Seq(Msg)
  /\ sent \in 0..MaxMsgs

\* Memory safety of the data callback: whatever the broker sends, in chunks
\* split however lwIP splits them and with the connection lost at any point,
\* tls_mqtt_incoming_data_cb never writes past a topic buffer (the memcpy and
\* the terminator) and never uses the session of an unmatched topic.
NoMemoryFault == ~memory_fault

\* When the command handler is called, it is called for the message lwIP has
\* just completed: same topic and the message's full length, not bytes left
\* in the session by a message cut off earlier.
HandlerGetsWholeMessage ==
  [][Len(handled') # Len(handled) =>
       /\ Len(delivered') # Len(delivered)
       /\ handled'[Len(handled')] = delivered'[Len(delivered')]]_vars

\* The messages the command handler receives (spec section 6: any message on
\* a control topic toggles its actuator): exactly the completed messages on
\* a control topic that fit the buffer, in order.
Accepted(m) == m.topic \in Topics /\ m.len <= Capacity
EveryCommandDelivered == handled = SelectSeq(delivered, Accepted)

=============================================================================
