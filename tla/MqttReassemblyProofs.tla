------------------------ MODULE MqttReassemblyProofs ------------------------
(***************************************************************************)
(* Proofs about MqttReassembly for every value of the constants: the data  *)
(* callback never writes outside a topic buffer, the state keeps its      *)
(* types, and the command handler is only called with a whole message.    *)
(*                                                                         *)
(* NoMemoryFault is not inductive by itself: a chunk is safe only because  *)
(* the session it lands in still has room for everything lwIP has left to *)
(* deliver.  The strengthening Room says so: while a message is being      *)
(* delivered and err_state is OK, the receiving session is the message's   *)
(* topic, it expects exactly the bytes lwIP has still to send, and those   *)
(* bytes fit behind the ones already buffered.                             *)
(***************************************************************************)
EXTENDS MqttReassembly, SequenceTheorems, TLAPS

Room ==
  (inMsg # NoMsg /\ err_state = "OK") =>
     /\ topic_incom_data \in Topics
     /\ inMsg.topic = topic_incom_data
     /\ data_in[topic_incom_data] = inMsg.rem
     /\ topic_buffer_length[topic_incom_data] + inMsg.rem <= Capacity

IInv == TypeOK /\ NoMemoryFault /\ Room

-----------------------------------------------------------------------------
\* The message lwIP is delivering is a record of InFlight unless it is NoMsg.
LEMMA NoMsgNotInFlight == NoMsg \notin InFlight
  BY ConstAssumption DEF NoMsg, InFlight, AllTopics

\* The initial state satisfies the inductive invariant.
LEMMA InitIInv == Init => IInv
  <1> SUFFICES ASSUME Init PROVE IInv
    OBVIOUS
  <1>1. TypeOK
    <2>1. NoMsg \in InFlight \cup {NoMsg}
      OBVIOUS
    <2>2. <<>> \in Seq([topic : Topics, len : 0..Capacity]) /\ <<>> \in Seq(Msg)
      OBVIOUS
    <2>3. 0 \in 0..Capacity /\ 0 \in 0..MaxLen /\ 0 \in 0..MaxMsgs
      BY ConstAssumption DEF Capacity
    <2>4. /\ topic_buffer_length \in [Topics -> 0..Capacity]
          /\ data_in \in [Topics -> 0..MaxLen]
      BY <2>3 DEF Init
    <2>5. QED
      BY <2>1, <2>2, <2>3, <2>4, ConstAssumption DEF Init, TypeOK, Errors
  <1>2. NoMemoryFault /\ Room
    BY DEF Init, NoMemoryFault, Room
  <1>3. QED
    BY <1>1, <1>2 DEF IInv

\* A new message: the publish callback either gives the receiving session a
\* fresh buffer with room for the whole payload, or sets an error so that the
\* data callback ignores the payload.
LEMMA HeaderIInv == IInv /\ Header => IInv'
  <1> SUFFICES ASSUME IInv, Header PROVE IInv'
    OBVIOUS
  <1> USE ConstAssumption DEF IInv, TypeOK, NoMemoryFault
  <1>1. PICK topic \in AllTopics, tot_len \in 0..MaxLen :
               /\ inMsg' = [topic |-> topic, len |-> tot_len, rem |-> tot_len]
               /\ IncomingPublish(topic, tot_len)
    BY DEF Header
  <1>2. /\ inMsg' \in InFlight \cup {NoMsg}
        /\ inMsg' # NoMsg
        /\ inMsg'.topic = topic /\ inMsg'.rem = tot_len
    BY <1>1 DEF InFlight, NoMsg, AllTopics
  <1>3. /\ memory_fault' = memory_fault
        /\ handled' = handled
        /\ delivered' = delivered
        /\ sent' \in 0..MaxMsgs
    BY DEF Header
  <1>4. CASE topic \in Topics /\ tot_len > Capacity
    <2>1. /\ topic_incom_data' = topic
          /\ topic_buffer_length' = [topic_buffer_length EXCEPT ![topic] = 0]
          /\ data_in' = [data_in EXCEPT ![topic] = 0]
          /\ err_state' = "EXCEEDED"
      BY <1>1, <1>4 DEF IncomingPublish
    <2>2. TypeOK'
      BY <1>2, <1>3, <1>4, <2>1 DEF Errors, Capacity
    <2>3. Room'
      BY <2>1 DEF Room
    <2>4. QED
      BY <1>3, <2>2, <2>3
  <1>5. CASE topic \in Topics /\ ~(tot_len > Capacity)
    <2>1. /\ topic_incom_data' = topic
          /\ topic_buffer_length' = [topic_buffer_length EXCEPT ![topic] = 0]
          /\ data_in' = [data_in EXCEPT ![topic] = tot_len]
          /\ err_state' = "OK"
      BY <1>1, <1>5 DEF IncomingPublish
    <2>2. TypeOK'
      BY <1>2, <1>3, <1>5, <2>1 DEF Errors, Capacity
    <2>3. Room'
      BY <1>2, <1>5, <2>1 DEF Room, Capacity
    <2>4. QED
      BY <1>3, <2>2, <2>3
  <1>6. CASE topic \notin Topics
    <2>1. /\ topic_incom_data' = NoTopic
          /\ err_state' = "UNDEFINED"
          /\ topic_buffer_length' = topic_buffer_length
          /\ data_in' = data_in
      BY <1>1, <1>6 DEF IncomingPublish
    <2>2. TypeOK'
      BY <1>2, <1>3, <2>1 DEF Errors
    <2>3. Room'
      BY <2>1 DEF Room
    <2>4. QED
      BY <1>3, <2>2, <2>3
  <1>7. QED
    BY <1>4, <1>5, <1>6

\* A lost connection ends the message in delivery; err_state may become OK,
\* but Room only speaks of a message in delivery.
LEMMA ConnectionLostIInv == IInv /\ ConnectionLost => IInv'
  BY DEF ConnectionLost, IInv, TypeOK, NoMemoryFault, Room, Errors, InFlight

\* A chunk: by Room it fits behind the bytes already buffered, and the
\* session's count of expected bytes moves in step with lwIP's.
LEMMA ChunkIInv == IInv /\ Chunk => IInv'
  <1> SUFFICES ASSUME IInv, Chunk PROVE IInv'
    OBVIOUS
  <1> USE ConstAssumption DEF IInv, TypeOK, NoMemoryFault
  <1> DEFINE t == topic_incom_data
  <1>1. inMsg \in InFlight /\ inMsg # NoMsg
    BY DEF Chunk
  <1>2. PICK len \in IF inMsg.rem = 0 THEN {0} ELSE 1..inMsg.rem :
          /\ inMsg' = IF len = inMsg.rem THEN NoMsg
                                         ELSE [topic |-> inMsg.topic, len |-> inMsg.len, rem |-> inMsg.rem - len]
          /\ delivered' = IF len = inMsg.rem
                          THEN Append(delivered, [topic |-> inMsg.topic,
                                                  len |-> inMsg.len])
                          ELSE delivered
          /\ IncomingData(len, len = inMsg.rem)
    BY DEF Chunk
  <1>3. len \in 0..inMsg.rem /\ (inMsg.rem = 0 => len = 0)
    BY <1>1, <1>2 DEF InFlight
  <1>4. /\ topic_incom_data' = topic_incom_data
        /\ err_state' = err_state
        /\ sent' = sent
    BY DEF Chunk
  <1>5. /\ inMsg' \in InFlight \cup {NoMsg}
        /\ delivered' \in Seq(Msg)
    <2>1. [topic |-> inMsg.topic, len |-> inMsg.len] \in Msg
      BY <1>1 DEF InFlight, Msg
    <2>2. len # inMsg.rem => [topic |-> inMsg.topic, len |-> inMsg.len, rem |-> inMsg.rem - len] \in InFlight
      <3>1. inMsg.rem - len \in 0..MaxLen
        BY <1>1, <1>3 DEF InFlight
      <3>2. QED
        BY <1>1, <3>1 DEF InFlight
    <2>3. QED
      BY <1>2, <2>1, <2>2
  <1>6. CASE err_state = "OK" /\ t = NoTopic
    BY <1>1, <1>6 DEF Room
  <1>7. CASE err_state = "OK" /\ t # NoTopic /\ data_in[t] > 0
    <2>1. /\ t \in Topics
          /\ data_in[t] = inMsg.rem
          /\ topic_buffer_length[t] + inMsg.rem <= Capacity
          /\ inMsg.topic = t
      BY <1>1, <1>7 DEF Room
    <2> DEFINE end == topic_buffer_length[t] + len
    <2>2. len \in 1..inMsg.rem /\ end \in 0..Capacity
      BY <1>1, <1>3, <1>7, <2>1 DEF InFlight, Capacity
    <2>3. /\ data_in' = [data_in EXCEPT ![t] = @ - len]
          /\ memory_fault' = (memory_fault \/ end > Capacity)
          /\ IF data_in[t] = len
             THEN /\ topic_buffer_length' = [topic_buffer_length EXCEPT ![t] = 0]
                  /\ handled' = IF len = inMsg.rem
                                THEN Append(handled, [topic |-> t, len |-> end])
                                ELSE handled
             ELSE /\ topic_buffer_length' = [topic_buffer_length EXCEPT ![t] = end]
                  /\ handled' = handled
      <3>1. IncomingData(len, len = inMsg.rem)
        BY <1>2
      <3>2. ~(err_state = "OK" /\ t = NoTopic)
        BY <1>7
      <3>3. err_state = "OK" /\ data_in[t] > 0
        BY <1>7
      <3>4. QED
        BY <3>1, <3>2, <3>3 DEF IncomingData
    <2>4. memory_fault' = FALSE
      <3>1. ~(end > Capacity)
        BY <2>2 DEF Capacity
      <3>2. ~memory_fault
        OBVIOUS
      <3>3. QED
        BY <2>3, <3>1, <3>2, Zenon
    <2>5. data_in' \in [Topics -> 0..MaxLen]
      BY <1>1, <2>1, <2>2, <2>3 DEF InFlight
    <2>6. CASE len = inMsg.rem
      <3>1. /\ topic_buffer_length' = [topic_buffer_length EXCEPT ![t] = 0]
            /\ handled' = Append(handled, [topic |-> t, len |-> end])
            /\ inMsg' = NoMsg
        BY <1>2, <2>1, <2>3, <2>6
      <3>2. [topic |-> t, len |-> end] \in [topic : Topics, len : 0..Capacity]
        BY <2>1, <2>2
      <3>3. handled' \in Seq([topic : Topics, len : 0..Capacity])
        BY <3>1, <3>2, AppendProperties
      <3>4. topic_buffer_length' \in [Topics -> 0..Capacity]
        BY <2>1, <3>1 DEF Capacity
      <3>5. TypeOK'
        BY <1>4, <1>5, <2>5, <3>3, <3>4, <2>4
      <3>6. QED
        BY <2>4, <3>1, <3>5 DEF Room
    <2>7. CASE len # inMsg.rem
      <3>1. /\ topic_buffer_length' = [topic_buffer_length EXCEPT ![t] = end]
            /\ handled' = handled
            /\ inMsg' = [topic |-> inMsg.topic, len |-> inMsg.len, rem |-> inMsg.rem - len]
        BY <1>2, <2>1, <2>3, <2>7
      <3>2. TypeOK'
        BY <1>4, <1>5, <2>1, <2>2, <2>5, <3>1, <2>4
      <3>3. Room'
        BY <1>1, <1>4, <2>1, <2>2, <2>3, <3>1 DEF Room, InFlight, NoMsg
      <3>4. QED
        BY <2>4, <3>2, <3>3
    <2>8. QED
      BY <2>6, <2>7
  <1>8. CASE ~(err_state = "OK" /\ t = NoTopic)
             /\ ~(err_state = "OK" /\ t # NoTopic /\ data_in[t] > 0)
    <2>1. /\ data_in' = data_in
          /\ topic_buffer_length' = topic_buffer_length
          /\ memory_fault' = memory_fault
          /\ handled' = handled
      BY <1>2, <1>8 DEF IncomingData
    <2>2. err_state = "OK" => inMsg' = NoMsg
      BY <1>1, <1>2, <1>3, <1>8 DEF Room, InFlight
    <2>3. QED
      BY <1>4, <1>5, <2>1, <2>2 DEF Room
  <1>9. QED
    BY <1>6, <1>7, <1>8

\* A stuttering step leaves every variable, hence IInv, unchanged.
LEMMA StutterIInv == IInv /\ UNCHANGED vars => IInv'
  BY DEF IInv, TypeOK, NoMemoryFault, Room, vars, engine, env

\* IInv is inductive: every step of Next, and every stutter, preserves it.
LEMMA NextIInv == IInv /\ [Next]_vars => IInv'
  BY HeaderIInv, ChunkIInv, ConnectionLostIInv, StutterIInv DEF Next

\* Memory safety of tls_mqtt_incoming_data_cb, for every buffer size, every
\* payload length and every split of a payload into chunks: the callback
\* never writes outside a topic buffer and never uses an unmatched session.
THEOREM MemorySafety == Spec => []NoMemoryFault
  <1>1. IInv => NoMemoryFault
    BY DEF IInv
  <1>2. QED
    BY InitIInv, NextIInv, <1>1, PTL DEF Spec

\* The reassembly state keeps its types: in particular the buffered length
\* of every session stays within the buffer's capacity.
THEOREM TypeCorrect == Spec => []TypeOK
  <1>1. IInv => TypeOK
    BY DEF IInv
  <1>2. QED
    BY InitIInv, NextIInv, <1>1, PTL DEF Spec

-----------------------------------------------------------------------------
(* The command handler gets whole messages.  Room says where the bytes of  *)
(* a message go; Filled says how many are already there: while a message   *)
(* is accepted and in delivery, the session's buffer holds exactly the     *)
(* bytes lwIP has delivered of it.  So when the last chunk completes the   *)
(* session, the length passed to the handler is the message's length.      *)

Filled ==
  (inMsg # NoMsg /\ err_state = "OK") =>
     topic_buffer_length[topic_incom_data] + inMsg.rem = inMsg.len

\* The action HandlerGetsWholeMessage asks every step to satisfy.
HandlerStep ==
  Len(handled') # Len(handled) =>
     /\ Len(delivered') # Len(delivered)
     /\ handled'[Len(handled')] = delivered'[Len(delivered')]

LEMMA InitFilled == Init => Filled
  BY DEF Init, Filled

\* A header starts an accepted message with an empty buffer, or sets an
\* error.
LEMMA HeaderFilled == IInv /\ Header => Filled' /\ HandlerStep
  <1> SUFFICES ASSUME IInv, Header PROVE Filled' /\ HandlerStep
    OBVIOUS
  <1>1. PICK topic \in AllTopics, tot_len \in 0..MaxLen :
               /\ inMsg' = [topic |-> topic, len |-> tot_len, rem |-> tot_len]
               /\ IncomingPublish(topic, tot_len)
    BY DEF Header
  <1>2. handled' = handled
    BY DEF Header
  <1>3. CASE topic \in Topics /\ ~(tot_len > Capacity)
    <2>1. /\ topic_incom_data' = topic
          /\ topic_buffer_length' = [topic_buffer_length EXCEPT ![topic] = 0]
          /\ err_state' = "OK"
      BY <1>1, <1>3 DEF IncomingPublish
    <2>2. topic_buffer_length'[topic] = 0
      BY <1>3, <2>1 DEF IInv, TypeOK
    <2> QED
      BY <1>1, <1>2, <2>1, <2>2 DEF Filled, HandlerStep
  <1>4. CASE ~(topic \in Topics /\ ~(tot_len > Capacity))
    <2>1. err_state' # "OK"
      BY <1>1, <1>4 DEF IncomingPublish
    <2> QED
      BY <1>2, <2>1 DEF Filled, HandlerStep
  <1> QED
    BY <1>3, <1>4

\* A lost connection ends the message in delivery and calls no handler.
LEMMA ConnectionLostFilled == ConnectionLost => Filled' /\ HandlerStep
  BY DEF ConnectionLost, Filled, HandlerStep

\* A chunk either completes the message (lwIP forgets it, and the handler,
\* if called, gets the message lwIP completes) or adds its bytes to the
\* buffer and removes them from what lwIP has still to send.
LEMMA ChunkFilled == IInv /\ Filled /\ Chunk => Filled' /\ HandlerStep
  <1> SUFFICES ASSUME IInv, Filled, Chunk PROVE Filled' /\ HandlerStep
    OBVIOUS
  <1> USE ConstAssumption DEF IInv, TypeOK
  <1> DEFINE t == topic_incom_data
  <1>1. inMsg \in InFlight /\ inMsg # NoMsg
    BY DEF Chunk
  <1>2. PICK len \in IF inMsg.rem = 0 THEN {0} ELSE 1..inMsg.rem :
          /\ inMsg' = IF len = inMsg.rem THEN NoMsg
                                         ELSE [topic |-> inMsg.topic, len |-> inMsg.len, rem |-> inMsg.rem - len]
          /\ delivered' = IF len = inMsg.rem
                          THEN Append(delivered, [topic |-> inMsg.topic,
                                                  len |-> inMsg.len])
                          ELSE delivered
          /\ IncomingData(len, len = inMsg.rem)
    BY DEF Chunk
  <1>3. len \in 0..inMsg.rem /\ (inMsg.rem = 0 => len = 0)
    BY <1>1, <1>2 DEF InFlight
  <1>4. topic_incom_data' = topic_incom_data /\ err_state' = err_state
    BY DEF Chunk
  <1>5. CASE err_state = "OK"
    <2>1. /\ t \in Topics
          /\ data_in[t] = inMsg.rem
          /\ inMsg.topic = t
          /\ topic_buffer_length[t] + inMsg.rem = inMsg.len
      BY <1>1, <1>5 DEF Room, Filled
    <2> DEFINE end == topic_buffer_length[t] + len
    <2>2. CASE data_in[t] > 0
      <3>1. /\ data_in[t] = len =>
                 handled' = IF len = inMsg.rem
                            THEN Append(handled, [topic |-> t, len |-> end])
                            ELSE handled
            /\ data_in[t] # len =>
                 /\ topic_buffer_length' = [topic_buffer_length EXCEPT ![t] = end]
                 /\ handled' = handled
        BY <1>2, <1>5, <2>1, <2>2 DEF IncomingData
      <3>2. CASE len = inMsg.rem
        <4>1. end = inMsg.len
          BY <1>1, <2>1, <3>2 DEF InFlight
        <4>2. /\ handled' = Append(handled, [topic |-> inMsg.topic, len |-> inMsg.len])
              /\ delivered' = Append(delivered, [topic |-> inMsg.topic, len |-> inMsg.len])
              /\ inMsg' = NoMsg
          BY <1>2, <2>1, <3>1, <3>2, <4>1
        <4> QED
          BY <4>2 DEF Filled, HandlerStep
      <3>3. CASE len # inMsg.rem
        <4>1. /\ topic_buffer_length'[t] = end
              /\ handled' = handled
              /\ inMsg' = [topic |-> inMsg.topic, len |-> inMsg.len, rem |-> inMsg.rem - len]
          BY <1>2, <2>1, <3>1, <3>3
        <4>2. end + (inMsg.rem - len) = inMsg.len
          BY <1>1, <1>3, <2>1 DEF InFlight
        <4> QED
          BY <1>4, <4>1, <4>2 DEF Filled, HandlerStep
      <3> QED
        BY <3>2, <3>3
    <2>3. CASE ~(data_in[t] > 0)
      <3>1. handled' = handled
        BY <1>2, <1>5, <2>1, <2>3 DEF IncomingData
      <3>2. inMsg' = NoMsg
        BY <1>1, <1>2, <1>3, <2>1, <2>3 DEF InFlight
      <3> QED
        BY <3>1, <3>2 DEF Filled, HandlerStep
    <2> QED
      BY <2>2, <2>3
  <1>6. CASE err_state # "OK"
    <2>1. handled' = handled
      BY <1>2, <1>6 DEF IncomingData
    <2> QED
      BY <1>4, <1>6, <2>1 DEF Filled, HandlerStep
  <1> QED
    BY <1>5, <1>6

\* The handler gets whole messages: for every buffer size and every split of
\* a payload into chunks, with the connection lost at any point, a call of
\* pass_incom_data is made for the message lwIP has just completed, with its
\* topic and its full length.
THEOREM WholeMessages == Spec => HandlerGetsWholeMessage
  <1>1. IInv /\ Filled /\ [Next]_vars => Filled' /\ [HandlerStep]_vars
    <2> SUFFICES ASSUME IInv, Filled, [Next]_vars PROVE Filled' /\ [HandlerStep]_vars
      OBVIOUS
    <2>1. CASE Header
      BY <2>1, HeaderFilled
    <2>2. CASE Chunk
      BY <2>2, ChunkFilled
    <2>3. CASE ConnectionLost
      BY <2>3, ConnectionLostFilled
    <2>4. CASE UNCHANGED vars
      BY <2>4 DEF vars, engine, env, Filled
    <2> QED
      BY <2>1, <2>2, <2>3, <2>4 DEF Next
  <1>2. QED
    BY InitIInv, NextIInv, InitFilled, <1>1, PTL
       DEF Spec, HandlerGetsWholeMessage, HandlerStep

=============================================================================
