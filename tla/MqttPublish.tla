---------------------------- MODULE MqttPublish ----------------------------
(***************************************************************************)
(* The QoS 1 publish path of the MQTT client: any number of application    *)
(* tasks call qcloud_iot_mqtt_publish while one task drives                *)
(* qcloud_iot_mqtt_yield, which reads PUBACKs, marks and removes nodes of  *)
(* list_pub_wait_ack and raises PUBLISH_SUCCESS and PUBLISH_TIMEOUT.       *)
(*                                                                         *)
(* One action is the code between two points where another task can        *)
(* observe or change shared state: taking or releasing lock_write_buf or   *)
(* lock_list_pub, an unlocked access, a call into the network or into the  *)
(* user's event handler.  lock_generic only ever encloses one assignment   *)
(* here, so it is part of the action that makes it.                        *)
(*                                                                         *)
(* The n-th call of get_next_packet_id numbers the publish n; a list node  *)
(* is known by the number of its publish, so a larger node is nearer to    *)
(* the tail of the list, and 0 is the null pointer.                        *)
(***************************************************************************)
EXTENDS Integers, FiniteSets

CONSTANTS
  Tasks,           \* application tasks that publish
  Free,            \* "nobody holds the lock"
  Yielder,         \* the task that calls qcloud_iot_mqtt_yield
  MAX_PACKET_ID,   \* 65535 in the code
  MAX_REPUB_NUM,   \* capacity of list_pub_wait_ack, 20 in the code
  MaxCalls,        \* bound: publishes that reach get_next_packet_id
  MaxDisconnects,  \* bound: connection losses
  SendMayOverrun   \* may the ACK timer of a node run out during its send?

ASSUME PublishAssumption ==
  /\ MAX_PACKET_ID \in Nat \ {0}
  /\ MAX_REPUB_NUM \in Nat \ {0}
  /\ MaxCalls \in 1..MAX_PACKET_ID
  /\ MaxDisconnects \in Nat
  /\ SendMayOverrun \in BOOLEAN
  /\ Free \notin Tasks \cup {Yielder}
  /\ Yielder \notin Tasks

VARIABLES
  is_connected,     \* Client.is_connected
  handle,           \* is network_stack.handle a live TLS session?
  next_packet_id,   \* Client.next_packet_id
  write_buf,        \* the packet in Client.write_buf, by publish and id
  lock_write_buf,   \* who holds Client.lock_write_buf
  lock_list_pub,    \* who holds Client.lock_list_pub between two actions
  list,             \* nodes of Client.list_pub_wait_ack
  msg_id,           \* packet id of a publish, 0 before it has one
  node_state,       \* QcloudIotPubInfo.node_state
  ack_expired,      \* has QcloudIotPubInfo.pub_start_time run out?
  calls,            \* publishes that have been numbered
  pc, call,         \* each task: where it is, the publish it is making
  ypc,              \* the yield task: where it is
  ack,              \* the PUBACK it is handling
  iter, temp_node, node,  \* locals of qcloud_iot_mqtt_pub_info_proc
  broker,           \* packets the broker has and has not answered
  pending,          \* the record a failed write has left inside TLS, if any
  disconnects,      \* connection losses so far
  sent,             \* history: publishes the broker received
  returned, failed, \* history: publishes whose call returned an id, an error
  success, timedout,\* history: ids of PUBLISH_SUCCESS, PUBLISH_TIMEOUT events
  fault             \* undefined behaviour met: "none", "freed_node", "no_handle"

connVars  == <<is_connected, handle, disconnects>>
listVars  == <<list, node_state, ack_expired>>
taskVars  == <<next_packet_id, calls, pc, call, msg_id, returned, failed>>
yieldVars == <<ypc, ack, iter, temp_node, node, success, timedout>>
netVars   == <<broker, pending, sent>>
vars == <<connVars, write_buf, lock_write_buf, lock_list_pub, listVars,
          taskVars, yieldVars, netVars, fault>>

NULL   == 0
Calls  == 1..MaxCalls
Ids    == 1..MAX_PACKET_ID
Packet == [call : 0..MaxCalls, id : 0..MAX_PACKET_ID]

\* Whatever else the client puts in write_buf: PINGREQ, CONNECT, DISCONNECT.
OtherPacket == [call |-> 0, id |-> 0]

TypeOK ==
  /\ is_connected \in BOOLEAN
  /\ handle \in BOOLEAN
  /\ disconnects \in 0..MaxDisconnects
  /\ next_packet_id \in 0..MAX_PACKET_ID
  /\ write_buf \in Packet
  /\ lock_write_buf \in Tasks \cup {Free}
  /\ lock_list_pub \in {Free, Yielder}
  /\ list \in SUBSET Calls
  /\ msg_id \in [Calls -> 0..MAX_PACKET_ID]
  /\ node_state \in [Calls -> {"NORMAL", "INVALID"}]
  /\ ack_expired \in [Calls -> BOOLEAN]
  /\ calls \in 0..MaxCalls
  /\ pc \in [Tasks -> {"idle", "lock", "id", "serialize", "push", "send",
                       "remove"}]
  /\ call \in [Tasks -> 0..MaxCalls]
  /\ ypc \in {"read", "success", "proc", "visit", "window", "keep_alive",
              "disconnect", "teardown", "set_state", "reconnect"}
  /\ ack \in Packet
  /\ iter \in 0..MaxCalls
  /\ temp_node \in 0..MaxCalls
  /\ node \in 0..MaxCalls
  /\ broker \in SUBSET Packet
  /\ pending \in SUBSET Packet
  /\ sent \in SUBSET Calls
  /\ returned \in SUBSET Calls
  /\ failed \in SUBSET Calls
  /\ success \in SUBSET (0..MAX_PACKET_ID)
  /\ timedout \in SUBSET (0..MAX_PACKET_ID)
  /\ fault \in {"none", "freed_node", "no_handle"}

\* IOT_MQTT_Construct has connected; the first packet id is random.
Init ==
  /\ is_connected = TRUE
  /\ handle = TRUE
  /\ disconnects = 0
  /\ next_packet_id \in 0..MAX_PACKET_ID
  /\ write_buf = OtherPacket
  /\ lock_write_buf = Free
  /\ lock_list_pub = Free
  /\ list = {}
  /\ msg_id = [n \in Calls |-> 0]
  /\ node_state = [n \in Calls |-> "NORMAL"]
  /\ ack_expired = [n \in Calls |-> FALSE]
  /\ calls = 0
  /\ pc = [p \in Tasks |-> "idle"]
  /\ call = [p \in Tasks |-> 0]
  /\ ypc = "read"
  /\ ack = OtherPacket
  /\ iter = NULL
  /\ temp_node = NULL
  /\ node = NULL
  /\ broker = {}
  /\ pending = {}
  /\ sent = {}
  /\ returned = {}
  /\ failed = {}
  /\ success = {}
  /\ timedout = {}
  /\ fault = "none"

-----------------------------------------------------------------------------
(***************************************************************************)
(* The TLS session (external: mbedtls_ssl_write).  A write that times out  *)
(* may leave its record half written; the next write first completes that  *)
(* record, and may then count its own packet as written without sending it.*)
(***************************************************************************)
Transmit(S) ==
  /\ broker' = broker \cup S
  /\ sent' = sent \cup {m.call : m \in S}

WriteOk(own) ==
  /\ pending' = {}
  /\ \/ Transmit(pending \cup own)
     \/ pending # {} /\ Transmit(pending)

WriteFail(own) ==
  /\ pending' \in {pending, IF pending = {} THEN own ELSE pending}
  /\ UNCHANGED <<broker, sent>>

-----------------------------------------------------------------------------
(***************************************************************************)
(* qcloud_iot_mqtt_publish, run by task p.                                 *)
(***************************************************************************)

Goto(p, from, to) ==
  /\ pc[p] = from
  /\ pc' = [pc EXCEPT ![p] = to]

\* Calls that have passed the connection check and have no number yet.
Unnumbered == {p \in Tasks : pc[p] \in {"lock", "id"}}

\* The connection check comes before lock_write_buf is taken; a client that
\* is not connected answers QCLOUD_ERR_MQTT_NO_CONN and nothing happens.
\* (MaxCalls bounds the model here, so that no started call is cut short.)
PubStart(p) ==
  /\ is_connected
  /\ calls + Cardinality(Unnumbered) < MaxCalls
  /\ Goto(p, "idle", "lock")
  /\ UNCHANGED <<next_packet_id, calls, call, msg_id, returned, failed>>
  /\ UNCHANGED <<connVars, write_buf, lock_write_buf, lock_list_pub,
                 listVars, yieldVars, netVars, fault>>

\* Mutant: lock_write_buf is taken without waiting for it.
PubLockNoWait(p) ==
  /\ Goto(p, "lock", "id")
  /\ lock_write_buf' = p
  /\ UNCHANGED <<next_packet_id, calls, call, msg_id, returned, failed>>
  /\ UNCHANGED <<connVars, write_buf, lock_list_pub, listVars, yieldVars,
                 netVars, fault>>

PubLock(p) ==
  /\ lock_write_buf = Free
  /\ Goto(p, "lock", "id")
  /\ lock_write_buf' = p
  /\ UNCHANGED <<next_packet_id, calls, call, msg_id, returned, failed>>
  /\ UNCHANGED <<connVars, write_buf, lock_list_pub, listVars, yieldVars,
                 netVars, fault>>

\* A QoS 0 publish takes no id and waits for no ACK: it serializes, sends
\* and returns while it holds lock_write_buf, and touches nothing else.
PubQos0(p) ==
  /\ lock_write_buf = Free
  /\ Goto(p, "lock", "idle")
  /\ write_buf' = OtherPacket
  /\ \/ handle /\ fault' = fault /\ (WriteOk({}) \/ WriteFail({}))
     \/ ~handle /\ fault' = "no_handle" /\ UNCHANGED netVars
  /\ UNCHANGED <<next_packet_id, calls, call, msg_id, returned, failed>>
  /\ UNCHANGED <<connVars, lock_write_buf, lock_list_pub, listVars, yieldVars>>

NextPacketId == IF next_packet_id = MAX_PACKET_ID THEN 1 ELSE next_packet_id + 1

\* get_next_packet_id under lock_generic ...
PubNextId(p) ==
  /\ calls < MaxCalls
  /\ Goto(p, "id", "serialize")
  /\ next_packet_id' = NextPacketId
  /\ calls' = calls + 1
  /\ call' = [call EXCEPT ![p] = calls + 1]
  /\ UNCHANGED <<msg_id, returned, failed>>
  /\ UNCHANGED <<connVars, write_buf, lock_write_buf, lock_list_pub, listVars,
                 yieldVars, netVars, fault>>

\* ... which returns the field after the unlock, then the packet is
\* serialized into write_buf.  A packet that does not fit is an error.
PubSerialize(p) ==
  /\ pc[p] = "serialize"
  /\ msg_id' = [msg_id EXCEPT ![call[p]] = next_packet_id]
  /\ \/ /\ Goto(p, "serialize", "push")
        /\ write_buf' = [call |-> call[p], id |-> next_packet_id]
        /\ UNCHANGED <<lock_write_buf, failed>>
     \/ /\ Goto(p, "serialize", "idle")
        /\ failed' = failed \cup {call[p]}
        /\ lock_write_buf' = Free
        /\ UNCHANGED write_buf
  /\ UNCHANGED <<next_packet_id, calls, call, returned>>
  /\ UNCHANGED <<connVars, lock_list_pub, listVars, yieldVars, netVars, fault>>

\* Mutant: a push that fails is tried again.
PubPushRetries(p) ==
  /\ lock_list_pub = Free
  /\ \/ /\ Cardinality(list) < MAX_REPUB_NUM
        /\ Goto(p, "push", "send")
        /\ list' = list \cup {call[p]}
        /\ node_state' = [node_state EXCEPT ![call[p]] = "NORMAL"]
        /\ ack_expired' = [ack_expired EXCEPT ![call[p]] = FALSE]
     \/ Goto(p, "push", "serialize") /\ UNCHANGED listVars
  /\ UNCHANGED <<next_packet_id, calls, call, msg_id, returned, failed>>
  /\ UNCHANGED <<connVars, write_buf, lock_write_buf, lock_list_pub, yieldVars,
                 netVars, fault>>

\* _mask_push_pubInfo_to: append a node unless the list is full or memory is
\* short, all under lock_list_pub; the ACK timer starts.
PubPush(p) ==
  /\ lock_list_pub = Free
  /\ \/ /\ Cardinality(list) < MAX_REPUB_NUM
        /\ Goto(p, "push", "send")
        /\ list' = list \cup {call[p]}
        /\ node_state' = [node_state EXCEPT ![call[p]] = "NORMAL"]
        /\ ack_expired' = [ack_expired EXCEPT ![call[p]] = FALSE]
        /\ UNCHANGED <<lock_write_buf, failed>>
     \/ /\ Goto(p, "push", "idle")
        /\ failed' = failed \cup {call[p]}
        /\ lock_write_buf' = Free
        /\ UNCHANGED listVars
  /\ UNCHANGED <<next_packet_id, calls, call, msg_id, returned>>
  /\ UNCHANGED <<connVars, write_buf, lock_list_pub, yieldVars, netVars, fault>>

\* send_mqtt_packet wrote the whole packet.
PubSendOk(p) ==
  /\ handle
  /\ Goto(p, "send", "idle")
  /\ WriteOk({write_buf})
  /\ returned' = returned \cup {call[p]}
  /\ lock_write_buf' = Free
  /\ UNCHANGED <<next_packet_id, calls, call, msg_id, failed>>
  /\ UNCHANGED <<connVars, write_buf, lock_list_pub, listVars, yieldVars, fault>>

\* The command timer, started before lock_write_buf was taken, has already
\* run out: the loop of send_mqtt_packet is not entered and rc is SUCCESS.
PubSendNothing(p) ==
  /\ Goto(p, "send", "idle")
  /\ returned' = returned \cup {call[p]}
  /\ lock_write_buf' = Free
  /\ UNCHANGED <<next_packet_id, calls, call, msg_id, failed>>
  /\ UNCHANGED <<connVars, write_buf, lock_list_pub, listVars, yieldVars,
                 netVars, fault>>

\* Mutant: lock_write_buf is released before the node is taken out.
PubSendFailUnlocks(p) ==
  /\ handle
  /\ Goto(p, "send", "remove")
  /\ WriteFail({write_buf})
  /\ lock_write_buf' = Free
  /\ UNCHANGED <<next_packet_id, calls, call, msg_id, returned, failed>>
  /\ UNCHANGED <<connVars, write_buf, lock_list_pub, listVars, yieldVars, fault>>

\* The write failed or timed out.
PubSendFail(p) ==
  /\ handle
  /\ Goto(p, "send", "remove")
  /\ WriteFail({write_buf})
  /\ UNCHANGED <<next_packet_id, calls, call, msg_id, returned, failed>>
  /\ UNCHANGED <<connVars, write_buf, lock_write_buf, lock_list_pub, listVars,
                 yieldVars, fault>>

\* HAL_TLS_Write dereferences the handle, which the yield task has released
\* since this task looked at is_connected.
PubSendNoHandle(p) ==
  /\ pc[p] = "send"
  /\ ~handle
  /\ fault' = "no_handle"
  /\ UNCHANGED <<connVars, write_buf, lock_write_buf, lock_list_pub, listVars,
                 taskVars, yieldVars, netVars>>

\* Mutant: the failed publish leaves its node in the list.
PubRemoveNothing(p) ==
  /\ Goto(p, "remove", "idle")
  /\ failed' = failed \cup {call[p]}
  /\ lock_write_buf' = Free
  /\ UNCHANGED <<next_packet_id, calls, call, msg_id, returned>>
  /\ UNCHANGED <<connVars, write_buf, lock_list_pub, listVars, yieldVars,
                 netVars, fault>>

\* After a failed send: list_remove(node) under lock_list_pub, then return rc.
PubRemove(p) ==
  /\ lock_list_pub = Free
  /\ Goto(p, "remove", "idle")
  /\ list' = list \ {call[p]}
  /\ fault' = IF call[p] \in list THEN fault ELSE "freed_node"
  /\ failed' = failed \cup {call[p]}
  /\ lock_write_buf' = Free
  /\ UNCHANGED <<next_packet_id, calls, call, msg_id, returned>>
  /\ UNCHANGED <<connVars, write_buf, lock_list_pub, node_state, ack_expired,
                 yieldVars, netVars>>

Publish(p) ==
  \/ PubStart(p) \/ PubLock(p) \/ PubQos0(p) \/ PubNextId(p) \/ PubSerialize(p)
  \/ PubPush(p) \/ PubSendOk(p) \/ PubSendNothing(p) \/ PubSendFail(p)
  \/ PubSendNoHandle(p) \/ PubRemove(p)

-----------------------------------------------------------------------------
(***************************************************************************)
(* qcloud_iot_mqtt_yield, run by the yield task while connected: read one  *)
(* packet, then qcloud_iot_mqtt_pub_info_proc, then _mqtt_keep_alive.      *)
(***************************************************************************)

YGoto(from, to) ==
  /\ ypc = from
  /\ ypc' = to

\* Nothing to read, or a packet that is not a PUBACK.
YReadOther ==
  /\ YGoto("read", "proc")
  /\ UNCHANGED <<ack, iter, temp_node, node, success, timedout>>
  /\ UNCHANGED <<connVars, write_buf, lock_write_buf, lock_list_pub, listVars,
                 taskVars, netVars, fault>>

\* A QoS 1 or QoS 2 message was delivered: its PUBACK or PUBREC goes out under
\* lock_write_buf.  If it cannot be sent, yield returns the error.
YAckPublish ==
  /\ lock_write_buf = Free
  /\ write_buf' = OtherPacket
  /\ \/ YGoto("read", "proc") /\ WriteOk({})
     \/ YGoto("read", "read") /\ WriteFail({})
  /\ UNCHANGED <<ack, iter, temp_node, node, success, timedout>>
  /\ UNCHANGED <<connVars, lock_write_buf, lock_list_pub, listVars, taskVars,
                 fault>>

\* Mutant: only the node at the tail of the list is looked at.
YReadPubackTailOnly ==
  /\ lock_list_pub = Free
  /\ YGoto("read", "success")
  /\ \E m \in broker :
       /\ broker' = broker \ {m}
       /\ ack' = m
       /\ node_state' = [n \in Calls |->
            IF /\ n \in list /\ msg_id[n] = m.id
               /\ \A k \in list : k <= n
            THEN "INVALID" ELSE node_state[n]]
  /\ UNCHANGED <<iter, temp_node, node, success, timedout, pending, sent>>
  /\ UNCHANGED <<connVars, write_buf, lock_write_buf, lock_list_pub, list,
                 ack_expired, taskVars, fault>>

\* Mutant: the event carries the newest packet id, not the one in the PUBACK.
YReadPubackNewestId ==
  /\ YGoto("read", "success")
  /\ \E m \in broker :
       /\ broker' = broker \ {m}
       /\ ack' = [m EXCEPT !.id = next_packet_id]
  /\ UNCHANGED <<iter, temp_node, node, success, timedout, pending, sent>>
  /\ UNCHANGED <<connVars, write_buf, lock_write_buf, lock_list_pub, listVars,
                 taskVars, fault>>

\* A PUBACK: _mask_pubInfo_from marks every node with its packet id ...
YReadPuback ==
  /\ lock_list_pub = Free
  /\ YGoto("read", "success")
  /\ \E m \in broker :
       /\ broker' = broker \ {m}
       /\ ack' = m
       /\ node_state' = [n \in Calls |->
            IF n \in list /\ msg_id[n] = m.id THEN "INVALID" ELSE node_state[n]]
  /\ UNCHANGED <<iter, temp_node, node, success, timedout, pending, sent>>
  /\ UNCHANGED <<connVars, write_buf, lock_write_buf, lock_list_pub, list,
                 ack_expired, taskVars, fault>>

\* ... and then the event handler hears of it, whether a node matched or not.
YSuccessEvent ==
  /\ YGoto("success", "proc")
  /\ success' = success \cup {ack.id}
  /\ ack' = OtherPacket
  /\ UNCHANGED <<iter, temp_node, node, timedout>>
  /\ UNCHANGED <<connVars, write_buf, lock_write_buf, lock_list_pub, listVars,
                 taskVars, netVars, fault>>

\* The read failed: the connection is given up.
YReadFail ==
  /\ disconnects < MaxDisconnects
  /\ YGoto("read", "disconnect")
  /\ UNCHANGED <<ack, iter, temp_node, node, success, timedout>>
  /\ UNCHANGED <<connVars, write_buf, lock_write_buf, lock_list_pub, listVars,
                 taskVars, netVars, fault>>

\* qcloud_iot_mqtt_pub_info_proc: an iterator from the tail of the list.
YProcBegin ==
  /\ lock_list_pub = Free
  /\ \/ /\ list = {}
        /\ YGoto("proc", "keep_alive")
        /\ UNCHANGED <<lock_list_pub, iter, temp_node>>
     \/ /\ YGoto("proc", "visit")
        /\ lock_list_pub' = Yielder
        /\ iter' \in {m \in list : \A k \in list : k <= m}
        /\ temp_node' = NULL
  /\ UNCHANGED <<ack, node, success, timedout>>
  /\ UNCHANGED <<connVars, write_buf, lock_write_buf, listVars, taskVars,
                 netVars, fault>>

\* node->prev, read by list_iterator_next when it hands out a node.
Prev(n) == {m \in list \cup {NULL} :
              m < n /\ \A k \in list : ~(m < k /\ k < n)}

Stale(n) == n # NULL /\ n \notin list

\* One turn of the loop: take the next node, remove the one the last turn
\* left in temp_node, then look at the node.
YVisit ==
  /\ ypc = "visit"
  /\ IF Stale(iter) \/ Stale(temp_node)
     THEN /\ fault' = "freed_node"
          /\ UNCHANGED <<lock_list_pub, list, yieldVars>>
     ELSE
       /\ list' = list \ {temp_node}
       /\ fault' = fault
       /\ \/ \* the end of the list
             /\ iter = NULL
             /\ ypc' = "keep_alive"
             /\ lock_list_pub' = Free
             /\ temp_node' = NULL
             /\ UNCHANGED <<iter, node>>
          \/ \* an acknowledged node goes in the next turn
             /\ iter # NULL
             /\ node_state[iter] = "INVALID"
             /\ temp_node' = iter
             /\ iter' \in Prev(iter)
             /\ UNCHANGED <<ypc, lock_list_pub, node>>
          \/ \* a node that may go on waiting
             /\ iter # NULL
             /\ node_state[iter] # "INVALID"
             /\ ~is_connected \/ ~ack_expired[iter]
             /\ temp_node' = NULL
             /\ iter' \in Prev(iter)
             /\ UNCHANGED <<ypc, lock_list_pub, node>>
          \/ \* the ACK timer of the node has run out: unlock
             /\ iter # NULL
             /\ node_state[iter] # "INVALID"
             /\ is_connected /\ ack_expired[iter]
             /\ ypc' = "window"
             /\ lock_list_pub' = Free
             /\ temp_node' = iter
             /\ node' = iter
             /\ iter' \in Prev(iter)
       /\ UNCHANGED <<ack, success, timedout>>
  /\ UNCHANGED <<connVars, write_buf, lock_write_buf, node_state, ack_expired,
                 taskVars, netVars>>

\* Mutant: the timer is restarted and nobody told.
YTimeoutSilent ==
  /\ lock_list_pub = Free
  /\ YGoto("window", "visit")
  /\ lock_list_pub' = Yielder
  /\ node' = NULL
  /\ UNCHANGED <<ack, iter, temp_node, success, timedout, fault>>
  /\ UNCHANGED <<connVars, write_buf, lock_write_buf, listVars, taskVars,
                 netVars>>

\* The timer of the node is restarted, the lock taken again, and the event
\* handler told of the timeout with the lock held.
YTimeoutEvent ==
  /\ lock_list_pub = Free
  /\ IF Stale(node)
     THEN /\ ypc = "window"
          /\ fault' = "freed_node"
          /\ UNCHANGED <<lock_list_pub, ack_expired, yieldVars>>
     ELSE /\ YGoto("window", "visit")
          /\ lock_list_pub' = Yielder
          /\ ack_expired' = [ack_expired EXCEPT ![node] = FALSE]
          /\ timedout' = timedout \cup {msg_id[node]}
          /\ node' = NULL
          /\ UNCHANGED <<ack, iter, temp_node, success, fault>>
  /\ UNCHANGED <<connVars, write_buf, lock_write_buf, list, node_state,
                 taskVars, netVars>>

\* Mutant: the PINGREQ is written to write_buf without its lock.
YKeepAliveNoLock ==
  /\ YGoto("keep_alive", "read")
  /\ write_buf' = OtherPacket
  /\ WriteOk({})
  /\ UNCHANGED <<ack, iter, temp_node, node, success, timedout>>
  /\ UNCHANGED <<connVars, lock_write_buf, lock_list_pub, listVars, taskVars,
                 fault>>

\* _mqtt_keep_alive: no ping is due, or a PINGREQ goes out, or the link is
\* found dead (ping attempts failed, or too many went unanswered).
YKeepAlive ==
  /\ \/ /\ YGoto("keep_alive", "read")
        /\ UNCHANGED <<write_buf, netVars>>
     \/ /\ YGoto("keep_alive", "read")
        /\ lock_write_buf = Free
        /\ write_buf' = OtherPacket
        /\ WriteOk({})
     \/ /\ YGoto("keep_alive", "disconnect")
        /\ disconnects < MaxDisconnects
        /\ \/ UNCHANGED write_buf
           \/ lock_write_buf = Free /\ write_buf' = OtherPacket
        /\ UNCHANGED netVars
  /\ UNCHANGED <<ack, iter, temp_node, node, success, timedout>>
  /\ UNCHANGED <<connVars, lock_write_buf, lock_list_pub, listVars, taskVars,
                 fault>>

\* _handle_disconnect: DISCONNECT goes out under lock_write_buf ...
YDisconnect ==
  /\ lock_write_buf = Free
  /\ YGoto("disconnect", "teardown")
  /\ write_buf' = OtherPacket
  /\ WriteOk({}) \/ WriteFail({})
  /\ UNCHANGED <<ack, iter, temp_node, node, success, timedout>>
  /\ UNCHANGED <<connVars, lock_write_buf, lock_list_pub, listVars, taskVars,
                 fault>>

\* ... network_stack.disconnect releases the TLS session under no lock ...
YTeardown ==
  /\ YGoto("teardown", "set_state")
  /\ disconnects < MaxDisconnects
  /\ disconnects' = disconnects + 1
  /\ handle' = FALSE
  /\ broker' = {}
  /\ pending' = {}
  /\ UNCHANGED <<ack, iter, temp_node, node, success, timedout>>
  /\ UNCHANGED <<is_connected, write_buf, lock_write_buf, lock_list_pub,
                 listVars, taskVars, sent, fault>>

\* ... and only then set_client_conn_state(NOTCONNECTED).
YSetState ==
  /\ YGoto("set_state", "reconnect")
  /\ is_connected' = FALSE
  /\ UNCHANGED <<ack, iter, temp_node, node, success, timedout>>
  /\ UNCHANGED <<handle, disconnects, write_buf, lock_write_buf, lock_list_pub,
                 listVars, taskVars, netVars, fault>>

\* _handle_reconnect, the attempt that succeeds: CONNECT goes out under
\* lock_write_buf and the CONNACK is awaited.
YReconnect ==
  /\ lock_write_buf = Free
  /\ YGoto("reconnect", "read")
  /\ handle' = TRUE
  /\ is_connected' = TRUE
  /\ write_buf' = OtherPacket
  /\ UNCHANGED <<ack, iter, temp_node, node, success, timedout>>
  /\ UNCHANGED <<disconnects, lock_write_buf, lock_list_pub, listVars,
                 taskVars, netVars, fault>>

Yield ==
  \/ YReadOther \/ YAckPublish \/ YReadPuback \/ YSuccessEvent \/ YReadFail
  \/ YProcBegin \/ YVisit \/ YTimeoutEvent \/ YKeepAlive
  \/ YDisconnect \/ YTeardown \/ YSetState \/ YReconnect

-----------------------------------------------------------------------------
(***************************************************************************)
(* Time.  The ACK timer of a node is armed with command_timeout_ms after   *)
(* the command timer of its publish was armed with the same value, so the  *)
(* send gives up first -- unless the task is held up, or the transport     *)
(* overruns the time it was given.  SendMayOverrun says whether it may.    *)
(***************************************************************************)
Sending(n) == \E p \in Tasks : call[p] = n /\ pc[p] \in {"send", "remove"}

AckTimerExpires(n) ==
  /\ n \in list
  /\ ~ack_expired[n]
  /\ SendMayOverrun \/ ~Sending(n)
  /\ ack_expired' = [ack_expired EXCEPT ![n] = TRUE]
  /\ UNCHANGED <<connVars, write_buf, lock_write_buf, lock_list_pub, list,
                 node_state, taskVars, yieldVars, netVars, fault>>

\* Undefined behaviour: the model says nothing of what follows.
Undefined == fault # "none" /\ UNCHANGED vars

Next ==
  \/ /\ fault = "none"
     /\ \/ \E p \in Tasks : Publish(p)
        \/ Yield
        \/ \E n \in Calls : AckTimerExpires(n)
  \/ Undefined

Spec == Init /\ [][Next]_vars

(***************************************************************************)
(* Scheduling.  FreeRTOS runs every ready task and hands a mutex to the    *)
(* longest-waiting task of the highest priority, so a task that waits for  *)
(* a lock which is freed again and again gets it: strong fairness for the  *)
(* steps that take a lock.  The application goes on calling yield, and     *)
(* timers run out.  Nobody promises that a lost connection comes back.     *)
(***************************************************************************)
TakesLock(p) == PubLock(p) \/ PubQos0(p) \/ PubPush(p) \/ PubRemove(p)

SendEnds(p) ==
  PubSendOk(p) \/ PubSendNothing(p) \/ PubSendFail(p) \/ PubSendNoHandle(p)

YieldOther == Yield /\ ypc \notin {"read", "reconnect"}

Fairness ==
  /\ \A p \in Tasks :
       /\ SF_vars(TakesLock(p) /\ fault = "none")
       /\ WF_vars(PubNextId(p) /\ fault = "none")
       /\ WF_vars(PubSerialize(p) /\ fault = "none")
       /\ WF_vars(SendEnds(p) /\ fault = "none")
  /\ WF_vars(YReadOther /\ fault = "none")
  /\ SF_vars(YieldOther /\ fault = "none")
  /\ \A n \in Calls : WF_vars(AckTimerExpires(n) /\ fault = "none")

FairSpec == Spec /\ Fairness

-----------------------------------------------------------------------------
(***************************************************************************)
(* Properties.                                                             *)
(***************************************************************************)

Numbered == {n \in Calls : msg_id[n] # 0}

\* Two publishes of the client never carry the same packet id, and none
\* carries 0 or more than MAX_PACKET_ID, although ids wrap around and get_next_packet_id
\* (mqtt_client_common.c:62-72) returns the field after it has released
\* lock_generic: what keeps them apart is lock_write_buf.
UniqueIds ==
  /\ \A m, n \in Numbered : m # n => msg_id[m] # msg_id[n]
  /\ \A n \in Numbered : msg_id[n] \in 1..MAX_PACKET_ID
  /\ \A p \in Tasks : pc[p] \in {"push", "send", "remove"} => call[p] \in Numbered

\* What a task sends is the packet it serialized: from the serialization to
\* the end of the send neither another publisher nor the PINGREQ, DISCONNECT
\* or CONNECT of the yield task replaces the contents of the shared write_buf.
BufferIntact ==
  \A p \in Tasks : pc[p] = "send" =>
    write_buf = [call |-> call[p], id |-> msg_id[call[p]]]

\* A publish whose PUBACK arrived is not left waiting in the list: the node
\* was there to be marked (it is pushed before the packet is sent), so
\* qcloud_iot_mqtt_pub_info_proc will drop it in silence.
AckedIsMarked ==
  \A n \in list : msg_id[n] \in success => node_state[n] = "INVALID"

\* The event handler never hears PUBLISH_TIMEOUT for a packet id after it has
\* heard PUBLISH_SUCCESS for it.
NoTimeoutAfterSuccess ==
  [][\A i \in Ids : i \in timedout' \ timedout => i \notin success]_vars

\* PUBLISH_SUCCESS is only raised for a publish the broker did receive.
SuccessIsTrue ==
  \A i \in success : \E n \in sent : msg_id[n] = i

\* The pointer the iterator of qcloud_iot_mqtt_pub_info_proc has saved is
\* null or in the list, across the window in which lock_list_pub is free: a
\* publisher only ever takes out the tail, because it holds lock_write_buf
\* from the push to the removal, and the iterator has moved past the tail.
IteratorValid ==
  ypc \in {"visit", "window"} => iter \in list \cup {NULL}

\* No node is used after it was freed.
NoFreedNode == fault # "freed_node"

\* A publish that starts while the client is connected returns.
CallReturns ==
  \A p \in Tasks : pc[p] # "idle" ~> pc[p] = "idle" \/ fault # "none"

\* A publish that returned its packet id hears PUBLISH_SUCCESS or
\* PUBLISH_TIMEOUT for it in the end, whatever is lost on the way, unless the
\* connection is lost for good.
EveryPublishHeard ==
  \A n \in Calls :
    n \in returned ~>
      msg_id[n] \in success \cup timedout \/ fault # "none" \/ []~is_connected

\* "packet id (>=0) when success, or err code (<0) for failure": a publish
\* that returned an id has been handed to the transport.
ReturnedIsSent == returned \subseteq sent

\* A publish never writes to a session the yield task has released.
NoReleasedHandle == fault # "no_handle"
====
