------------------------------ MODULE MqttSub ------------------------------
(***************************************************************************)
(* Subscriptions of the MQTT client: qcloud_iot_mqtt_subscribe and         *)
(* _unsubscribe called by application tasks, SUBACK, UNSUBACK and ACK      *)
(* timeouts handled by the yield task, and qcloud_iot_mqtt_resubscribe,    *)
(* which the yield task runs after a reconnection and which makes the same *)
(* calls of qcloud_iot_mqtt_subscribe as a task would.                     *)
(*                                                                         *)
(* The n-th call is request n: its packet id, its node in                  *)
(* list_sub_wait_ack and its copy of the topic filter are all known by n   *)
(* (packet ids do not repeat: UniqueIds of MqttPublish), and 0 is no       *)
(* request and the null pointer.  What a call does between lock_write_buf  *)
(* and the send touches nothing another task can reach but the list, under *)
(* lock_list_sub, so it is one action; so is a pass over the list, which   *)
(* holds lock_list_sub from end to end, and a SUBACK, which holds          *)
(* lock_generic.                                                           *)
(***************************************************************************)
EXTENDS Integers, FiniteSets, Sequences, Functions

CONSTANTS
  Tasks,                 \* application tasks
  Yielder,               \* the task that calls qcloud_iot_mqtt_yield
  Free,                  \* "nobody holds the lock"
  Topics,                \* topic filters
  Wildcards,             \* the filters that contain "/#" or "/+"
  Handlers,              \* pairs of a message handler and an event handler
  Subscriptions,         \* topic filters with the handlers the application
                         \* subscribes them with; a topic may have several
  MAX_MESSAGE_HANDLERS,  \* slots of sub_handles and length of the list, 10
  MaxCalls,              \* bound: calls of subscribe and unsubscribe
  MaxDisconnects,        \* bound: connection losses
  SendMayOverrun,        \* may an ACK timer run out during the send?
  MayOverlap             \* may calls for one topic overlap one another?

ASSUME SubAssumption ==
  /\ MAX_MESSAGE_HANDLERS \in Nat \ {0}
  /\ MaxCalls \in Nat \ {0}
  /\ MaxDisconnects \in Nat
  /\ {SendMayOverrun, MayOverlap} \subseteq BOOLEAN
  /\ Topics # {} /\ Handlers # {}
  /\ Wildcards \subseteq Topics
  /\ Subscriptions \subseteq Topics \X Handlers
  /\ Yielder \notin Tasks
  /\ Free \notin Tasks \cup {Yielder}

VARIABLES
  is_connected,    \* Client.is_connected, and the TLS session with it
  sub_handles,     \* slots: buf, the request whose topic_filter and handlers
                   \* it holds, by, the request whose user data it holds
  lock_write_buf,  \* who holds Client.lock_write_buf
  list,            \* nodes of Client.list_sub_wait_ack
  node_state,      \* QcloudIotSubInfo.node_state
  ack_expired,     \* nodes whose sub_start_time has run out
  buffers,         \* topic filters allocated and not freed
  calls,           \* requests made
  type, filter,    \* of each request: SUBSCRIBE or UNSUBSCRIBE, its topic
  handlers, user,  \* its handlers, the request whose user data it carries
  pc, call,        \* each caller: where it is, the request it makes
  ypc,             \* the yield task: where it is
  itr, topic,      \* locals of qcloud_iot_mqtt_resubscribe
  up, down,        \* packets on their way to the broker and back
  subscribed,      \* topics the broker delivers to this client
  disconnects,     \* connection losses so far
  heard,           \* history: the events raised for each request
  resub_failed,    \* history: the last resubscribe stopped at an error
  fault            \* undefined behaviour met

listVars == <<list, node_state, ack_expired>>
reqVars  == <<calls, type, filter, handlers, user>>
loopVars == <<ypc, itr, topic, resub_failed>>
netVars  == <<up, down, subscribed>>
vars == <<is_connected, sub_handles, lock_write_buf, listVars, buffers, reqVars,
          pc, call, loopVars, netVars, disconnects, heard, fault>>

NULL    == 0
Calls   == 1..MaxCalls
Slots   == 1..MAX_MESSAGE_HANDLERS
Callers == Tasks \cup {Yielder}
Event   == {"SUBCRIBE_SUCCESS", "SUBCRIBE_NACK", "SUBCRIBE_TIMEOUT",
            "UNSUBCRIBE_SUCCESS", "UNSUBCRIBE_TIMEOUT", "UNSUBSCRIBE",
            "CLIENT_DESTROY"}
Packet  == [ack : {"SUBACK", "NACK", "UNSUBACK"}, id : Calls]

TypeOK ==
  /\ is_connected \in BOOLEAN
  /\ sub_handles \in [Slots -> [buf : 0..MaxCalls, by : 0..MaxCalls]]
  /\ lock_write_buf \in Callers \cup {Free}
  /\ list \in SUBSET Calls /\ Cardinality(list) <= MAX_MESSAGE_HANDLERS
  /\ node_state \in [Calls -> {"NORMAL", "INVALID"}]
  /\ ack_expired \in SUBSET list
  /\ buffers \in SUBSET Calls
  /\ calls \in 0..MaxCalls
  /\ type \in [Calls -> {"SUBSCRIBE", "UNSUBSCRIBE"}]
  /\ filter \in [Calls -> Topics]
  /\ handlers \in [Calls -> Handlers]
  /\ user \in [Calls -> 0..MaxCalls]
  /\ pc \in [Callers -> {"idle", "unsubscribe", "lock", "send", "remove"}]
  /\ call \in [Callers -> 0..MaxCalls]
  /\ ypc \in {"read", "proc", "reconnect", "resubscribe", "copy", "call",
              "destroyed"}
  /\ itr \in 0..MAX_MESSAGE_HANDLERS
  /\ topic \in 0..MaxCalls
  /\ up \in Seq(Calls)
  /\ down \in Seq(Packet)
  /\ subscribed \in SUBSET Topics
  /\ disconnects \in 0..MaxDisconnects
  /\ heard \in [Calls -> SUBSET Event]
  /\ resub_failed \in BOOLEAN
  /\ fault \in {"none", "freed", "garbage_freed", "no_handle"}

Init ==
  /\ is_connected = TRUE
  /\ sub_handles = [i \in Slots |-> [buf |-> NULL, by |-> 0]]
  /\ lock_write_buf = Free
  /\ list = {}
  /\ node_state = [n \in Calls |-> "NORMAL"]
  /\ ack_expired = {}
  /\ buffers = {}
  /\ calls = 0
  /\ type = [n \in Calls |-> "SUBSCRIBE"]
  /\ filter = [n \in Calls |-> CHOOSE t \in Topics : TRUE]
  /\ handlers = [n \in Calls |-> CHOOSE h \in Handlers : TRUE]
  /\ user = [n \in Calls |-> 0]
  /\ pc = [p \in Callers |-> "idle"]
  /\ call = [p \in Callers |-> 0]
  /\ ypc = "read"
  /\ itr = 0
  /\ topic = NULL
  /\ up = << >>
  /\ down = << >>
  /\ subscribed = {}
  /\ disconnects = 0
  /\ heard = [n \in Calls |-> {}]
  /\ resub_failed = FALSE
  /\ fault = "none"

-----------------------------------------------------------------------------
(***************************************************************************)
(* Making a request.                                                       *)
(***************************************************************************)

Goto(p, from, to) ==
  /\ pc[p] = from
  /\ pc' = [pc EXCEPT ![p] = to]

\* p makes the next request, of kind k, for topic t, with handlers h and the user
\* data of request u.
Request(p, k, t, h, u) ==
  /\ calls < MaxCalls
  /\ calls' = calls + 1
  /\ type' = [type EXCEPT ![calls + 1] = k]
  /\ filter' = [filter EXCEPT ![calls + 1] = t]
  /\ handlers' = [handlers EXCEPT ![calls + 1] = h]
  /\ user' = [user EXCEPT ![calls + 1] = u]
  /\ call' = [call EXCEPT ![p] = calls + 1]

\* A filter the client is busy with.  If MayOverlap is FALSE, the application
\* leaves it alone until then.
Busy(t) ==
  \/ ypc \in {"reconnect", "resubscribe", "copy", "call"}
  \/ \E p \in Callers : pc[p] # "idle" /\ filter[call[p]] = t
  \/ \E n \in list \cup Range(up) \cup {m.id : m \in Range(down)} : filter[n] = t

MayCall(p, t) == p # Yielder /\ ypc # "destroyed" /\ (MayOverlap \/ ~Busy(t))

\* qcloud_iot_mqtt_subscribe: the connection check, then a copy of the filter.
Subscribe(p, t, h) ==
  /\ MayCall(p, t)
  /\ <<t, h>> \in Subscriptions
  /\ is_connected
  /\ Goto(p, "idle", "lock")
  /\ Request(p, "SUBSCRIBE", t, h, calls + 1)
  /\ buffers' = buffers \cup {calls + 1}
  /\ UNCHANGED <<is_connected, sub_handles, lock_write_buf, listVars, loopVars,
                 netVars, disconnects, heard, fault>>

\* The slots qcloud_iot_mqtt_unsubscribe clears.  A filter with a wildcard
\* clears every slot, those that are empty already included.
Cleared(t) ==
  IF t \in Wildcards THEN Slots
  ELSE {i \in Slots : sub_handles[i].buf # NULL /\ filter[sub_handles[i].buf] = t}

\* Mutant: the topic filter is freed, its pointer stays in the slot.
UnsubscribeKeepsPointer(p, t) ==
  /\ MayCall(p, t)
  /\ Cleared(t) # {}
  /\ Goto(p, "idle", "unsubscribe")
  /\ Request(p, "UNSUBSCRIBE", t, handlers[calls + 1], 0)
  /\ buffers' = buffers \ {sub_handles[i].buf : i \in Cleared(t)}
  /\ UNCHANGED <<is_connected, sub_handles, lock_write_buf, listVars, loopVars,
                 netVars, disconnects, heard, fault>>

\* Under lock_generic each of these hears UNSUBSCRIBE and loses its filter;
\* its handlers and user data stay behind.  No slot, and the call fails.  The
\* request has no handlers, and none are looked at.
Unsubscribe(p, t) ==
  /\ MayCall(p, t)
  /\ Cleared(t) # {}
  /\ Goto(p, "idle", "unsubscribe")
  /\ Request(p, "UNSUBSCRIBE", t, handlers[calls + 1], 0)
  /\ sub_handles' = [i \in Slots |->
       IF i \in Cleared(t) THEN [sub_handles[i] EXCEPT !.buf = NULL]
       ELSE sub_handles[i]]
  /\ buffers' = buffers \ {sub_handles[i].buf : i \in Cleared(t)}
  /\ heard' = [n \in Calls |->
       IF \E i \in Cleared(t) : sub_handles[i].by = n
       THEN heard[n] \cup {"UNSUBSCRIBE"} ELSE heard[n]]
  /\ UNCHANGED <<is_connected, lock_write_buf, listVars, loopVars, netVars,
                 disconnects, fault>>

\* Only then the connection check, and a copy of the filter.
UnsubCheck(p) ==
  /\ \/ /\ is_connected
        /\ Goto(p, "unsubscribe", "lock")
        /\ buffers' = buffers \cup {call[p]}
     \/ /\ ~is_connected
        /\ Goto(p, "unsubscribe", "idle")
        /\ UNCHANGED buffers
  /\ UNCHANGED <<is_connected, sub_handles, lock_write_buf, listVars, reqVars,
                 call, loopVars, netVars, disconnects, heard, fault>>

\* How resubscribe goes on when its call of subscribe has ended.
CallEnds(p, ok) ==
  IF p # Yielder THEN UNCHANGED loopVars
  ELSE /\ ypc' = IF ok THEN "resubscribe" ELSE "read"
       /\ resub_failed' = ~ok
       /\ UNCHANGED <<itr, topic>>

\* Mutant: the list takes one node more than it has room for.
PushOffByOne(p) ==
  /\ lock_write_buf = Free
  /\ \/ /\ Cardinality(list) <= MAX_MESSAGE_HANDLERS
        /\ Goto(p, "lock", "send")
        /\ lock_write_buf' = p
        /\ list' = list \cup {call[p]}
        /\ UNCHANGED <<buffers, loopVars>>
     \/ /\ Goto(p, "lock", "idle")
        /\ buffers' = buffers \ {call[p]}
        /\ CallEnds(p, FALSE)
        /\ UNCHANGED <<lock_write_buf, list>>
  /\ UNCHANGED <<is_connected, sub_handles, node_state, ack_expired, reqVars,
                 call, netVars, disconnects, heard, fault>>

\* lock_write_buf, packet id, serialization and push_sub_info_to.  The list
\* may be full, the packet too long or memory short: the copy is freed.
Push(p) ==
  /\ lock_write_buf = Free
  /\ \/ /\ Cardinality(list) < MAX_MESSAGE_HANDLERS
        /\ Goto(p, "lock", "send")
        /\ lock_write_buf' = p
        /\ list' = list \cup {call[p]}
        /\ UNCHANGED <<buffers, loopVars>>
     \/ /\ Goto(p, "lock", "idle")
        /\ buffers' = buffers \ {call[p]}
        /\ CallEnds(p, FALSE)
        /\ UNCHANGED <<lock_write_buf, list>>
  /\ UNCHANGED <<is_connected, sub_handles, node_state, ack_expired, reqVars,
                 call, netVars, disconnects, heard, fault>>

\* send_mqtt_packet wrote the packet, or found its timer expired and did not
\* write at all (which it calls a success).
Send(p) ==
  /\ is_connected
  /\ Goto(p, "send", "idle")
  /\ up' \in {up, Append(up, call[p])}
  /\ lock_write_buf' = Free
  /\ CallEnds(p, TRUE)
  /\ UNCHANGED <<is_connected, sub_handles, listVars, buffers, reqVars, call,
                 down, subscribed, disconnects, heard, fault>>

SendFail(p) ==
  /\ is_connected
  /\ Goto(p, "send", "remove")
  /\ UNCHANGED <<is_connected, sub_handles, lock_write_buf, listVars, buffers,
                 reqVars, call, loopVars, netVars, disconnects, heard,
                 fault>>

SendNoHandle(p) ==
  /\ pc[p] = "send"
  /\ ~is_connected
  /\ fault' = "no_handle"
  /\ UNCHANGED <<is_connected, sub_handles, lock_write_buf, listVars, buffers,
                 reqVars, pc, call, loopVars, netVars, disconnects, heard>>

\* After a failed send: list_remove(node), then the copy is freed.  The record
\* the write has left half written may be completed by the next write, which
\* waits for lock_write_buf, and so reach the broker.
SendRemove(p) ==
  /\ Goto(p, "remove", "idle")
  /\ fault' = IF call[p] \in list \cap buffers THEN fault ELSE "freed"
  /\ list' = list \ {call[p]}
  /\ ack_expired' = ack_expired \ {call[p]}
  /\ buffers' = buffers \ {call[p]}
  /\ lock_write_buf' = Free
  /\ up' \in {up, Append(up, call[p])}
  /\ CallEnds(p, FALSE)
  /\ UNCHANGED <<is_connected, sub_handles, node_state, reqVars, call, down,
                 subscribed, disconnects, heard>>

Call(p) ==
  \/ \E t \in Topics, h \in Handlers : Subscribe(p, t, h)
  \/ \E t \in Topics : Unsubscribe(p, t)
  \/ UnsubCheck(p) \/ Push(p) \/ Send(p) \/ SendFail(p) \/ SendNoHandle(p)
  \/ SendRemove(p)

-----------------------------------------------------------------------------
(***************************************************************************)
(* The yield task, qcloud_iot_mqtt_yield.                                  *)
(***************************************************************************)

\* One event of the client's event handler, for request n.
Raise(n, e) == heard' = [heard EXCEPT ![n] = @ \cup {e}]

Mark(n) == node_state' = [node_state EXCEPT ![n] = "INVALID"]

\* _check_handle_is_identical: slot i has the filter and the handlers of n.
Holds(i, n) ==
  /\ sub_handles[i].buf # NULL
  /\ filter[sub_handles[i].buf] = filter[n]
  /\ handlers[sub_handles[i].buf] = handlers[n]

FreeSlots == {i \in Slots : sub_handles[i].buf = NULL}

\* The first of a set of slots, or none.
FirstSlots(S) == {i \in S : \A j \in S : i <= j}

\* Mutant: the search for an identical handle stops at the first free slot.
InstallNoSearch(n) ==
  \/ /\ \E i \in FirstSlots(FreeSlots) :
          sub_handles' = [sub_handles EXCEPT ![i] = [buf |-> n, by |-> user[n]]]
     /\ UNCHANGED buffers
     /\ Raise(n, "SUBCRIBE_SUCCESS")
     /\ ypc' = "proc"
  \/ /\ FreeSlots = {}
     /\ UNCHANGED <<sub_handles, buffers, heard, ypc>>

\* A granted subscription goes into sub_handles: into the slot that is
\* identical, whose user data it replaces, or else into the first free slot.
\* With neither the handler gives up, and nobody hears of it.
Install(n) ==
  LET Same == {i \in Slots : Holds(i, n)} IN
  \/ /\ \E i \in FirstSlots(Same) :
          sub_handles' = [sub_handles EXCEPT ![i].by = user[n]]
     /\ buffers' = buffers \ {n}
     /\ Raise(n, "SUBCRIBE_SUCCESS")
     /\ ypc' = "proc"
  \/ /\ Same = {}
     /\ \E i \in FirstSlots(FreeSlots) :
          sub_handles' = [sub_handles EXCEPT ![i] = [buf |-> n, by |-> user[n]]]
     /\ UNCHANGED buffers
     /\ Raise(n, "SUBCRIBE_SUCCESS")
     /\ ypc' = "proc"
  \/ /\ Same \cup FreeSlots = {}
     /\ UNCHANGED <<sub_handles, buffers, heard, ypc>>

Receive(a) ==
  /\ ypc = "read"
  /\ down # << >>
  /\ Head(down).ack = a
  /\ down' = Tail(down)
  /\ UNCHANGED <<is_connected, lock_write_buf, list, ack_expired, reqVars, pc,
                 call, itr, topic, resub_failed, up, subscribed, disconnects>>

\* Mutant: the node is not marked as answered.
YSubackNoMark ==
  /\ Receive("SUBACK")
  /\ LET n == Head(down).id IN
       \/ n \in list /\ Install(n)
       \/ n \notin list /\ UNCHANGED <<sub_handles, buffers, heard, ypc>>
  /\ UNCHANGED <<node_state, fault>>

\* _handle_suback_packet.  An answer to a request whose node is gone is an
\* error of yield, which leaves before it looks at the lists.
YSuback ==
  /\ Receive("SUBACK")
  /\ LET n == Head(down).id IN
       \/ n \in list /\ Mark(n) /\ Install(n)
       \/ n \notin list /\ UNCHANGED <<node_state, sub_handles, buffers, heard, ypc>>
  /\ UNCHANGED fault

\* Mutant: the copy of a refused filter is not freed.
YNackKeepsFilter ==
  /\ Receive("NACK")
  /\ LET n == Head(down).id IN
       /\ Raise(n, "SUBCRIBE_NACK")
       /\ \/ n \in list /\ Mark(n)
          \/ n \notin list /\ UNCHANGED node_state
  /\ UNCHANGED <<sub_handles, buffers, ypc, fault>>

\* A refused subscription: SUBCRIBE_NACK, and then the node is looked up.
YNack ==
  /\ Receive("NACK")
  /\ LET n == Head(down).id IN
       /\ Raise(n, "SUBCRIBE_NACK")
       /\ \/ n \in list /\ Mark(n) /\ buffers' = buffers \ {n}
          \/ n \notin list /\ UNCHANGED <<node_state, buffers>>
  /\ UNCHANGED <<sub_handles, ypc, fault>>

\* _handle_unsuback_packet.  If the node is gone, the local messageHandler is
\* read uninitialized: its topic_filter happens to be null, or is freed.
YUnsuback ==
  /\ Receive("UNSUBACK")
  /\ LET n == Head(down).id IN
       /\ Raise(n, "UNSUBCRIBE_SUCCESS")
       /\ \/ n \in list /\ Mark(n) /\ buffers' = buffers \ {n} /\ fault' = fault
          \/ /\ n \notin list
             /\ fault' \in {fault, "garbage_freed"}
             /\ UNCHANGED <<node_state, buffers>>
  /\ ypc' = "proc"
  /\ UNCHANGED sub_handles

\* Nothing to read, or a packet this module says nothing of.
YReadOther ==
  /\ ypc = "read"
  /\ is_connected
  /\ ypc' = "proc"
  /\ UNCHANGED <<is_connected, sub_handles, lock_write_buf, listVars, buffers,
                 reqVars, pc, call, itr, topic, resub_failed, netVars,
                 disconnects, heard, fault>>

TimeoutOf(n) ==
  IF type[n] = "SUBSCRIBE" THEN "SUBCRIBE_TIMEOUT" ELSE "UNSUBCRIBE_TIMEOUT"

\* Mutant: a node that timed out is dropped and nobody told.
YSubInfoProcSilent ==
  LET Late == {n \in list : node_state[n] # "INVALID" /\ n \in ack_expired} IN
  /\ ypc = "proc"
  /\ ypc' = "read"
  /\ list' = {n \in list \ Late : node_state[n] # "INVALID"}
  /\ ack_expired' = {}
  /\ buffers' = buffers \ Late
  /\ UNCHANGED <<is_connected, sub_handles, lock_write_buf, node_state,
                 reqVars, pc, call, itr, topic, resub_failed, netVars,
                 disconnects, heard, fault>>

\* qcloud_iot_mqtt_sub_info_proc: answered nodes go; so do those whose timer
\* has run out, with an event and with their copy of the filter.
YSubInfoProc ==
  LET Late == {n \in list : node_state[n] # "INVALID" /\ n \in ack_expired} IN
  /\ ypc = "proc"
  /\ ypc' = "read"
  /\ list' = {n \in list \ Late : node_state[n] # "INVALID"}
  /\ ack_expired' = {}
  /\ buffers' = buffers \ Late
  /\ heard' = [n \in Calls |->
       IF n \in Late THEN heard[n] \cup {TimeoutOf(n)} ELSE heard[n]]
  /\ UNCHANGED <<is_connected, sub_handles, lock_write_buf, node_state,
                 reqVars, pc, call, itr, topic, resub_failed, netVars,
                 disconnects, fault>>

\* The connection is lost or given up; the session was a clean one.
YDisconnect ==
  /\ ypc = "read"
  /\ is_connected
  /\ disconnects < MaxDisconnects
  /\ lock_write_buf = Free
  /\ disconnects' = disconnects + 1
  /\ is_connected' = FALSE
  /\ up' = << >>
  /\ down' = << >>
  /\ subscribed' = {}
  /\ ypc' = "reconnect"
  /\ UNCHANGED <<sub_handles, lock_write_buf, listVars, buffers, reqVars, pc,
                 call, itr, topic, resub_failed, heard, fault>>

\* The attempt that succeeds; qcloud_iot_mqtt_resubscribe begins.
YReconnect ==
  /\ ypc = "reconnect"
  /\ lock_write_buf = Free
  /\ is_connected' = TRUE
  /\ ypc' = "resubscribe"
  /\ itr' = 0
  /\ UNCHANGED <<sub_handles, lock_write_buf, listVars, buffers, reqVars, pc,
                 call, topic, resub_failed, netVars, disconnects, heard,
                 fault>>

\* Mutant: an empty slot ends the loop.
YResubscribeStopsAtGap ==
  /\ ypc = "resubscribe"
  /\ \/ /\ \/ itr = MAX_MESSAGE_HANDLERS
           \/ itr < MAX_MESSAGE_HANDLERS /\ sub_handles[itr + 1].buf = NULL
        /\ ypc' = "read"
        /\ resub_failed' = FALSE
        /\ UNCHANGED <<itr, topic>>
     \/ /\ itr < MAX_MESSAGE_HANDLERS
        /\ sub_handles[itr + 1].buf # NULL
        /\ itr' = itr + 1
        /\ topic' = sub_handles[itr + 1].buf
        /\ ypc' = "copy"
        /\ UNCHANGED resub_failed
  /\ UNCHANGED <<is_connected, sub_handles, lock_write_buf, listVars, buffers,
                 reqVars, pc, call, netVars, disconnects, heard, fault>>

\* The next slot, read under no lock; after the last, RECONNECT is raised.
YResubscribe ==
  /\ ypc = "resubscribe"
  /\ \/ /\ itr = MAX_MESSAGE_HANDLERS
        /\ ypc' = "read"
        /\ resub_failed' = FALSE
        /\ UNCHANGED <<itr, topic>>
     \/ /\ itr < MAX_MESSAGE_HANDLERS
        /\ itr' = itr + 1
        /\ topic' = sub_handles[itr + 1].buf
        /\ ypc' = IF topic' = NULL THEN "resubscribe" ELSE "copy"
        /\ UNCHANGED resub_failed
  /\ UNCHANGED <<is_connected, sub_handles, lock_write_buf, listVars, buffers,
                 reqVars, pc, call, netVars, disconnects, heard, fault>>

\* qcloud_iot_mqtt_subscribe copies the string topic points to -- which
\* qcloud_iot_mqtt_unsubscribe may have freed by now -- if it gets memory.
YCopy ==
  /\ ypc = "copy"
  /\ \/ /\ topic \notin buffers
        /\ fault' = "freed"
        /\ UNCHANGED <<pc, call, reqVars, buffers, ypc, resub_failed>>
     \/ /\ topic \in buffers
        /\ ypc' = "call"
        /\ Goto(Yielder, "idle", "lock")
        /\ Request(Yielder, "SUBSCRIBE", filter[topic], handlers[topic],
                   sub_handles[itr].by)
        /\ buffers' = buffers \cup {calls + 1}
        /\ UNCHANGED <<resub_failed, fault>>
     \/ /\ topic \in buffers
        /\ ypc' = "read"
        /\ resub_failed' = TRUE
        /\ UNCHANGED <<pc, call, reqVars, buffers, fault>>
  /\ UNCHANGED <<is_connected, sub_handles, lock_write_buf, listVars, itr, topic,
                 netVars, disconnects, heard>>

\* IOT_MQTT_Destroy, once no call is under way: every slot that was ever used
\* hears CLIENT_DESTROY.
Destroy ==
  /\ ypc \in {"read", "reconnect"}
  /\ \A p \in Callers : pc[p] = "idle"
  /\ ypc' = "destroyed"
  /\ is_connected' = FALSE
  /\ heard' = [n \in Calls |->
       IF \E i \in Slots : sub_handles[i].by = n
       THEN heard[n] \cup {"CLIENT_DESTROY"} ELSE heard[n]]
  /\ buffers' = buffers \ {sub_handles[i].buf : i \in Slots}
  /\ sub_handles' = [i \in Slots |-> [sub_handles[i] EXCEPT !.buf = NULL]]
  /\ list' = {}
  /\ ack_expired' = {}
  /\ up' = << >>
  /\ down' = << >>
  /\ subscribed' = {}
  /\ UNCHANGED <<lock_write_buf, node_state, reqVars, pc, call, itr,
                 topic, resub_failed, disconnects, fault>>

Yield ==
  \/ YSuback \/ YNack \/ YUnsuback \/ YReadOther \/ YSubInfoProc
  \/ YDisconnect \/ YReconnect \/ YResubscribe \/ YCopy

-----------------------------------------------------------------------------

\* As in MqttPublish: may the ACK timer run out before the send has ended?
Sending(n) == \E p \in Callers : call[p] = n /\ pc[p] \in {"send", "remove"}

AckTimerExpires(n) ==
  /\ n \in list
  /\ n \notin ack_expired
  /\ SendMayOverrun \/ ~Sending(n)
  /\ ack_expired' = ack_expired \cup {n}
  /\ UNCHANGED <<is_connected, sub_handles, lock_write_buf, list, node_state,
                 buffers, reqVars, pc, call, loopVars, netVars, disconnects,
                 heard, fault>>

\* The broker (external) takes requests in order and answers each of them.
Broker ==
  /\ up # << >>
  /\ up' = Tail(up)
  /\ LET n == Head(up) IN
       \/ /\ type[n] = "SUBSCRIBE"
          /\ subscribed' = subscribed \cup {filter[n]}
          /\ down' = Append(down, [ack |-> "SUBACK", id |-> n])
       \/ /\ type[n] = "SUBSCRIBE"
          /\ subscribed' = subscribed
          /\ down' = Append(down, [ack |-> "NACK", id |-> n])
       \/ /\ type[n] = "UNSUBSCRIBE"
          /\ subscribed' = subscribed \ {filter[n]}
          /\ down' = Append(down, [ack |-> "UNSUBACK", id |-> n])
  /\ UNCHANGED <<is_connected, sub_handles, lock_write_buf, listVars, buffers,
                 reqVars, pc, call, loopVars, disconnects, heard, fault>>

\* Undefined behaviour, or a destroyed client: nothing follows.
Stopped == (fault # "none" \/ ypc = "destroyed") /\ UNCHANGED vars

Next ==
  \/ /\ fault = "none"
     /\ \/ \E p \in Callers : Call(p)
        \/ Yield
        \/ Destroy
        \/ Broker
        \/ \E n \in Calls : AckTimerExpires(n)
  \/ Stopped

Spec == Init /\ [][Next]_vars

(***************************************************************************)
(* Scheduling as in MqttPublish: a task that waits for a lock gets it, the *)
(* application goes on calling yield, which is always at one of its steps, *)
(* and timers run out, each of them once.  Nobody promises that a lost     *)
(* connection comes back.                                                  *)
(***************************************************************************)
CallStep(p) ==
  UnsubCheck(p) \/ Push(p) \/ Send(p) \/ SendFail(p) \/ SendNoHandle(p) \/ SendRemove(p)

YieldStep == YReadOther \/ YSubInfoProc \/ YResubscribe \/ YCopy

Fairness ==
  /\ \A p \in Callers : SF_vars(CallStep(p) /\ fault = "none")
  /\ WF_vars(YieldStep /\ fault = "none")
  /\ WF_vars(fault = "none" /\ \E n \in Calls : AckTimerExpires(n))

FairSpec == Spec /\ Fairness

-----------------------------------------------------------------------------
(***************************************************************************)
(* Properties.                                                             *)
(***************************************************************************)

\* Room for every subscription: a topic subscribed with two pairs of handlers
\* takes two slots.
EnoughSlots ==
  /\ IsFiniteSet(Subscriptions)
  /\ Cardinality(Subscriptions) <= MAX_MESSAGE_HANDLERS

Waiting == {n \in list : node_state[n] = "NORMAL"}
Making  == {call[p] : p \in {q \in Callers : pc[q] \in {"lock", "send", "remove"}}}
Stored  == {sub_handles[i].buf : i \in Slots} \ {NULL}

\* Ownership of the strings: a string in a slot or in a node that waits for its
\* answer is allocated, and no string is in two slots, or in a slot and in such
\* a node, so that the places that free one free it once.
OneOwner ==
  /\ Stored \cup Waiting \subseteq buffers
  /\ Stored \cap (Waiting \cup Making) = {}
  /\ \A i, j \in Slots :
       i # j /\ sub_handles[i].buf # NULL => sub_handles[i].buf # sub_handles[j].buf

\* No string is lost: one that is allocated is in a slot, in a waiting node or
\* in the hands of the call that made it (if EnoughSlots).
NoLeak == ypc # "destroyed" => buffers \subseteq Stored \cup Waiting \cup Making

\* No filter is in two slots with the same handlers: however subscribe,
\* resubscribe and unsubscribe interleave, a reconnection does not use up
\* sub_handles.
NoDuplicates ==
  \A i, j \in Slots :
    sub_handles[i].buf # NULL /\ i # j => ~Holds(j, sub_handles[i].buf)

Timeouts == {"SUBCRIBE_TIMEOUT", "UNSUBCRIBE_TIMEOUT"}

\* A subscription that was reported as a success, or refused, is not reported as
\* timed out afterwards; one that timed out is not reported as a success.
AnsweredOnce ==
  [][\A n \in Calls :
       /\ (heard'[n] \ heard[n]) \cap Timeouts # {} => heard[n] = {}
       /\ "SUBCRIBE_SUCCESS" \in heard'[n] \ heard[n] => heard[n] = {}]_heard

\* A node that is gone: answered or timed out, or its call returned an error.
Told(n) == heard[n] \cap {"SUBCRIBE_NACK", "SUBCRIBE_TIMEOUT"} # {}

\* The client is connected and has nothing left to do.
Quiet ==
  /\ fault = "none" /\ is_connected /\ ypc = "read"
  /\ up = << >> /\ down = << >> /\ list = {}
  /\ \A p \in Callers : pc[p] = "idle"

\* When all is quiet, a slot's topic is one the broker delivers, or the
\* application has been told of a refusal or a timeout -- provided it does not
\* unsubscribe a topic while a subscription to it is under way, and the last
\* resubscribe went through.
InSync ==
  Quiet /\ ~resub_failed =>
    \A n \in Stored :
      filter[n] \in subscribed \/ \E m \in Calls : filter[m] = filter[n] /\ Told(m)

\* "Reconnect with MQTT server and re-subscribe topics if reconnected".
InSyncAfterReconnect ==
  Quiet =>
    \A n \in Stored :
      filter[n] \in subscribed \/ \E m \in Calls : filter[m] = filter[n] /\ Told(m)

\* A request whose call has returned its packet id is answered by an event (if
\* EnoughSlots), unless the connection is lost for good: while it tries to
\* reconnect, yield neither reads nor looks at a timer.
EveryRequestAnswered ==
  \A n \in Calls :
    n \in Waiting \ Making ~>
      heard[n] # {} \/ fault # "none" \/ ypc = "destroyed" \/ []~is_connected

\* No string and no node is used or freed after it was freed.
NoFreedString == fault # "freed"

\* "Free the topic filter malloced in qcloud_iot_mqtt_unsubscribe": that, and
\* nothing else.
NoGarbageFreed == fault # "garbage_freed"

\* A topic filter leaves its slot only when that topic is unsubscribed.
OthersKept ==
  [][\A i \in Slots :
       sub_handles[i].buf # NULL /\ sub_handles'[i].buf = NULL /\ ypc' # "destroyed" =>
         filter[sub_handles[i].buf] = filter'[calls']]_sub_handles
====
