----------------------------- MODULE MqttLocks -----------------------------
(***************************************************************************)
(* The four mutexes of a client, none of them recursive and all waited for *)
(* without a limit, and the calls that take them: which locks a call takes *)
(* in which order, where in that order it runs a callback, and what the    *)
(* callback may call in turn.  A path is what one run of a function does   *)
(* to the locks: a sequence of steps.                                      *)
(***************************************************************************)
EXTENDS Integers, Sequences

CONSTANTS
  Tasks,          \* application tasks
  Yielder,        \* the task that calls yield
  Free,           \* the lock is free
  Calls,          \* what the application tasks call: names in CallPaths
  Reenters,       \* events whose callback calls back into the client ...
  CallbackCalls   \* ... and what it calls there

Workers == Tasks \cup {Yielder}
Locks == {"write_buf", "generic", "list_pub", "list_sub"}
Names == {"publish_qos0", "publish", "subscribe", "unsubscribe"}

EventsUnderLock ==
  {"PUBLISH_TIMEOUT", "SUBCRIBE_TIMEOUT", "UNSUBCRIBE_TIMEOUT",
   "UNSUBCRIBE_SUCCESS", "UNSUBSCRIBE"}
EventsFree ==
  {"PUBLISH_SUCCESS", "SUBCRIBE_SUCCESS", "SUBCRIBE_NACK", "PUBLISH_RECVEIVED",
   "DISCONNECT", "RECONNECT"}

ASSUME LocksAssumption ==
  /\ Yielder \notin Tasks
  /\ Free \notin Workers
  /\ Calls \subseteq Names
  /\ CallbackCalls \subseteq Names
  /\ Reenters \subseteq EventsUnderLock \cup EventsFree

VARIABLES
  holder,   \* who holds each lock
  rest,     \* what each worker has left to do
  stage     \* which part of its loop yield runs next

lockVars == <<holder, rest, stage>>

-----------------------------------------------------------------------------
(***************************************************************************)
(* Paths.                                                                  *)
(***************************************************************************)
Take(l)  == [do |-> "lock", what |-> l]
Give(l)  == [do |-> "unlock", what |-> l]
Event(e) == [do |-> "event", what |-> e]
Step     == [do : {"lock", "unlock", "event"},
             what : Locks \cup EventsUnderLock \cup EventsFree]

With(l, path) == <<Take(l)>> \o path \o <<Give(l)>>
Touch(l) == With(l, <<>>)

\* get_client_conn_state, and the same for set_client_conn_state.
ConnState == Touch("generic")

\* Mutant: when the list is full, the function returns without unlocking.
RequestsLeakLock(list) ==
  {ConnState \o <<Take("write_buf")>> \o Touch("generic") \o Touch(list)}

\* Mutant: after a failed send the lock is released twice.
RequestsUnlockTwice(list) ==
  {ConnState \o With("write_buf", Touch("generic") \o Touch(list))
     \o <<Give("write_buf")>>}

\* A request: not connected; or, under lock_write_buf, the packet id and, unless
\* the packet does not fit, the node in the list and the send, after which a
\* send that failed takes the node out again.
Requests(list) ==
  {ConnState} \cup
  {ConnState \o With("write_buf", Touch("generic") \o path) :
     path \in {<<>>, Touch(list), Touch(list) \o Touch(list)}}

PublishQos0 == {ConnState \o Touch("write_buf")}

Publish == Requests("list_pub")

Subscribe == Requests("list_sub")

\* The slots are cleared under lock_generic, with an event for each.
Clears == {Touch("generic"), With("generic", <<Event("UNSUBSCRIBE")>>)}

Unsubscribe ==
  {cleared \o path :
     cleared \in Clears, path \in {<<>>} \cup Requests("list_sub")}

CallPaths(name) ==
  CASE name = "publish_qos0" -> PublishQos0
    [] name = "publish"      -> Publish
    [] name = "subscribe"    -> Subscribe
    [] name = "unsubscribe"  -> Unsubscribe

Puback == Touch("list_pub") \o <<Event("PUBLISH_SUCCESS")>> \o Touch("generic")

\* _handle_suback_packet: installed, refused by the broker, or of no use.
Suback ==
  LET mask == With("generic", Touch("list_sub"))
  IN  { mask \o <<Event("SUBCRIBE_SUCCESS")>> \o Touch("generic"),
        <<Event("SUBCRIBE_NACK")>> \o mask \o <<Event("SUBCRIBE_NACK")>>
          \o Touch("generic"),
        mask \o Touch("generic") }

Unsuback ==
  Touch("list_sub") \o With("generic", <<Event("UNSUBCRIBE_SUCCESS")>>)
    \o Touch("generic")

\* Mutant: the handler is called under lock_generic.
MessageUnderLock == With("generic", <<Event("PUBLISH_RECVEIVED")>>)

\* _deliver_message unlocks before it calls the handler of the topic.
Message == Touch("generic") \o <<Event("PUBLISH_RECVEIVED")>>

\* cycle_for_read, one packet or none.
Reads ==
  {<<>>, Puback, Unsuback, Message \o Touch("generic"),
   Message \o Touch("write_buf") \o Touch("generic"), Touch("write_buf"),
   Touch("generic")} \cup Suback

\* qcloud_iot_mqtt_pub_info_proc: the list is unlocked and locked again for a
\* node that has timed out, and the event is raised with the list locked.
PubInfoProc ==
  {Touch("list_pub"),
   With("list_pub",
        <<Give("list_pub"), Take("list_pub"), Event("PUBLISH_TIMEOUT")>>)}

SubInfoProc ==
  {Touch("list_sub"),
   With("list_sub", <<Event("SUBCRIBE_TIMEOUT")>>),
   With("list_sub", <<Event("UNSUBCRIBE_TIMEOUT")>>)}

\* _handle_disconnect: DISCONNECT, the state, the event.
Disconnects ==
  ConnState \o Touch("write_buf") \o ConnState \o <<Event("DISCONNECT")>>

\* _mqtt_keep_alive: nothing to do, a ping, or the end of the connection.
KeepAlives ==
  {<<>>, Touch("write_buf") \o Touch("generic"), Disconnects,
   Touch("write_buf") \o Disconnects}

\* One attempt to reconnect: it fails before or after CONNECT; or CONNACK comes
\* and, one after the other, the topics are subscribed again.
ReconnectPaths ==
  LET attempt == ConnState \o Touch("write_buf")
  IN  {ConnState, attempt \o ConnState} \cup
      {attempt \o ConnState \o Touch("generic") \o ConnState \o path
         \o <<Event("RECONNECT")>> : path \in {<<>>} \cup Subscribe}

\* What the parts of the loop of yield do, and the part that comes next when
\* it goes on.
Stages == {"read", "pub_info_proc", "sub_info_proc", "keep_alive"}

Yields(st) ==
  CASE st = "read"          -> Reads \cup ReconnectPaths \cup {Disconnects}
    [] st = "pub_info_proc" -> PubInfoProc
    [] st = "sub_info_proc" -> SubInfoProc
    [] st = "keep_alive"    -> KeepAlives

\* Mutant: keep-alive ends the loop.
AfterEnds(st) ==
  CASE st = "read"          -> "pub_info_proc"
    [] st = "pub_info_proc" -> "sub_info_proc"
    [] st = "sub_info_proc" -> "keep_alive"
    [] st = "keep_alive"    -> "end"

After(st) ==
  CASE st = "read"          -> "pub_info_proc"
    [] st = "pub_info_proc" -> "sub_info_proc"
    [] st = "sub_info_proc" -> "keep_alive"
    [] st = "keep_alive"    -> "read"

-----------------------------------------------------------------------------
(***************************************************************************)
(* The workers.                                                            *)
(***************************************************************************)
LockTypeOK ==
  /\ holder \in [Locks -> Workers \cup {Free}]
  /\ rest \in [Workers -> Seq(Step)]
  /\ stage \in Stages

LockInit ==
  /\ holder = [l \in Locks |-> Free]
  /\ rest = [w \in Workers |-> <<>>]
  /\ stage = "read"

\* An application task calls the client.
Call(t) ==
  /\ rest[t] = <<>>
  /\ \E n \in Calls : \E path \in CallPaths(n) :
       rest' = [rest EXCEPT ![t] = path]
  /\ UNCHANGED <<holder, stage>>

\* The next part of the loop; a read that ends in an error, a disconnection or
\* an attempt to reconnect is followed by another read.
Yield ==
  /\ rest[Yielder] = <<>>
  /\ \E path \in Yields(stage) : rest' = [rest EXCEPT ![Yielder] = path]
  /\ stage' \in {After(stage)} \cup IF stage = "read" THEN {"read"} ELSE {}
  /\ UNCHANGED holder

Does(w, what) == rest[w] # <<>> /\ Head(rest[w]).do = what

\* HAL_MutexLock waits as long as it takes, also for a lock of one's own.
HAL_MutexLock(w) ==
  /\ Does(w, "lock")
  /\ holder[Head(rest[w]).what] = Free
  /\ holder' = [holder EXCEPT ![Head(rest[w]).what] = w]
  /\ rest' = [rest EXCEPT ![w] = Tail(rest[w])]
  /\ UNCHANGED stage

HAL_MutexUnlock(w) ==
  /\ Does(w, "unlock")
  /\ holder' = [holder EXCEPT ![Head(rest[w]).what] = Free]
  /\ rest' = [rest EXCEPT ![w] = Tail(rest[w])]
  /\ UNCHANGED stage

\* The callback returns at once, or first makes one call that raises no event
\* of its own.
Callback(w) ==
  /\ Does(w, "event")
  /\ \E path \in {<<>>} \cup
         IF Head(rest[w]).what \in Reenters
         THEN UNION {CallPaths(n) : n \in CallbackCalls} ELSE {} :
       rest' = [rest EXCEPT ![w] = path \o Tail(rest[w])]
  /\ UNCHANGED <<holder, stage>>

Act(w) == HAL_MutexLock(w) \/ HAL_MutexUnlock(w) \/ Callback(w)

LockNext ==
  \/ \E t \in Tasks : Call(t)
  \/ Yield
  \/ \E w \in Workers : Act(w)

LockSpec == LockInit /\ [][LockNext]_lockVars

-----------------------------------------------------------------------------
(***************************************************************************)
(* Properties.                                                             *)
(***************************************************************************)
WaitsFor(v, w) == Does(v, "lock") /\ holder[Head(rest[v]).what] = w

\* No tasks wait for each other in a circle, and none waits for a lock it
\* holds itself: the paths of publish, subscribe, unsubscribe, yield and of
\* the calls made from callbacks agree on an order of the locks.
NoCircularWait ==
  \A S \in SUBSET Workers :
    S # {} => \E v \in S : \A w \in S : ~WaitsFor(v, w)

\* A lock is released by the task that holds it, on every path: no error path
\* releases a lock twice, or one that another task has taken meanwhile.
ReleasesItsOwn ==
  \A w \in Workers : Does(w, "unlock") => holder[Head(rest[w]).what] = w

\* A task that has returned to the application holds no lock: every early
\* return of every function has released what it took.
ReturnsUnlocked ==
  \A w \in Workers : rest[w] = <<>> => \A l \in Locks : holder[l] # w
====
