------------------------------- MODULE Shadow -------------------------------
(***************************************************************************)
(* The device shadow (shadow_client.c, shadow_client_manager.c): documents *)
(* that are published with a token and answered on a result topic.  Any    *)
(* task makes requests; one task yields, and it alone makes the            *)
(* synchronous ones.  Requests are numbered in the order in which they are *)
(* begun; each has its document.  The cloud pushes deltas of properties on *)
(* the result topic as well, or sends one with a reply.                    *)
(*                                                                         *)
(* The mutex of the shadow is held for the whole of a walk over its lists. *)
(* Nobody else reaches the lists meanwhile, so a walk is one step here;    *)
(* what callbacks under that mutex may call is the subject of MqttLocks.   *)
(***************************************************************************)
EXTENDS ShadowDoc, FiniteSets

CONSTANTS
  Tasks,          \* tasks that make asynchronous requests
  Yielder,        \* the task that yields
  MAX_APPENDING_REQUEST, \* capacity of request_list
  MaxRequests,    \* bound: requests made
  MaxLosses,      \* bound: connections lost
  Documents,      \* sequences of documents, one per request: see ShadowDoc
  Properties,     \* that may be registered
  MaxRegistered, MaxDeltas,  \* bounds: registrations, deltas
  RegisterOnce,   \* the application registers no property twice
  OneBuilder,     \* no two tasks build a document at the same time
  Garbled         \* a reply may carry a result code that cannot be parsed

ASSUME ShadowAssumption ==
  /\ Yielder \notin Tasks
  /\ MAX_APPENDING_REQUEST \in Nat \ {0}
  /\ MaxRequests \in Nat /\ MaxLosses \in Nat
  /\ MaxRegistered \in Nat /\ MaxDeltas \in Nat 
  /\ \A ds \in Documents : Len(ds) = MaxRequests
  /\ {OneBuilder, Garbled, RegisterOnce} \subseteq BOOLEAN

Callers  == Tasks \cup {Yielder}
Requests == 1 .. MaxRequests
Acks     == {"result", "timeout"}   \* the result: accepted or rejected
None     == 0

VARIABLES
  \* the calls
  pc,             \* where a task is in a request
  req,            \* the request it makes
  documents,      \* of each request: never changes
  made,           \* requests made so far
  token,          \* of each request
  returned,       \* what the call said: "none", "success" or "error"
  answers,        \* what its callback was called with, in order
  \* the client
  token_num, sync_status, property_handle_list,
  request_list,   \* a walk visits it all, in whatever order
  expired,        \* requests in the list whose timer has run out
  mode,           \* "construct", "sync" (waits for the subscription), "free"
                  \* or "destroyed"
  inYield,        \* it is inside IOT_MQTT_Yield
  \* MQTT and the cloud
  connected, subscribed,
  pending,        \* a SUBSCRIBE of the result topic has not been answered
  atCloud,        \* requests published and not answered
  replies,        \* on their way to the device
  losses,
  \* the properties
  deltas,         \* made by the cloud so far
  data,           \* of each property: the number of the delta it comes from
  told            \* the deltas its callback was called with, in order

callVars   == <<pc, req, made, token, returned, documents>>
clientVars == <<token_num, request_list, sync_status, expired>>
propVars   == <<property_handle_list, data, told>>
yieldVars  == <<mode, inYield>>
netVars    == <<connected, subscribed, pending, losses>>
cloudVars  == <<atCloud, replies, deltas>>
vars == <<callVars, clientVars, yieldVars, netVars, cloudVars, propVars, answers>>

\* What comes on the result topic; a delta is of some properties, ps.
Reply == [of : Requests \cup {None}, token : 0 .. MaxRequests,
          type : {"get", "update", "delta"}, code : {"0", "none"},
          delta : 0 .. MaxDeltas, ps : SUBSET Properties]

\* What is read of each document that may be sent, whatever number its token is:
\* by the cloud, and the token by the device itself before it adds the type.
Sent ==
  [d \in UNION {Range(ds) : ds \in Documents}, value \in 0 .. MaxRequests |->
     [json  |-> Json(Document(d, ToString(value))),
      token |-> parse_client_token(Built(d, ToString(value)))]]

\* What the device reads of each message of the cloud.
Heard ==
  [type \in {"get", "update", "delta"}, value \in 0 .. MaxRequests,
   code \in {"0", "none"}, ps \in {qs : qs \in SUBSET Properties} |->
     LET doc == FromCloud(type, ToString(value), code, ps, Properties)
         delta == IF type = "delta" THEN parse_shadow_operation_delta(doc)
                  ELSE parse_shadow_operation_get(doc)
     IN  [type   |-> parse_shadow_operation_type(doc)[1],
          token  |-> parse_client_token(doc),
          result |-> parse_shadow_operation_result_code(doc),
          ps |-> {p \in Properties : update_value_if_key_match(delta, p)}]]

ReadOf(r) == Heard[r.type, r.token, r.code, r.ps]
SentAs(d, value) == Sent[d, value]
SentBy(n) == SentAs(documents[n], token[n])

-----------------------------------------------------------------------------
(***************************************************************************)
(* IOT_Shadow_Construct.  The client comes from the heap: sync_status      *)
(* holds anything until it is set.                                         *)
(***************************************************************************)
Init ==
  /\ pc = [t \in Callers |-> "idle"]
  /\ req = [t \in Callers |-> None]
  /\ documents \in Documents
  /\ made = 0
  /\ token = [n \in Requests |-> 0]
  /\ returned = [n \in Requests |-> "none"]
  /\ answers = [n \in Requests |-> <<>>]
  /\ token_num = 0
  /\ request_list = {}
  /\ sync_status \in {-1, 0, 1}
  /\ expired = {}
  /\ mode = "construct" /\ inYield = FALSE
  /\ connected = TRUE /\ subscribed = FALSE /\ pending = FALSE
  /\ atCloud = {} /\ replies = {}
  /\ losses = 0
  /\ deltas = 0 /\ property_handle_list = <<>>
  /\ data = [p \in Properties |-> 0] /\ told = [p \in Properties |-> <<>>]

\* The result topic is subscribed; the packet id, which is positive, stays in
\* sync_status until an event replaces it.  A SUBSCRIBE that cannot be sent
\* ends the construction at once.
ConstructSubscribe ==
  /\ mode = "construct"
  /\ \/ /\ pending' = TRUE /\ sync_status' = 1 /\ mode' = "sync"
     \/ /\ mode' = "free" /\ UNCHANGED <<pending, sync_status>>
  /\ UNCHANGED <<callVars, answers, token_num, request_list, expired, inYield,
                 connected, subscribed, losses, cloudVars, propVars>>

ConstructReturns ==
  /\ mode = "sync" /\ ~inYield /\ sync_status <= 0
  /\ mode' = "free"
  /\ UNCHANGED <<callVars, clientVars, answers, inYield, netVars, cloudVars,
                 propVars>>

-----------------------------------------------------------------------------
(***************************************************************************)
(* IOT_Shadow_Update and IOT_Shadow_Get.                                   *)
(***************************************************************************)
MayCall(t) ==
  /\ mode = "free"
  /\ pc[t] = "idle"
  /\ t = Yielder => ~inYield

Building(t) == pc[t] \in {"token", "count"}

\* Not connected: an error.  Connected: the result topic is subscribed again
\* if the last attempt is known to have failed, whether it works or not.
RequestBegin(t) ==
  /\ MayCall(t)
  /\ connected /\ made < MaxRequests
  /\ OneBuilder => \A u \in Callers : ~Building(u)
  /\ made' = made + 1
  /\ req' = [req EXCEPT ![t] = made + 1]
  /\ pc' = [pc EXCEPT ![t] = "token"]
  /\ pending' \in IF sync_status < 0 THEN {pending, TRUE} ELSE {pending}
  /\ UNCHANGED <<token, returned, documents, answers, clientVars, yieldVars,
                 connected, subscribed, losses, cloudVars, propVars>>

\* build_empty_json, generate_client_token: the number is read ...
TokenRead(t) ==
  /\ pc[t] = "token"
  /\ token' = [token EXCEPT ![req[t]] = token_num]
  /\ pc' = [pc EXCEPT ![t] = "count"]
  /\ UNCHANGED <<req, made, returned, documents, answers, clientVars,
                 yieldVars, netVars, cloudVars, propVars>>

\* Mutant: the number is not counted up.
TokenNotCounted(t) ==
  /\ pc[t] = "count"
  /\ pc' = [pc EXCEPT ![t] = "publish"]
  /\ UNCHANGED <<req, made, token, returned, documents, answers, clientVars,
                 yieldVars, netVars, cloudVars, propVars>>

\* ... and written back, under no lock.
TokenCount(t) ==
  /\ pc[t] = "count"
  /\ token_num' = token[req[t]] + 1
  /\ pc' = [pc EXCEPT ![t] = "publish"]
  /\ UNCHANGED <<req, made, token, returned, documents, answers,
                 request_list, sync_status, expired, yieldVars, netVars,
                 cloudVars, propVars>>

Return(t, rc) ==
  /\ returned' = [returned EXCEPT ![req[t]] = rc]
  /\ pc' = [pc EXCEPT ![t] = "idle"]
  /\ req' = [req EXCEPT ![t] = None]

\* _publish_operation_to_cloud, at QoS 0: an error, or a packet on its way.
Publish(t) ==
  /\ pc[t] = "publish"
  /\ \/ /\ Return(t, "error") /\ UNCHANGED atCloud
     \/ /\ connected
        /\ pc' = [pc EXCEPT ![t] = "add"]
        /\ atCloud' = atCloud \cup {req[t]}
        /\ UNCHANGED <<req, returned>>
  /\ UNCHANGED <<made, token, documents, answers, clientVars, yieldVars,
                 netVars, replies, deltas, propVars>>

\* IOT_Shadow_Update_Sync and IOT_Shadow_Get_Sync go on yielding until the
\* callback has left an answer; only the yielding task calls them.
Added(t) ==
  \/ Return(t, "success")
  \/ /\ t = Yielder
     /\ returned' = [returned EXCEPT ![req[t]] = "success"]
     /\ pc' = [pc EXCEPT ![t] = "wait"]
     /\ UNCHANGED req

\* _add_request_to_list: the list is full, or there is no memory: an error,
\* although the document is on its way.  The timer starts here.
AddRequestToList(t) ==
  /\ pc[t] = "add"
  /\ \/ /\ Return(t, "error") /\ UNCHANGED request_list
     \/ /\ Cardinality(request_list) < MAX_APPENDING_REQUEST
        /\ Added(t)
        /\ request_list' = request_list \cup {req[t]}
  /\ UNCHANGED <<made, token, documents, answers, token_num, sync_status,
                 expired, yieldVars, netVars, cloudVars, propVars>>

SyncReturns ==
  /\ pc[Yielder] = "wait" /\ ~inYield
  /\ answers[req[Yielder]] # <<>>
  /\ pc' = [pc EXCEPT ![Yielder] = "idle"]
  /\ req' = [req EXCEPT ![Yielder] = None]
  /\ UNCHANGED <<made, token, returned, documents, clientVars, answers,
                 yieldVars, netVars, cloudVars, propVars>>

-----------------------------------------------------------------------------
(***************************************************************************)
(* IOT_Shadow_Yield.                                                       *)
(***************************************************************************)
Answer(S, ack) ==
  [n \in Requests |-> IF n \in S THEN Append(answers[n], ack) ELSE answers[n]]

\* Called by the application, or by a loop that still waits for something.
YieldBegin ==
  /\ ~inYield
  /\ \/ mode = "sync" /\ sync_status > 0
     \/ mode = "free" /\ pc[Yielder] = "idle"
     \/ mode = "free" /\ pc[Yielder] = "wait" /\ answers[req[Yielder]] = <<>>
  /\ inYield' = TRUE

\* Mutant: the request stays in the list after its time-out.
HandleExpiredKeeps ==
  /\ YieldBegin
  /\ answers' = Answer(expired, "timeout")
  /\ UNCHANGED <<callVars, clientVars, mode, netVars, cloudVars, propVars>>

\* Mutant: time-outs are looked for only as long as there is a connection.
HandleExpiredConnected ==
  /\ YieldBegin
  /\ answers' = IF connected THEN Answer(expired, "timeout") ELSE answers
  /\ request_list' = IF connected THEN request_list \ expired ELSE request_list
  /\ expired' = IF connected THEN {} ELSE expired
  /\ UNCHANGED <<callVars, token_num, sync_status, mode, netVars, cloudVars,
                 propVars>>

\* handle_expired_request, at the beginning of every yield, connected or not.
HandleExpired ==
  /\ YieldBegin
  /\ answers' = Answer(expired, "timeout")
  /\ request_list' = request_list \ expired
  /\ expired' = {}
  /\ UNCHANGED <<callVars, token_num, sync_status, mode, netVars, cloudVars,
                 propVars>>

\* _handle_delta, k times over: each registration of a property it names gets
\* the value, and its callback is called.  (Numbers and truth values: strings
\* and objects are left to the callback.)
HandleDelta(r, k) ==
  LET times(p) ==
        IF p \in ReadOf(r).ps
        THEN k * Cardinality({i \in DOMAIN property_handle_list :
                                property_handle_list[i] = p})
        ELSE 0
  IN  /\ data' = [p \in Properties |-> IF times(p) > 0 THEN r.delta ELSE data[p]]
      /\ told' = [p \in Properties |->
                    told[p] \o [i \in 1 .. times(p) |-> r.delta]]

\* _on_operation_result_handler, _handle_request_callback: every request with
\* the token of the reply is answered and removed; if the result code cannot be
\* parsed it is removed only.  The delta of a get is handled, accepted or not:
\* the second condition there takes any type but "update".
OnOperationResult(r) ==
  /\ inYield /\ r \in replies /\ ReadOf(r).type # "delta"
  /\ replies' = replies \ {r}
  /\ LET mine == {n \in request_list : SentBy(n).token = ReadOf(r).token}
         get  == ReadOf(r).result /\ ReadOf(r).type = "get"
     IN  /\ request_list' = request_list \ mine
         /\ expired' = expired \ mine
         /\ answers' = IF ReadOf(r).result THEN Answer(mine, "result") ELSE answers
         /\ HandleDelta(r, IF get THEN Cardinality(mine) ELSE 0)
  /\ UNCHANGED <<callVars, token_num, sync_status, yieldVars, netVars, atCloud,
                 deltas, property_handle_list>>

\* A message of type "delta".
OnDelta(r) ==
  /\ inYield /\ r \in replies /\ ReadOf(r).type = "delta"
  /\ replies' = replies \ {r}
  /\ HandleDelta(r, 1)
  /\ UNCHANGED <<callVars, clientVars, answers, yieldVars, netVars, atCloud,
                 deltas, property_handle_list>>

\* Mutant: a SUBSCRIBE that is refused or times out is passed over.
OnSubscribeEventSuccessOnly ==
  /\ inYield /\ connected /\ pending
  /\ pending' = FALSE
  /\ \/ /\ subscribed' = TRUE
        /\ sync_status' = IF sync_status > 0 THEN 0 ELSE sync_status
     \/ UNCHANGED <<subscribed, sync_status>>
  /\ UNCHANGED <<callVars, token_num, request_list, expired, answers,
                 yieldVars, connected, losses, cloudVars, propVars>>

\* _shadow_event_handler: any SUBSCRIBE answered, refused or timed out, which
\* MQTT does only while it is connected.
OnSubscribeEvent ==
  /\ inYield /\ connected /\ pending
  /\ pending' = FALSE
  /\ \/ /\ subscribed' = TRUE
        /\ sync_status' = IF sync_status > 0 THEN 0 ELSE sync_status
     \/ /\ sync_status' = IF sync_status > 0 THEN -1 ELSE sync_status
        /\ UNCHANGED subscribed
  /\ UNCHANGED <<callVars, token_num, request_list, expired, answers,
                 yieldVars, connected, losses, cloudVars, propVars>>

YieldEnd ==
  /\ inYield
  /\ inYield' = FALSE
  /\ UNCHANGED <<callVars, clientVars, answers, mode, netVars, cloudVars,
                 propVars>>

\* The connection breaks, with what was under way, and comes back.
Lose ==
  /\ inYield /\ connected /\ losses < MaxLosses
  /\ connected' = FALSE /\ losses' = losses + 1
  /\ replies' = {}
  /\ UNCHANGED <<callVars, clientVars, answers, yieldVars, subscribed,
                 pending, atCloud, deltas, propVars>>

Reconnect ==
  /\ inYield /\ ~connected
  /\ connected' = TRUE
  /\ UNCHANGED <<callVars, clientVars, answers, yieldVars, subscribed,
                 pending, losses, cloudVars, propVars>>

TimerExpires(n) ==
  /\ n \in request_list \ expired
  /\ expired' = expired \cup {n}
  /\ UNCHANGED <<callVars, token_num, request_list, sync_status, answers,
                 yieldVars, netVars, cloudVars, propVars>>

\* IOT_Shadow_Destroy, once no task is in a call any more: both lists go, and
\* what was still in them is never answered.
Destroy ==
  /\ mode = "free" /\ ~inYield
  /\ \A t \in Callers : pc[t] = "idle"
  /\ mode' = "destroyed"
  /\ request_list' = {} /\ expired' = {} /\ property_handle_list' = <<>>
  /\ connected' = FALSE /\ subscribed' = FALSE /\ pending' = FALSE
  /\ replies' = {}
  /\ UNCHANGED <<callVars, token_num, sync_status, answers, inYield, losses,
                 atCloud, deltas, data, told>>

-----------------------------------------------------------------------------
(***************************************************************************)
(* IOT_Shadow_Register_Property.  It and IOT_Shadow_UnRegister_Property    *)
(* look the property up with list_find, which compares it with the         *)
(* handlers in the list, as no match function is set: nothing is found.    *)
(* So a property is registered again, and unregistering one is always an   *)
(* error that changes nothing, and no action here.                         *)
(***************************************************************************)
list_find(p) == {i \in DOMAIN property_handle_list : FALSE}

RegisterProperty(p) ==
  /\ \E t \in Callers : MayCall(t)
  /\ connected /\ list_find(p) = {}
  /\ Len(property_handle_list) < MaxRegistered
  /\ RegisterOnce => p \notin ToSet(property_handle_list)
  /\ property_handle_list' = Append(property_handle_list, p)
  /\ UNCHANGED <<callVars, clientVars, answers, yieldVars, netVars, cloudVars,
                 data, told>>

-----------------------------------------------------------------------------
(***************************************************************************)
(* The cloud answers a request that it can read once, if it arrives, on a  *)
(* topic the device has to be subscribed to, at QoS 0: this step may never *)
(* be taken.  What differs from the desired values goes with the reply to  *)
(* a get, or is pushed.                                                    *)
(***************************************************************************)
Answers(of, value, type, code, ps) ==
  /\ deltas' = IF ps = {} THEN deltas ELSE deltas + 1
  /\ deltas' <= MaxDeltas
  /\ replies' = replies \cup
       {[of |-> of, token |-> value, type |-> type, code |-> code,
         delta |-> IF ps = {} THEN 0 ELSE deltas + 1, ps |-> ps]}

Cloud(n) ==
  /\ n \in atCloud
  /\ atCloud' = atCloud \ {n}
  /\ connected /\ subscribed /\ SentBy(n).json # {}
  /\ LET type == Method(documents[n])
     IN  \E code \in {"0"} \cup IF Garbled THEN {"none"} ELSE {},
            ps \in IF type = "get" THEN SUBSET Properties ELSE {{}} :
           Answers(n, token[n], type, code, ps)
  /\ UNCHANGED <<callVars, clientVars, answers, yieldVars, netVars, propVars>>

Push ==
  /\ connected /\ subscribed
  /\ \E ps \in SUBSET Properties \ {{}} :
       Answers(None, 0, "delta", "none", ps)
  /\ UNCHANGED <<callVars, clientVars, answers, yieldVars, netVars, atCloud,
                 propVars>>

-----------------------------------------------------------------------------
Request(t) ==
  \/ TokenRead(t) \/ TokenCount(t) \/ Publish(t) \/ AddRequestToList(t)

Yield ==
  \/ HandleExpired \/ OnSubscribeEvent \/ YieldEnd
  \/ Lose \/ Reconnect
  \/ \E r \in replies : OnOperationResult(r) \/ OnDelta(r)

Next ==
  \/ ConstructSubscribe \/ ConstructReturns
  \/ \E t \in Callers : RequestBegin(t) \/ Request(t)
  \/ SyncReturns
  \/ Yield
  \/ \E n \in Requests : TimerExpires(n) \/ Cloud(n)
  \/ Push \/ \E p \in Properties : RegisterProperty(p)
  \/ Destroy

Spec == Init /\ [][Next]_vars

\* Calls go on, the application yields for ever, a yield ends, timers run out,
\* and MQTT answers or times out a SUBSCRIBE, unless the connection is lost for
\* good (MqttSub, EveryRequestAnswered).
Fairness ==
  /\ WF_vars(ConstructSubscribe) /\ WF_vars(ConstructReturns)
  /\ WF_vars(SyncReturns)
  /\ \A t \in Callers : WF_vars(Request(t))
  /\ WF_vars(HandleExpired) /\ WF_vars(YieldEnd)
  /\ SF_vars(OnSubscribeEvent)
  /\ \A n \in Requests : WF_vars(TimerExpires(n))

FairSpec == Spec /\ Fairness

-----------------------------------------------------------------------------
(***************************************************************************)
(* What the proofs take from the text of the documents: the device reads   *)
(* of a reply the token it reads of its own document only if the number is *)
(* the same, and the type and the properties of a message as the cloud     *)
(* meant them.                                                             *)
(***************************************************************************)
ReadsAsMeant ==
  \A r \in Reply :
    /\ ReadOf(r).type = r.type /\ ReadOf(r).ps = r.ps
    /\ \A ds \in Documents, n \in Requests, value \in 0 .. MaxRequests :
         r.type # "delta" /\ SentAs(ds[n], value).token = ReadOf(r).token
           => value = r.token

-----------------------------------------------------------------------------
(***************************************************************************)
(* Properties.                                                             *)
(***************************************************************************)
TypeOK ==
  /\ pc \in [Callers -> {"idle", "token", "count", "publish", "add", "wait"}]
  /\ req \in [Callers -> Requests \cup {None}]
  /\ documents \in Documents /\ made \in 0 .. MaxRequests
  /\ token \in [Requests -> 0 .. MaxRequests]
  /\ returned \in [Requests -> {"none", "success", "error"}]
  /\ token_num \in 0 .. MaxRequests
  /\ \A n \in Requests : answers[n] \in Seq(Acks)
  /\ request_list \subseteq Requests /\ Cardinality(request_list) <= MAX_APPENDING_REQUEST
  /\ expired \subseteq request_list
  /\ sync_status \in {-1, 0, 1}
  /\ mode \in {"construct", "sync", "free", "destroyed"}
  /\ inYield \in BOOLEAN /\ connected \in BOOLEAN
  /\ subscribed \in BOOLEAN /\ pending \in BOOLEAN
  /\ atCloud \subseteq Requests /\ replies \subseteq Reply
  /\ losses \in 0 .. MaxLosses /\ deltas \in 0 .. MaxDeltas
  /\ property_handle_list \in Seq(Properties)
  /\ data \in [Properties -> 0 .. MaxDeltas]
  /\ \A p \in Properties : told[p] \in Seq(1 .. MaxDeltas)

\* A callback is called at most once, whatever mixture of late replies,
\* time-outs and losses a request meets: the walk that answers a request
\* removes it (shadow_client_manager.c:560, 580).  A property's callback is
\* called at most once for each delta.
OneCallback ==
  /\ \A n \in Requests : Len(answers[n]) <= 1
  /\ \A p \in Properties : IsInjective(told[p])

\* What a callback is told is what the cloud said of this very request: tokens
\* tell the requests in the list apart (shadow_client_manager.c:522), as long
\* as documents are built one at a time.
RepliesFindTheirOwn ==
  [][\A r \in replies : OnOperationResult(r) =>
       \A n \in Requests : answers'[n] # answers[n] => n = r.of]_vars

\* What is published is JSON, whichever function built the document, and says
\* what the application meant: a comma or a blank that is too many is written
\* over (shadow_client.c:452), and the type is put in front at the end
\* (shadow_client_manager.c:380).  And both ends read the same of a document:
\* the token by which the device knows the reply, and all of a reply or delta.
DocumentsRead ==
  /\ \A n \in atCloud :
       /\ SentBy(n).json = Meant(documents[n], ToString(token[n]))
       /\ SentBy(n).token = <<ToString(token[n])>>
  /\ \A r \in replies :
       /\ ReadOf(r).type = r.type /\ ReadOf(r).ps = r.ps
       /\ r.of # None => /\ ReadOf(r).token = SentBy(r.of).token
                         /\ ReadOf(r).result = (r.code = "0")

\* A property is in the list once.  Not so when it is registered twice, which is
\* to be refused: list_find does not find it.
RegisteredOnce == IsInjective(property_handle_list)

\* Every request whose call succeeded is answered: by the cloud or by its
\* timer, connected or not, unless the client is destroyed.
EveryRequestAnswered ==
  \A n \in Requests :
    returned[n] = "success" ~> (answers[n] # <<>> \/ mode = "destroyed")

\* A synchronous call comes to an end, connected or not; so does the construction
\* of the client (shadow_client.c:168), unless the connection is lost for good.
SyncCallsReturn ==
  /\ pc[Yielder] = "wait" ~> pc[Yielder] # "wait"
  /\ mode = "sync" ~> mode # "sync" \/ []~connected

\* The construction ends whatever becomes of the connection.
ConstructEnds == mode = "sync" ~> mode # "sync"
====
