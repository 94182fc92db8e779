-------------------------------- MODULE Coap --------------------------------
(***************************************************************************)
(* The CoAP client (coap_client.c, coap_client_message.c,                  *)
(* coap_client_auth.c, coap_client_common.c): confirmable requests over    *)
(* datagrams, which are lost, doubled and overtaken.  Any task sends; one  *)
(* task constructs the client and then yields.  Request 1 is the           *)
(* authentication; the others are numbered as they are begun.              *)
(*                                                                         *)
(* A walk over message_list holds lock_list_wait_ack throughout and is one *)
(* step; what it sends is in the network when it ends.  The order in which *)
(* it visits the nodes is left open: the list is a set.                    *)
(***************************************************************************)
EXTENDS CoapWire, FiniteSets

CONSTANTS
  Tasks,          \* tasks that send
  Yielder,        \* the task that constructs the client and yields
  max_retry_count,
  MAX_MSG_ID,     \* COAP_MSG_MAX_MSG_ID, after which ids begin at 1 again
  MaxRequests,    \* bound: requests made, the authentication included
  MaxCopies,      \* bound: datagrams the network delivers once more
  ReplyOptions,   \* the options of the server's responses
  OneSender,      \* no two tasks take ids and tokens at the same time
  AuthFails       \* the authentication may fail to be formatted or listed

ASSUME CoapAssumption ==
  /\ Yielder \notin Tasks
  /\ max_retry_count \in Nat
  /\ MaxRequests \in Nat \ {0} /\ MaxCopies \in Nat
  /\ MAX_MSG_ID \in Nat /\ MAX_MSG_ID >= MaxRequests
  /\ OneSender \in BOOLEAN /\ AuthFails \in BOOLEAN

Callers  == Tasks \cup {Yielder}
Requests == 1 .. MaxRequests
Auth     == 1
None     == 0

VARIABLES
  \* the calls
  pc, req, made,
  msg_id, token,  \* of each request
  returned,       \* what the call said: "none", "success" or "error"
  heard,          \* whom each request was answered by, in order: the number of
                  \* the request the server answered, or None for a time-out
  \* the client
  next_msg_id, message_token, message_list,
  retrans_count,  \* of each request
  acked,          \* requests whose empty ACK has come
  invalid,        \* COAP_NODE_STATE_INVALID: to be removed
  expired,        \* nodes with no time left
  is_authed,      \* -1, 0 or 1
  mode,           \* "construct", "auth", "free" or "destroyed"
  yield,          \* "out", "recv" or "wait": where the yielding task is
  \* the network and the server
  toDevice,
  copies,         \* datagrams delivered once more, so far
  owed            \* separate responses not acknowledged yet

callVars   == <<pc, req, made, msg_id, token, returned>>
idVars     == <<next_msg_id, message_token>>
listVars   == <<message_list, retrans_count, acked, invalid, expired>>
modeVars   == <<is_authed, mode, yield>>
netVars    == <<toDevice, copies, owed>>
vars == <<callVars, heard, idVars, listVars, modeVars, netVars>>

Ids == 0 .. MAX_MSG_ID

\* The paths, the token of the authentication and the payloads matter only as
\* bytes of some number: <product>/<device>/<what>, and so on.
Bytes(n) == [i \in 1 .. n |-> 65]
auth_token == Bytes(13)

\* What IOT_COAP_SendMessage and coap_client_auth send.
Message(n, id, value) ==
  LET path == coap_message_option_add(<<>>, URI_PATH, Bytes(14))
      sure == IF n = Auth THEN path
              ELSE coap_message_option_add(path, AUTH_TOKEN, auth_token)
  IN  [type |-> CON, class |-> REQ, detail |-> POST, id |-> id,
       token |-> get_coap_message_token(value),
       options |-> coap_message_option_add(sure, NEED_RESP, <<48>>),
       payload |-> Bytes(2)]

\* What the other side reads of a message.
OverTheWire(m) == deserialize_coap_message(serialize_coap_message(m))

AtServer ==
  [n \in Requests, id \in Ids, value \in 0 .. MaxRequests |->
     OverTheWire(Message(n, id, value))]

\* What the server answers a request it can read: an acknowledgement carries
\* the id of the request, a separate response its token.
Answer(request, kind) ==
  CASE kind = "ack" ->
         [request EXCEPT !.type = ACK, !.class = SUCCESS, !.detail = VALID,
                         !.options = <<>>, !.payload = <<>>]
    [] kind = "piggy" ->
         [request EXCEPT !.type = ACK, !.class = SUCCESS, !.detail = CONTENT,
                         !.options = ReplyOptions, !.payload = auth_token]
    [] kind = "response" ->
         [request EXCEPT !.class = SUCCESS, !.detail = CONTENT, !.id = 0,
                         !.options = ReplyOptions, !.payload = auth_token]

AtDevice ==
  [n \in Requests, id \in Ids, value \in 0 .. MaxRequests,
   kind \in {"ack", "piggy", "response"} |->
     OverTheWire(Answer(AtServer[n, id, value], kind))]

\* What one side writes is what the other reads.
WireFaithful ==
  \A n \in Requests, id \in Ids, value \in 0 .. MaxRequests,
     kind \in {"ack", "piggy", "response"} :
    AtDevice[n, id, value, kind] = Answer(Message(n, id, value), kind)

\* A datagram under way to the device; "of" is the request it answers.
Datagram(n, kind) == [of |-> n, msg |-> AtDevice[n, msg_id[n], token[n], kind]]

-----------------------------------------------------------------------------
(***************************************************************************)
(* IOT_COAP_Construct: qcloud_iot_coap_init, the connection, and a first   *)
(* request by this task.  Ids begin anywhere; here they soon wrap.         *)
(***************************************************************************)
Init ==
  /\ pc = [t \in Callers |-> IF t = Yielder THEN "id" ELSE "idle"]
  /\ req = [t \in Callers |-> IF t = Yielder THEN Auth ELSE None]
  /\ made = 1
  /\ msg_id = [n \in Requests |-> 0]
  /\ token = [n \in Requests |-> 0]
  /\ returned = [n \in Requests |-> "none"]
  /\ heard = [n \in Requests |-> <<>>]
  /\ next_msg_id = MAX_MSG_ID - 1
  /\ message_token = 0
  /\ message_list = {}
  /\ retrans_count = [n \in Requests |-> 0]
  /\ acked = {} /\ invalid = {} /\ expired = {}
  /\ is_authed = -1 /\ mode = "construct" /\ yield = "out"
  /\ toDevice = {} /\ copies = 0 /\ owed = {}

\* coap_client_auth has returned, whatever it returned: the loop begins.
ConstructAuth ==
  /\ mode = "construct" /\ pc[Yielder] = "idle"
  /\ mode' = "auth"
  /\ UNCHANGED <<callVars, heard, idVars, listVars, is_authed, yield, netVars>>

\* IOT_COAP_Destroy; the requests left in the list are not answered.
Discard ==
  /\ mode' = "destroyed"
  /\ is_authed' = -1
  /\ message_list' = {} /\ expired' = {} /\ invalid' = {} /\ acked' = {}
  /\ toDevice' = {} /\ owed' = {}
  /\ UNCHANGED <<callVars, heard, idVars, retrans_count, yield, copies>>

ConstructReturns ==
  /\ mode = "auth" /\ yield = "out"
  /\ \/ /\ is_authed = 1
        /\ mode' = "free"
        /\ UNCHANGED <<callVars, heard, idVars, listVars, is_authed, yield,
                       netVars>>
     \/ /\ is_authed = 0
        /\ Discard

Destroy ==
  /\ mode = "free" /\ yield = "out"
  /\ \A t \in Callers : pc[t] = "idle"
  /\ Discard

-----------------------------------------------------------------------------
(***************************************************************************)
(* IOT_COAP_SendMessage, and coap_client_auth.                             *)
(***************************************************************************)
Numbering(t) == pc[t] \in {"id", "token", "count"}

SendBegin(t) ==
  /\ mode = "free" /\ pc[t] = "idle"
  /\ t = Yielder => yield = "out"
  /\ made < MaxRequests
  /\ OneSender => \A u \in Callers : ~Numbering(u)
  /\ made' = made + 1
  /\ req' = [req EXCEPT ![t] = made + 1]
  /\ pc' = [pc EXCEPT ![t] = "id"]
  /\ UNCHANGED <<msg_id, token, returned, heard, idVars, listVars, modeVars,
                 netVars>>

\* get_next_coap_msg_id and get_coap_message_token: read, and written back
\* under no lock.
IdRead(t) ==
  /\ pc[t] = "id"
  /\ msg_id' = [msg_id EXCEPT ![req[t]] =
                  IF next_msg_id = MAX_MSG_ID THEN 1 ELSE next_msg_id + 1]
  /\ pc' = [pc EXCEPT ![t] = "token"]
  /\ UNCHANGED <<req, made, token, returned, heard, idVars, listVars,
                 modeVars, netVars>>

IdWriteTokenRead(t) ==
  /\ pc[t] = "token"
  /\ next_msg_id' = msg_id[req[t]]
  /\ token' = [token EXCEPT ![req[t]] = message_token]
  /\ pc' = [pc EXCEPT ![t] = "count"]
  /\ UNCHANGED <<req, made, msg_id, returned, heard, message_token, listVars,
                 modeVars, netVars>>

\* Mutant: the token is not counted up.
TokenNotCounted(t) ==
  /\ pc[t] = "count"
  /\ pc' = [pc EXCEPT ![t] = "send"]
  /\ UNCHANGED <<req, made, msg_id, token, returned, heard, idVars,
                 listVars, modeVars, netVars>>

TokenCount(t) ==
  /\ pc[t] = "count"
  /\ message_token' = token[req[t]] + 1
  /\ pc' = [pc EXCEPT ![t] = "send"]
  /\ UNCHANGED <<req, made, msg_id, token, returned, heard, next_msg_id,
                 listVars, modeVars, netVars>>

Return(t, rc) ==
  /\ returned' = [returned EXCEPT ![req[t]] = rc]
  /\ pc' = [pc EXCEPT ![t] = "idle"]
  /\ req' = [req EXCEPT ![t] = None]

\* The server gets S, or its answer never comes, which is the same: it answers
\* in the acknowledgement or acknowledges and answers later.  A copy of what it
\* has answered before is answered again.
Server(S) ==
  \E later \in SUBSET S :
    /\ owed' = owed \cup later
    /\ toDevice' = toDevice \cup
         {Datagram(n, IF n \in later THEN "ack" ELSE "piggy") : n \in S}

\* coap_message_send, under lock_send_buf: the message is formatted, unless that
\* fails, and written ...
Send(t) ==
  /\ pc[t] = "send"
  /\ \A u \in Callers : pc[u] # "add"
  /\ \/ /\ req[t] = Auth => AuthFails
        /\ Return(t, "error")
        /\ UNCHANGED <<toDevice, owed>>
     \/ /\ Server({req[t]})
        /\ pc' = [pc EXCEPT ![t] = "add"]
        /\ UNCHANGED <<req, returned>>
  /\ UNCHANGED <<made, msg_id, token, heard, idVars, listVars, modeVars,
                 copies>>

\* ... and its node appended under lock_list_wait_ack: _coap_message_list_add,
\* if there is memory for it.
ListAdd(t) ==
  /\ pc[t] = "add"
  /\ \/ /\ req[t] = Auth => AuthFails
        /\ Return(t, "error")
        /\ UNCHANGED message_list
     \/ /\ message_list' = message_list \cup {req[t]}
        /\ Return(t, "success")
  /\ UNCHANGED <<made, msg_id, token, heard, idVars, retrans_count, acked,
                 invalid, expired, modeVars, netVars>>

-----------------------------------------------------------------------------
(***************************************************************************)
(* IOT_COAP_Yield, coap_message_cycle: one datagram, then the time-outs.   *)
(***************************************************************************)
YieldBegin ==
  /\ yield = "out"
  /\ \/ mode = "auth" /\ is_authed = -1
     \/ mode = "free" /\ pc[Yielder] = "idle"
  /\ yield' = "recv"
  /\ UNCHANGED <<callVars, heard, idVars, listVars, is_authed, mode, netVars>>

\* A node's handler, or the event handler, is called.
Hear(S, from) ==
  /\ heard' = [n \in Requests |->
                 IF n \in S THEN Append(heard[n], from) ELSE heard[n]]
  /\ IF Auth \in S /\ from # None THEN is_authed' \in {0, 1}
     ELSE is_authed' = IF Auth \in S THEN 0 ELSE is_authed

\* _coap_client_send_ack: what the send returns is not looked at, and the server
\* may never get it.
SendAck(m) == owed' \in {owed, owed \ {m.of}}

\* A datagram that is read may come once more.
Receive(m) ==
  /\ yield = "recv"
  /\ \/ toDevice' = toDevice \ {m} /\ UNCHANGED copies
     \/ copies < MaxCopies /\ copies' = copies + 1 /\ UNCHANGED toDevice
  /\ yield' = "wait"

\* _coap_message_list_proc, PROCESS_ACK_CMD: the node gets a new period.
OnAck(m) ==
  /\ m.msg.type = ACK /\ IsEmptyAck(m.msg) /\ Receive(m)
  /\ LET mine == {n \in message_list : msg_id[n] = m.msg.id}
     IN  /\ acked' = acked \cup mine
         /\ expired' = expired \ mine
  /\ UNCHANGED <<callVars, heard, idVars, message_list, retrans_count, invalid,
                 is_authed, mode, owed>>

\* PROCESS_PIGGY_CMD.
OnPiggy(m) ==
  /\ m.msg.type = ACK /\ ~IsEmptyAck(m.msg) /\ ~IsEmpty(m.msg) /\ Receive(m)
  /\ LET mine == {n \in message_list : msg_id[n] = m.msg.id}
     IN  /\ Hear(mine, m.of)
         /\ acked' = acked \cup mine
         /\ invalid' = invalid \cup mine
  /\ UNCHANGED <<callVars, idVars, message_list, retrans_count, expired, mode,
                 owed>>

\* PROCESS_RESP_CMD: acknowledged first, known or not, when confirmable.
OnResp(m) ==
  /\ m.msg.type \in {CON, NON} /\ IsContent(m.msg) /\ Receive(m)
  /\ IF m.msg.type = CON THEN SendAck(m) ELSE UNCHANGED owed
  /\ LET mine == {n \in message_list : m.msg.token = get_coap_message_token(token[n])}
     IN  /\ Hear(mine, m.of)
         /\ invalid' = invalid \cup mine
  /\ UNCHANGED <<callVars, idVars, message_list, retrans_count, acked, expired,
                 mode>>

\* QCLOUD_ERR_SSL_READ_TIMEOUT.
RecvTimeout ==
  /\ yield = "recv"
  /\ yield' = "wait"
  /\ UNCHANGED <<callVars, heard, idVars, listVars, is_authed, mode, netVars>>

\* Any other error ends the cycle, without a look at the time-outs.
RecvFails ==
  /\ yield = "recv"
  /\ yield' = "out"
  /\ UNCHANGED <<callVars, heard, idVars, listVars, is_authed, mode, netVars>>

\* PROCESS_WAIT_CMD: answered nodes go; of the nodes with no time left, those
\* that were never acknowledged are sent again as long as tries are left, and
\* the others go and are told.  A datagram that cannot be written counts as a try.
Overdue == (message_list \ invalid) \cap expired
Again   == {n \in Overdue : retrans_count[n] < max_retry_count /\ n \notin acked}
GivenUp == Overdue \ Again

WaitPass(gone, told, again) ==
  /\ yield = "wait" /\ yield' = "out"
  /\ message_list' = message_list \ gone
  /\ Hear(told, None)
  /\ invalid' = (invalid \cup told) \ gone
  /\ expired' = expired \ (gone \cup again)
  /\ acked' = acked \ gone
  /\ retrans_count' = [n \in Requests |->
                         retrans_count[n] + IF n \in again THEN 1 ELSE 0]
  /\ \E written \in SUBSET again : Server(written)
  /\ UNCHANGED <<callVars, idVars, mode, copies>>

\* Mutants: answered nodes are not removed; an acknowledged request never times
\* out.
WaitKeepsAnswered == WaitPass(GivenUp, GivenUp, Again)
WaitTrustsAck == WaitPass((invalid \cup GivenUp) \ acked, GivenUp \ acked, Again)

Wait == WaitPass(invalid \cup GivenUp, GivenUp, Again)

TimerExpires(n) ==
  /\ n \in message_list \ expired
  /\ expired' = expired \cup {n}
  /\ UNCHANGED <<callVars, heard, idVars, message_list, retrans_count, acked,
                 invalid, modeVars, netVars>>

-----------------------------------------------------------------------------
\* The server repeats a separate response until that is acknowledged.  Loss and
\* delay are a datagram that stays in toDevice; it is never certain to be read.
Respond(n) ==
  /\ n \in owed
  /\ toDevice' = toDevice \cup {Datagram(n, "response")}
  /\ UNCHANGED <<callVars, heard, idVars, listVars, modeVars, copies,
                 owed>>

-----------------------------------------------------------------------------
Call(t) ==
  \/ IdRead(t) \/ IdWriteTokenRead(t) \/ TokenCount(t) \/ Send(t) \/ ListAdd(t)

\* _coap_message_handle.  Anything else is dropped.
OnMessage(m) ==
  OnAck(m) \/ OnPiggy(m) \/ OnResp(m)

Next ==
  \/ ConstructAuth \/ ConstructReturns \/ Destroy
  \/ \E t \in Callers : SendBegin(t) \/ Call(t)
  \/ YieldBegin \/ RecvTimeout \/ RecvFails \/ Wait
  \/ \E m \in toDevice : OnMessage(m)
  \/ \E n \in Requests : TimerExpires(n) \/ Respond(n)

Spec == Init /\ [][Next]_vars

\* Calls go on, the application yields for ever, timers run out, and reading
\* does not fail for ever.  Nothing is asked of the network or the server.
Fairness ==
  /\ WF_vars(ConstructAuth) /\ WF_vars(ConstructReturns)
  /\ \A t \in Callers : SF_vars(Call(t))
  /\ WF_vars(YieldBegin) /\ WF_vars(Wait)
  /\ SF_vars(RecvTimeout \/ \E m \in toDevice : OnMessage(m))
  /\ \A n \in Requests : SF_vars(TimerExpires(n))

FairSpec == Spec /\ Fairness

-----------------------------------------------------------------------------
(***************************************************************************)
(* Properties.                                                             *)
(***************************************************************************)
TypeOK ==
  /\ pc \in [Callers -> {"idle", "id", "token", "count", "send", "add"}]
  /\ req \in [Callers -> Requests \cup {None}]
  /\ made \in Requests
  /\ msg_id \in [Requests -> Ids] /\ token \in [Requests -> 0 .. MaxRequests]
  /\ returned \in [Requests -> {"none", "success", "error"}]
  /\ heard \in [Requests -> Seq(Requests \cup {None})]
  /\ next_msg_id \in Ids /\ message_token \in 0 .. MaxRequests
  /\ message_list \subseteq Requests
  /\ retrans_count \in [Requests -> 0 .. max_retry_count]
  /\ acked \subseteq message_list /\ invalid \subseteq message_list
  /\ expired \subseteq message_list
  /\ is_authed \in {-1, 0, 1}
  /\ mode \in {"construct", "auth", "free", "destroyed"}
  /\ yield \in {"out", "recv", "wait"}
  /\ \A m \in toDevice : m.of \in Requests /\ m.msg # Cleared
  /\ copies \in 0 .. MaxCopies /\ owed \subseteq Requests

\* A request is answered at most once, however often the server repeats its
\* answer, the network doubles it, or a time-out comes close: an answered node
\* stays in the list (coap_client_message.c:126, 149) but only until the pass
\* that ends the cycle.
HeardOnce == \A n \in Requests : Len(heard[n]) <= 1

\* What the handler of request n was told, if it was called with "calls".
Outcome(n, calls) ==
  CASE calls = <<>>     -> "none"
    [] calls = <<n>>    -> "answer"
    [] calls = <<None>> -> "timeout"
    [] OTHER            -> "wrong"

Promise == INSTANCE RequestPromise WITH
  returned <- returned,
  outcome  <- [n \in Requests |-> Outcome(n, heard[n])],
  closed   <- mode = "destroyed"

\* The client implements RequestPromise: a call answers once
\* (coap_client_message.c:379); its handler is called at most once, only if the
\* call succeeded, and with the server's answer to this very request or a
\* time-out, however calls, passes over the list, repeated answers, doubled
\* datagrams and time-outs meet; and never after IOT_COAP_Destroy.
KeepsPromise == Promise!Spec

\* What a handler is told is the server's answer to its own request: ids and
\* tokens tell the nodes of the list apart (coap_client_message.c:107, 130), and
\* both sides read the message that was written, whatever its options.
AnswerIsMine ==
  /\ \A n \in Requests : ToSet(heard[n]) \subseteq {n, None}
  /\ \A m \in toDevice :
       LET request == Message(m.of, msg_id[m.of], token[m.of])
       IN  \E kind \in {"ack", "piggy", "response"} :
             m.msg = Answer(request, kind)

\* Every request whose call succeeded is answered, by the server or by its
\* time-out, unless the client is destroyed: also one that was acknowledged and
\* whose separate response never comes (coap_client_message.c:163).
EveryRequestHeard ==
  \A n \in Requests :
    returned[n] = "success" ~> (heard[n] # <<>> \/ mode = "destroyed")

\* IOT_COAP_Construct comes to an end (coap_client.c:86).
ConstructEnds == <>(mode \in {"free", "destroyed"})
====
