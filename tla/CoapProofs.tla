---------------------------- MODULE CoapProofs -----------------------------
(***************************************************************************)
(* A request is answered at most once, and with its own answer, and the    *)
(* client implements RequestPromise: proved of Coap for any tasks, any     *)
(* number of requests, tries and copies.  All but the first need that no   *)
(* two tasks take an id and a token at the same time, and that both sides  *)
(* read what was written.                                                  *)
(***************************************************************************)
EXTENDS Coap, FiniteSetTheorems, TLAPS

-----------------------------------------------------------------------------
(***************************************************************************)
(* The inductive invariant for answers: who holds a request, and which     *)
(* requests may have been answered.                                        *)
(***************************************************************************)
CallType ==
  /\ pc \in [Callers -> {"idle", "id", "token", "count", "send", "add"}]
  /\ req \in [Callers -> 0 .. MaxRequests]
  /\ made \in Requests
  /\ returned \in [Requests -> {"none", "success", "error"}]

IdType ==
  /\ msg_id \in [Requests -> Ids] /\ token \in [Requests -> Nat]
  /\ next_msg_id \in Ids /\ message_token \in Nat

ListType ==
  /\ message_list \subseteq Requests
  /\ acked \subseteq message_list /\ invalid \subseteq message_list
  /\ expired \subseteq message_list
  /\ retrans_count \in [Requests -> 0 .. max_retry_count]

HeardType == heard \in [Requests -> Seq(Requests \cup {None})]

ModeType ==
  /\ is_authed \in {-1, 0, 1}
  /\ mode \in {"construct", "auth", "free", "destroyed"}
  /\ yield \in {"out", "recv", "wait"}

NetType ==
  /\ \A m \in toDevice : m.of \in Requests
  /\ copies \in 0 .. MaxCopies /\ owed \subseteq Requests

\* A call that is under way has a request, and no two have the same.
CallInv ==
  /\ \A t \in Callers : req[t] # None <=> pc[t] # "idle"
  /\ \A t \in Callers : req[t] <= made
  /\ \A t, u \in Callers : req[t] = req[u] /\ req[t] # None => t = u

\* What is in the list or was answered has been made, and its call is over.
FreshInv ==
  \A n \in Requests :
    heard[n] # <<>> \/ n \in message_list =>
      n <= made /\ \A t \in Callers : req[t] # n

\* A node that was answered is marked, and is marked only until the pass that
\* ends the cycle.
HeardInv ==
  /\ \A n \in message_list : heard[n] # <<>> => n \in invalid
  /\ invalid # {} => yield = "wait"

IInv ==
  /\ CallType /\ IdType /\ ListType /\ HeardType /\ ModeType /\ NetType
  /\ CallInv /\ FreshInv /\ HeardInv /\ HeardOnce

-----------------------------------------------------------------------------
LEMMA InitInv == Init => IInv
<1> SUFFICES ASSUME Init
             PROVE  IInv
  OBVIOUS
<1> USE CoapAssumption
<1>1. CallType
  BY DEF Init, CallType, Requests, Auth, None
<1>2. IdType
  BY DEF Init, IdType, Ids
<1>3. ListType /\ HeardType
  BY DEF Init, ListType, HeardType, Requests
<1>4. ModeType /\ NetType
  BY DEF Init, ModeType, NetType
<1>5. CallInv
  BY DEF Init, CallInv, Callers, Auth, None
<1>6. FreshInv /\ HeardInv /\ HeardOnce
  BY DEF Init, FreshInv, HeardInv, HeardOnce
<1> QED
  BY <1>1, <1>2, <1>3, <1>4, <1>5, <1>6 DEF IInv

\* A handler is called for nodes that were not answered before.
LEMMA HearOnce ==
  ASSUME IInv, NEW S \in SUBSET (message_list \ invalid),
         NEW from \in Requests \cup {None}, Hear(S, from)
  PROVE  /\ HeardType'
         /\ HeardOnce'
         /\ \A n \in Requests : heard'[n] # <<>> => heard[n] # <<>> \/ n \in S
         /\ \A n \in S : heard'[n] = <<from>>
         /\ \A n \in Requests \ S : heard'[n] = heard[n]
         /\ is_authed' \in {-1, 0, 1}
<1>1. /\ heard \in [Requests -> Seq(Requests \cup {None})]
      /\ heard' = [n \in Requests |->
                     IF n \in S THEN Append(heard[n], from) ELSE heard[n]]
  BY DEF IInv, HeardType, Hear
<1>2. \A n \in S : n \in Requests /\ heard[n] = <<>>
  BY DEF IInv, HeardInv, ListType
<1>3. ASSUME NEW n \in S
      PROVE  heard'[n] = <<from>> /\ Len(heard'[n]) <= 1
  <2>1. heard'[n] = Append(<<>>, from)
    BY <1>1, <1>2
  <2>2. Append(<<>>, from) = <<from>> /\ Len(<<from>>) = 1
    OBVIOUS
  <2>3. heard'[n] = <<from>>
    BY <2>1, <2>2
  <2> QED
    BY <2>2, <2>3
<1>4. \A n \in Requests \ S : heard'[n] = heard[n]
  BY <1>1
<1>5. HeardType'
  BY <1>1, <1>2 DEF HeardType
<1>6. HeardOnce'
  <2>1. \A n \in Requests : Len(heard[n]) <= 1
    BY DEF IInv, HeardOnce
  <2>2. ASSUME NEW n \in Requests
        PROVE  Len(heard'[n]) <= 1
    <3>1. CASE n \in S
      BY <1>3, <3>1
    <3>2. CASE n \notin S
      BY <1>4, <2>1, <3>2
    <3> QED
      BY <3>1, <3>2
  <2> QED
    BY <2>2 DEF HeardOnce
<1>7. is_authed' \in {-1, 0, 1}
  <2>1. is_authed' \in {0, 1} \/ is_authed' = 0 \/ is_authed' = is_authed
    BY DEF Hear
  <2> QED
    BY <2>1 DEF IInv, ModeType
<1> QED
  BY <1>3, <1>4, <1>5, <1>6, <1>7

\* The request of a call that is under way: not listed and not answered yet.
LEMMA CallerRequest ==
  ASSUME IInv, NEW t \in Callers, pc[t] # "idle"
  PROVE  /\ req[t] \in Requests
         /\ req[t] \notin message_list /\ heard[req[t]] = <<>>
<1>1. req[t] # None /\ req[t] \in 0 .. MaxRequests
  BY DEF IInv, CallInv, CallType
<1>2. req[t] \in Requests
  BY <1>1, CoapAssumption DEF Requests, None
<1> QED
  BY <1>2 DEF IInv, FreshInv

\* A call that is over has no request.
LEMMA CallOver ==
  ASSUME IInv, NEW t \in Callers, pc' = [pc EXCEPT ![t] = "idle"],
         req' = [req EXCEPT ![t] = None], made' = made
  PROVE  /\ CallInv'
         /\ \A u \in Callers : req'[u] = None \/ (u # t /\ req'[u] = req[u])
<1>1. pc'[t] = "idle" /\ req'[t] = None
  BY DEF IInv, CallType
<1>2. \A u \in Callers \ {t} : pc'[u] = pc[u] /\ req'[u] = req[u]
  BY DEF IInv, CallType
<1>3. \A u \in Callers : req'[u] # None <=> pc'[u] # "idle"
  BY <1>1, <1>2 DEF IInv, CallInv
<1>4. \A u \in Callers : req'[u] <= made'
  BY <1>1, <1>2 DEF IInv, CallInv, CallType, Requests, None
<1>5. \A u, v \in Callers : req'[u] = req'[v] /\ req'[u] # None => u = v
  BY <1>1, <1>2 DEF IInv, CallInv
<1>6. CallInv'
  BY <1>3, <1>4, <1>5 DEF CallInv
<1>7. ASSUME NEW u \in Callers
      PROVE  req'[u] = None \/ (u # t /\ req'[u] = req[u])
  <2>1. CASE u = t
    BY <1>1, <2>1
  <2>2. CASE u # t
    BY <1>2, <2>2
  <2> QED
    BY <2>1, <2>2
<1> QED
  BY <1>6, <1>7

\* The server answers requests with datagrams of theirs.
LEMMA ServerType ==
  ASSUME IInv, NEW S \in SUBSET Requests, Server(S)
  PROVE  (\A m \in toDevice' : m.of \in Requests) /\ owed' \subseteq Requests
<1>1. \A n, kind : Datagram(n, kind).of = n
  BY DEF Datagram
<1>2. PICK later \in SUBSET S :
        /\ owed' = owed \cup later
        /\ toDevice' = toDevice \cup
             {Datagram(n, IF n \in later THEN "ack" ELSE "piggy") : n \in S}
  BY DEF Server
<1>3. ASSUME NEW m \in toDevice'
      PROVE  m.of \in Requests
  BY <1>1, <1>2 DEF IInv, NetType
<1> QED
  BY <1>2, <1>3 DEF IInv, NetType

\* IOT_COAP_Construct and IOT_COAP_Destroy.
LEMMA ConstructPreserves ==
  ASSUME IInv, ConstructAuth \/ ConstructReturns \/ Destroy
  PROVE  IInv'
<1> USE CoapAssumption DEF callVars, idVars, listVars, modeVars, netVars, IInv
<1>1. CASE ConstructAuth
  <2>1. CallType' /\ IdType'
    BY <1>1 DEF ConstructAuth, CallType, IdType
  <2>2. ListType' /\ HeardType'
    BY <1>1 DEF ConstructAuth, ListType, HeardType
  <2>3. ModeType' /\ NetType'
    BY <1>1 DEF ConstructAuth, ModeType, NetType
  <2>4. CallInv' /\ FreshInv'
    BY <1>1 DEF ConstructAuth, CallType, CallInv, FreshInv
  <2>5. HeardInv' /\ HeardOnce'
    BY <1>1 DEF ConstructAuth, FreshInv, HeardInv, HeardOnce, CallInv
  <2> QED
    BY <2>1, <2>2, <2>3, <2>4, <2>5
<1>2. CASE ConstructReturns
  <2>1. CallType' /\ IdType'
    BY <1>2 DEF ConstructReturns, Discard, CallType, IdType
  <2>2. ListType' /\ HeardType'
    BY <1>2 DEF ConstructReturns, Discard, ListType, HeardType
  <2>3. ModeType' /\ NetType'
    BY <1>2 DEF ConstructReturns, Discard, ModeType, NetType
  <2>4. CallInv' /\ FreshInv'
    BY <1>2 DEF ConstructReturns, Discard, CallType, CallInv, FreshInv
  <2>5. HeardInv' /\ HeardOnce'
    BY <1>2
    DEF ConstructReturns, Discard, FreshInv, HeardInv, HeardOnce, CallInv
  <2> QED
    BY <2>1, <2>2, <2>3, <2>4, <2>5
<1>3. CASE Destroy
  <2>1. CallType' /\ IdType'
    BY <1>3 DEF Destroy, Discard, CallType, IdType
  <2>2. ListType' /\ HeardType'
    BY <1>3 DEF Destroy, Discard, ListType, HeardType
  <2>3. ModeType' /\ NetType'
    BY <1>3 DEF Destroy, Discard, ModeType, NetType
  <2>4. CallInv' /\ FreshInv'
    BY <1>3 DEF Destroy, Discard, CallType, CallInv, FreshInv
  <2>5. HeardInv' /\ HeardOnce'
    BY <1>3 DEF Destroy, Discard, FreshInv, HeardInv, HeardOnce, CallInv
  <2> QED
    BY <2>1, <2>2, <2>3, <2>4, <2>5
<1> QED
  BY <1>1, <1>2, <1>3

\* The turns of yield in which nothing is heard.
LEMMA TurnPreserves ==
  ASSUME IInv, YieldBegin \/ RecvTimeout \/ RecvFails
  PROVE  IInv'
<1> USE CoapAssumption DEF callVars, idVars, listVars, modeVars, netVars, IInv
<1>1. CASE YieldBegin
  <2>1. CallType' /\ IdType'
    BY <1>1 DEF YieldBegin, CallType, IdType
  <2>2. ListType' /\ HeardType'
    BY <1>1 DEF YieldBegin, ListType, HeardType
  <2>3. ModeType' /\ NetType'
    BY <1>1 DEF YieldBegin, ModeType, NetType
  <2>4. CallInv' /\ FreshInv'
    BY <1>1 DEF YieldBegin, CallType, CallInv, FreshInv
  <2>5. HeardInv' /\ HeardOnce'
    BY <1>1 DEF YieldBegin, FreshInv, HeardInv, HeardOnce, CallInv
  <2> QED
    BY <2>1, <2>2, <2>3, <2>4, <2>5
<1>2. CASE RecvTimeout
  <2>1. CallType' /\ IdType'
    BY <1>2 DEF RecvTimeout, CallType, IdType
  <2>2. ListType' /\ HeardType'
    BY <1>2 DEF RecvTimeout, ListType, HeardType
  <2>3. ModeType' /\ NetType'
    BY <1>2 DEF RecvTimeout, ModeType, NetType
  <2>4. CallInv' /\ FreshInv'
    BY <1>2 DEF RecvTimeout, CallType, CallInv, FreshInv
  <2>5. HeardInv' /\ HeardOnce'
    BY <1>2 DEF RecvTimeout, FreshInv, HeardInv, HeardOnce, CallInv
  <2> QED
    BY <2>1, <2>2, <2>3, <2>4, <2>5
<1>3. CASE RecvFails
  <2>1. CallType' /\ IdType'
    BY <1>3 DEF RecvFails, CallType, IdType
  <2>2. ListType' /\ HeardType'
    BY <1>3 DEF RecvFails, ListType, HeardType
  <2>3. ModeType' /\ NetType'
    BY <1>3 DEF RecvFails, ModeType, NetType
  <2>4. CallInv' /\ FreshInv'
    BY <1>3 DEF RecvFails, CallType, CallInv, FreshInv
  <2>5. HeardInv' /\ HeardOnce'
    BY <1>3 DEF RecvFails, FreshInv, HeardInv, HeardOnce, CallInv
  <2> QED
    BY <2>1, <2>2, <2>3, <2>4, <2>5
<1> QED
  BY <1>1, <1>2, <1>3

\* A request is begun, and takes its id and its token.
LEMMA NumberPreserves ==
  ASSUME IInv, NEW t \in Callers,
         \/ SendBegin(t) \/ IdRead(t) \/ IdWriteTokenRead(t) \/ TokenCount(t)
  PROVE  IInv'
<1> USE CoapAssumption DEF callVars, idVars, listVars, modeVars, netVars, IInv
<1>1. CASE SendBegin(t)
  <2>1. CallType' /\ IdType'
    BY <1>1 DEF SendBegin, Requests, None, CallType, IdType
  <2>2. ListType' /\ HeardType'
    BY <1>1 DEF SendBegin, Requests, None, ListType, HeardType
  <2>3. ModeType' /\ NetType'
    BY <1>1 DEF SendBegin, Requests, None, ModeType, NetType
  <2>4. CallInv' /\ FreshInv'
    BY <1>1 DEF SendBegin, Requests, None, CallType, CallInv, FreshInv
  <2>5. HeardInv' /\ HeardOnce'
    BY <1>1
    DEF SendBegin, Requests, None, FreshInv, HeardInv, HeardOnce, CallInv
  <2> QED
    BY <2>1, <2>2, <2>3, <2>4, <2>5
<1>2. CASE IdRead(t)
  <2>1. CallType' /\ IdType'
    <3>1. req[t] \in Requests
      BY <1>2, CallerRequest DEF IdRead
    <3> QED
      BY <1>2, <3>1 DEF IdRead, Ids, CallType, IdType
  <2>2. ListType' /\ HeardType'
    BY <1>2 DEF IdRead, Ids, ListType, HeardType
  <2>3. ModeType' /\ NetType'
    BY <1>2 DEF IdRead, Ids, ModeType, NetType
  <2>4. CallInv' /\ FreshInv'
    BY <1>2 DEF IdRead, Ids, CallType, CallInv, FreshInv
  <2>5. HeardInv' /\ HeardOnce'
    BY <1>2 DEF IdRead, Ids, FreshInv, HeardInv, HeardOnce, CallInv
  <2> QED
    BY <2>1, <2>2, <2>3, <2>4, <2>5
<1>3. CASE IdWriteTokenRead(t)
  <2>1. CallType' /\ IdType'
    <3>1. req[t] \in Requests
      BY <1>3, CallerRequest DEF IdWriteTokenRead
    <3> QED
      BY <1>3, <3>1 DEF IdWriteTokenRead, CallType, IdType
  <2>2. ListType' /\ HeardType'
    BY <1>3 DEF IdWriteTokenRead, ListType, HeardType
  <2>3. ModeType' /\ NetType'
    BY <1>3 DEF IdWriteTokenRead, ModeType, NetType
  <2>4. CallInv' /\ FreshInv'
    BY <1>3 DEF IdWriteTokenRead, CallType, CallInv, FreshInv
  <2>5. HeardInv' /\ HeardOnce'
    BY <1>3 DEF IdWriteTokenRead, FreshInv, HeardInv, HeardOnce, CallInv
  <2> QED
    BY <2>1, <2>2, <2>3, <2>4, <2>5
<1>4. CASE TokenCount(t)
  <2>1. CallType' /\ IdType'
    <3>1. req[t] \in Requests
      BY <1>4, CallerRequest DEF TokenCount
    <3> QED
      BY <1>4, <3>1 DEF TokenCount, CallType, IdType
  <2>2. ListType' /\ HeardType'
    BY <1>4 DEF TokenCount, ListType, HeardType
  <2>3. ModeType' /\ NetType'
    BY <1>4 DEF TokenCount, ModeType, NetType
  <2>4. CallInv' /\ FreshInv'
    BY <1>4 DEF TokenCount, CallType, CallInv, FreshInv
  <2>5. HeardInv' /\ HeardOnce'
    BY <1>4 DEF TokenCount, FreshInv, HeardInv, HeardOnce, CallInv
  <2> QED
    BY <2>1, <2>2, <2>3, <2>4, <2>5
<1> QED
  BY <1>1, <1>2, <1>3, <1>4

\* The datagram is written, or its write fails and the call is over.
LEMMA SendPreserves ==
  ASSUME IInv, NEW t \in Callers, Send(t)
  PROVE  IInv'
<1> USE CoapAssumption DEF callVars, idVars, listVars, modeVars, netVars, IInv
<1>1. /\ pc[t] = "send" /\ req[t] \in Requests /\ {req[t]} \in SUBSET Requests
      /\ req[t] \notin message_list /\ heard[req[t]] = <<>>
  BY CallerRequest DEF Send
<1>2. CallType' /\ IdType'
  <2>1. returned' \in [Requests -> {"none", "success", "error"}]
    BY <1>1 DEF Send, Return, CallType
  <2>2. pc' \in [Callers -> {"idle", "id", "token", "count", "send", "add"}]
    BY DEF Send, Return, CallType
  <2>3. req' \in [Callers -> 0 .. MaxRequests]
    BY DEF Send, Return, None, CallType
  <2> QED
    BY <2>1, <2>2, <2>3 DEF Send, CallType, IdType
<1>3. ListType' /\ HeardType' /\ HeardInv' /\ HeardOnce'
  BY DEF Send, ListType, HeardType, HeardInv, HeardOnce
<1>4. ModeType' /\ NetType'
  <2>1. (\A m \in toDevice' : m.of \in Requests) /\ owed' \subseteq Requests
    BY <1>1, ServerType DEF Send, NetType
  <2> QED
    BY <2>1 DEF Send, ModeType, NetType
<1>5. CallInv' /\ FreshInv'
  <2>1. CASE Return(t, "error")
    <3>1. /\ CallInv'
          /\ \A u \in Callers : req'[u] = None \/ (u # t /\ req'[u] = req[u])
      BY <2>1, CallOver DEF Send, Return
    <3>2. \A n \in Requests : n # None
      BY DEF Requests, None
    <3> QED
      BY <3>1, <3>2 DEF Send, FreshInv
  <2>2. CASE pc' = [pc EXCEPT ![t] = "add"] /\ UNCHANGED req
    BY <1>1, <2>2 DEF Send, None, CallType, CallInv, FreshInv
  <2> QED
    BY <2>1, <2>2 DEF Send
<1> QED
  BY <1>2, <1>3, <1>4, <1>5

\* Its node joins the list, or cannot, and the call is over.
LEMMA AddPreserves ==
  ASSUME IInv, NEW t \in Callers, ListAdd(t)
  PROVE  IInv'
<1> USE CoapAssumption DEF callVars, idVars, listVars, modeVars, netVars, IInv
<1> DEFINE r == req[t]
<1>1. /\ pc[t] = "add" /\ r \in Requests /\ r <= made
      /\ r \notin message_list /\ heard[r] = <<>>
  BY CallerRequest DEF ListAdd, CallInv
<1>2. /\ pc' = [pc EXCEPT ![t] = "idle"] /\ req' = [req EXCEPT ![t] = None]
      /\ message_list' = message_list \/ message_list' = message_list \cup {r}
      /\ \E rc \in {"error", "success"} : returned' = [returned EXCEPT ![r] = rc]
  BY DEF ListAdd, Return
<1> HIDE DEF r
<1>3. CallType' /\ IdType'
  BY <1>1, <1>2 DEF ListAdd, None, CallType, IdType
<1>4. ListType' /\ HeardType'
  BY <1>1, <1>2 DEF ListAdd, ListType, HeardType
<1>5. ModeType' /\ NetType'
  BY DEF ListAdd, ModeType, NetType
<1>6. /\ CallInv'
      /\ \A u \in Callers : req'[u] = None \/ (u # t /\ req'[u] = req[u])
  BY <1>2, CallOver DEF ListAdd
<1>7. FreshInv'
  <2>1. \A u \in Callers : req'[u] # r
    BY <1>1, <1>6 DEF r, CallInv, Requests, None
  <2>2. \A n \in Requests : \A u \in Callers : req'[u] = n => req[u] = n
    BY <1>6 DEF Requests, None
  <2>3. made' = made /\ heard' = heard
    BY DEF ListAdd
  <2>4. ASSUME NEW n \in Requests, heard'[n] # <<>> \/ n \in message_list'
        PROVE  n <= made' /\ \A u \in Callers : req'[u] # n
    BY <1>1, <1>2, <2>1, <2>2, <2>3, <2>4 DEF FreshInv
  <2> QED
    BY <2>4 DEF FreshInv
<1>8. HeardInv' /\ HeardOnce'
  BY <1>1, <1>2 DEF ListAdd, HeardInv, HeardOnce
<1> QED
  BY <1>3, <1>4, <1>5, <1>6, <1>7, <1>8

\* A message is read: an empty acknowledgement, an answer in one, or a separate
\* answer.  Before it is, no node of the list is marked.
LEMMA MessagePreserves ==
  ASSUME IInv, NEW m \in toDevice, OnMessage(m)
  PROVE  IInv'
<1> USE CoapAssumption DEF callVars, idVars, listVars, modeVars, netVars, IInv
<1>1. CASE OnAck(m)
  <2>1. CallType' /\ IdType'
    BY <1>1 DEF OnAck, Receive, CallType, IdType
  <2>2. ListType' /\ HeardType'
    BY <1>1 DEF OnAck, Receive, ListType, HeardType
  <2>3. ModeType' /\ NetType'
    BY <1>1 DEF OnAck, Receive, ModeType, NetType
  <2>4. CallInv' /\ FreshInv'
    BY <1>1 DEF OnAck, Receive, CallType, CallInv, FreshInv
  <2>5. HeardInv' /\ HeardOnce'
    BY <1>1 DEF OnAck, Receive, FreshInv, HeardInv, HeardOnce, CallInv
  <2> QED
    BY <2>1, <2>2, <2>3, <2>4, <2>5
<1>2. ASSUME NEW mine \in SUBSET message_list, Hear(mine, m.of), Receive(m),
             invalid' = invalid \cup mine,
             acked' \in {acked, acked \cup mine}, owed' \subseteq owed,
             UNCHANGED <<callVars, idVars, message_list, retrans_count, expired,
                         mode>>
      PROVE  IInv'
  <2>1. invalid = {} /\ m.of \in Requests
    BY <1>2 DEF Receive, HeardInv, ModeType, NetType
  <2>2. /\ HeardType' /\ HeardOnce' /\ is_authed' \in {-1, 0, 1}
        /\ \A n \in Requests : heard'[n] # <<>> => heard[n] # <<>> \/ n \in mine
    BY <1>2, <2>1, HearOnce
  <2>3. CallType' /\ IdType'
    BY <1>2 DEF CallType, IdType
  <2>4. ListType'
    BY <1>2 DEF ListType
  <2>5. ModeType' /\ NetType'
    BY <1>2, <2>2 DEF Receive, ModeType, NetType
  <2>6. CallInv' /\ FreshInv'
    BY <1>2, <2>2 DEF CallInv, FreshInv
  <2>7. HeardInv'
    BY <1>2, <2>2 DEF Receive, HeardInv, ListType
  <2> QED
    BY <2>2, <2>3, <2>4, <2>5, <2>6, <2>7
<1>3. CASE OnPiggy(m)
  BY <1>2, <1>3 DEF OnPiggy
<1>4. CASE OnResp(m)
  <2>1. owed' \subseteq owed
    BY <1>4 DEF OnResp, SendAck
  <2> QED
    BY <1>2, <1>4, <2>1 DEF OnResp
<1> QED
  BY <1>1, <1>3, <1>4 DEF OnMessage

\* The pass that ends the cycle: marked nodes go, and those with no try left.
LEMMA WaitPreserves ==
  ASSUME IInv, Wait
  PROVE  IInv'
<1> USE CoapAssumption DEF callVars, idVars, listVars, modeVars, netVars, IInv
<1>1. /\ GivenUp \in SUBSET (message_list \ invalid)
      /\ Again \in SUBSET Requests
      /\ \A n \in Again : retrans_count[n] < max_retry_count
  BY DEF GivenUp, Again, Overdue, ListType
<1>2. WaitPass(invalid \cup GivenUp, GivenUp, Again)
  BY DEF Wait
<1> DEFINE gone == invalid \cup GivenUp
<1>3. /\ HeardType' /\ HeardOnce' /\ is_authed' \in {-1, 0, 1}
      /\ \A n \in Requests : heard'[n] # <<>> => heard[n] # <<>> \/ n \in GivenUp
  BY <1>1, <1>2, HearOnce DEF WaitPass
<1>4. /\ message_list' = message_list \ gone
      /\ invalid' = {} /\ expired' \subseteq expired \ gone
      /\ acked' = acked \ gone /\ yield' = "out"
  BY <1>1, <1>2 DEF WaitPass
<1>5. CallType' /\ IdType'
  BY <1>2 DEF WaitPass, CallType, IdType
<1>6. ListType'
  <2>1. retrans_count' \in [Requests -> 0 .. max_retry_count]
    BY <1>1, <1>2 DEF WaitPass, ListType
  <2> QED
    BY <1>4, <2>1 DEF ListType
<1>7. ModeType' /\ NetType'
  <2>1. PICK written \in SUBSET Again : Server(written)
    BY <1>2 DEF WaitPass
  <2>2. (\A m \in toDevice' : m.of \in Requests) /\ owed' \subseteq Requests
    BY <1>1, <2>1, ServerType
  <2> QED
    BY <1>2, <1>3, <1>4, <2>2 DEF WaitPass, ModeType, NetType
<1>8. CallInv' /\ FreshInv'
  BY <1>1, <1>2, <1>3, <1>4 DEF WaitPass, CallInv, FreshInv
<1>9. HeardInv'
  BY <1>1, <1>3, <1>4 DEF HeardInv, ListType
<1> QED
  BY <1>3, <1>5, <1>6, <1>7, <1>8, <1>9

\* A timer runs out; the server repeats an answer.
LEMMA OutsidePreserves ==
  ASSUME IInv, \E n \in Requests : TimerExpires(n) \/ Respond(n)
  PROVE  IInv'
<1> USE CoapAssumption DEF callVars, idVars, listVars, modeVars, netVars, IInv
<1>1. ASSUME NEW n \in Requests, TimerExpires(n)
      PROVE  IInv'
  <2>1. CallType' /\ IdType'
    BY <1>1 DEF TimerExpires, CallType, IdType
  <2>2. ListType' /\ HeardType'
    BY <1>1 DEF TimerExpires, ListType, HeardType
  <2>3. ModeType' /\ NetType'
    BY <1>1 DEF TimerExpires, ModeType, NetType
  <2>4. CallInv' /\ FreshInv'
    BY <1>1 DEF TimerExpires, CallType, CallInv, FreshInv
  <2>5. HeardInv' /\ HeardOnce'
    BY <1>1 DEF TimerExpires, FreshInv, HeardInv, HeardOnce, CallInv
  <2> QED
    BY <2>1, <2>2, <2>3, <2>4, <2>5
<1>2. ASSUME NEW n \in Requests, Respond(n)
      PROVE  IInv'
  <2>1. CallType' /\ IdType'
    BY <1>2 DEF Respond, CallType, IdType
  <2>2. ListType' /\ HeardType'
    BY <1>2 DEF Respond, ListType, HeardType
  <2>3. ModeType' /\ NetType'
    <3>1. Datagram(n, "response").of = n
      BY DEF Datagram
    <3> QED
      BY <1>2, <3>1 DEF Respond, ModeType, NetType
  <2>4. CallInv' /\ FreshInv'
    BY <1>2 DEF Respond, CallType, CallInv, FreshInv
  <2>5. HeardInv' /\ HeardOnce'
    BY <1>2 DEF Respond, FreshInv, HeardInv, HeardOnce, CallInv
  <2> QED
    BY <2>1, <2>2, <2>3, <2>4, <2>5
<1> QED
  BY <1>1, <1>2

LEMMA NextInv == IInv /\ [Next]_vars => IInv'
<1> SUFFICES ASSUME IInv, [Next]_vars
             PROVE  IInv'
  OBVIOUS
<1>1. CASE Next
  <2>1. ASSUME NEW t \in Callers, SendBegin(t) \/ Call(t)
        PROVE  IInv'
    BY <2>1, NumberPreserves, SendPreserves, AddPreserves DEF Call
  <2> QED
    BY <1>1, <2>1, ConstructPreserves, TurnPreserves, MessagePreserves,
       WaitPreserves, OutsidePreserves
    DEF Next
<1>2. CASE UNCHANGED vars
  <2>1. CallType' /\ IdType' /\ CallInv'
    BY <1>2 DEF vars, callVars, idVars, IInv, CallType, IdType, CallInv
  <2>2. ListType' /\ HeardType' /\ HeardInv' /\ HeardOnce' /\ FreshInv'
    BY <1>2
    DEF vars, callVars, listVars, modeVars, IInv, ListType, HeardType, HeardInv,
        HeardOnce, FreshInv
  <2>3. ModeType' /\ NetType'
    BY <1>2 DEF vars, modeVars, netVars, IInv, ModeType, NetType
  <2> QED
    BY <2>1, <2>2, <2>3 DEF IInv
<1> QED
  BY <1>1, <1>2

-----------------------------------------------------------------------------
(***************************************************************************)
(* What tells requests apart: with one sender at a time the n-th request   *)
(* gets the n-th id and the n-th token.                                    *)
(***************************************************************************)

\* The values of message_token, an unsigned int of 32 bits.
Counter == {v \in Nat : v \div 16777216 < 256}

\* The token's bytes tell the values of the counter apart.
LEMMA TokensDiffer ==
  ASSUME NEW u \in Counter, NEW v \in Counter,
         get_coap_message_token(u) = get_coap_message_token(v)
  PROVE  u = v
<1>1. /\ u % 256 = v % 256
      /\ (u \div 256) % 256 = (v \div 256) % 256
      /\ (u \div 65536) % 256 = (v \div 65536) % 256
      /\ (u \div 16777216) % 256 = (v \div 16777216) % 256
  BY SMT DEF get_coap_message_token
<1>2. /\ u \in Nat /\ v \in Nat
      /\ u \div 16777216 \in 0 .. 255 /\ v \div 16777216 \in 0 .. 255
  BY SMT DEF Counter
<1>3. u \div 16777216 = v \div 16777216
  BY <1>1, <1>2, SMT
<1>4. u \div 65536 = v \div 65536
  BY <1>1, <1>2, <1>3, SMT
<1>5. u \div 256 = v \div 256
  BY <1>1, <1>2, <1>4, SMT
<1> QED
  BY <1>1, <1>2, <1>5, SMT

Kinds == {"ack", "piggy", "response"}

\* What is assumed besides WireFaithful: no two tasks take ids and tokens at the
\* same time, and there are fewer requests than tokens.
OneAtATime == OneSender = TRUE

FewRequests == \A n \in Requests : n - 1 \in Counter

IdOf(n) ==
  IF n = 0 THEN MAX_MSG_ID - 1 ELSE IF n = 1 THEN MAX_MSG_ID ELSE n - 1

\* The requests that have their id and their token.
Numbered == {n \in 1 .. made : \A t \in Callers : Numbering(t) => req[t] # n}

\* At most one call is being numbered: the last that was begun.
TurnInv ==
  /\ \A t, u \in Callers : Numbering(t) /\ Numbering(u) => t = u
  /\ \A t \in Callers : Numbering(t) => req[t] = made

CounterInv ==
  /\ next_msg_id = IF \E t \in Callers : pc[t] \in {"id", "token"}
                   THEN IdOf(made - 1) ELSE IdOf(made)
  /\ message_token = IF \E t \in Callers : Numbering(t) THEN made - 1 ELSE made

NumberInv ==
  /\ \A n \in Numbered : msg_id[n] = IdOf(n) /\ token[n] = n - 1
  /\ \A t \in Callers : pc[t] \in {"token", "count"} => msg_id[made] = IdOf(made)
  /\ \A t \in Callers : pc[t] = "count" => token[made] = made - 1

\* What is under way answers a request that was sent, and carries its numbers.
AnswerInv ==
  /\ owed \subseteq Numbered
  /\ \A m \in toDevice :
       /\ m.of \in Numbered
       /\ \E kind \in Kinds : m.msg = AtDevice[m.of, IdOf(m.of), m.of - 1, kind]

MineInv == \A n \in Requests : ToSet(heard[n]) \subseteq {n, None}

OwnInv ==
  /\ TurnInv /\ CounterInv /\ NumberInv
  /\ message_list \subseteq Numbered /\ AnswerInv /\ MineInv

-----------------------------------------------------------------------------
LEMMA NumberedIsRequest ==
  ASSUME IInv
  PROVE  Numbered \subseteq Requests
BY CoapAssumption DEF IInv, CallType, Requests, Numbered

LEMMA IdsDiffer ==
  ASSUME NEW m \in Requests, NEW n \in Requests, IdOf(m) = IdOf(n)
  PROVE  m = n
BY CoapAssumption DEF IdOf, Requests

LEMMA IdsAreIds ==
  ASSUME NEW n \in Requests
  PROVE  IdOf(n) \in Ids /\ n - 1 \in 0 .. MaxRequests
BY CoapAssumption DEF IdOf, Requests, Ids

LEMMA OwnInit == Init => OwnInv
<1> SUFFICES ASSUME Init
             PROVE  OwnInv
  OBVIOUS
<1> USE CoapAssumption
<1>1. /\ \A t \in Callers : Numbering(t) <=> t = Yielder
      /\ Yielder \in Callers /\ pc[Yielder] = "id" /\ req[Yielder] = 1
      /\ \A t \in Callers : pc[t] # "token" /\ pc[t] # "count"
  BY DEF Init, Callers, Numbering, Auth
<1>2. TurnInv
  BY <1>1 DEF Init, TurnInv
<1>3. CounterInv
  BY <1>1 DEF Init, CounterInv, IdOf
<1>4. Numbered = {}
  BY <1>1 DEF Init, Numbered
<1>5. NumberInv
  BY <1>1, <1>4 DEF NumberInv
<1>6. message_list \subseteq Numbered /\ AnswerInv
  BY DEF Init, AnswerInv
<1>7. MineInv
  BY DEF Init, MineInv, ToSet
<1> QED
  BY <1>2, <1>3, <1>5, <1>6, <1>7 DEF OwnInv

\* A step in which no call is being numbered, other than those that were.
LEMMA NumbersKept ==
  ASSUME IInv, OwnInv, UNCHANGED <<made, msg_id, token, idVars>>,
         \A t \in Callers :
           \/ pc'[t] = pc[t] /\ req'[t] = req[t]
           \/ ~Numbering(t) /\ pc'[t] \notin {"id", "token", "count"}
  PROVE  Numbered' = Numbered /\ TurnInv' /\ CounterInv' /\ NumberInv'
<1>1. \A t \in Callers :
        /\ Numbering(t)' <=> Numbering(t)
        /\ pc'[t] \in {"id", "token"} <=> pc[t] \in {"id", "token"}
        /\ pc'[t] \in {"token", "count"} <=> pc[t] \in {"token", "count"}
        /\ pc'[t] = "count" <=> pc[t] = "count"
        /\ Numbering(t) => req'[t] = req[t]
  BY DEF Numbering
<1>2. Numbered' = Numbered
  BY <1>1 DEF Numbered
<1>3. TurnInv'
  BY <1>1 DEF OwnInv, TurnInv
<1>4. CounterInv'
  BY <1>1 DEF OwnInv, CounterInv, idVars, IdOf
<1>5. NumberInv'
  BY <1>1, <1>2 DEF OwnInv, NumberInv, IdOf
<1> QED
  BY <1>2, <1>3, <1>4, <1>5

\* The calls that number a request leave the rest alone.
LEMMA NumberingOwn ==
  ASSUME IInv, OwnInv, OneAtATime, NEW t \in Callers,
         \/ SendBegin(t) \/ IdRead(t) \/ IdWriteTokenRead(t) \/ TokenCount(t)
  PROVE  OwnInv'
<1>1. Numbered \subseteq Requests /\ made \in Requests
  BY NumberedIsRequest DEF IInv, CallType
<1>2. /\ pc \in [Callers -> {"idle", "id", "token", "count", "send", "add"}]
      /\ req \in [Callers -> 0 .. MaxRequests]
      /\ msg_id \in [Requests -> Ids] /\ token \in [Requests -> Nat]
      /\ MaxRequests \in Nat /\ MAX_MSG_ID \in Nat /\ MAX_MSG_ID >= MaxRequests
      /\ \A n \in Requests : n \in Nat /\ n >= 1 /\ n <= MaxRequests
  BY CoapAssumption DEF IInv, CallType, IdType, Requests
<1>3. SUFFICES /\ Numbered \subseteq Numbered'
               /\ TurnInv' /\ CounterInv' /\ NumberInv'
  <2>1. UNCHANGED <<message_list, owed, toDevice, heard>>
    BY DEF SendBegin, IdRead, IdWriteTokenRead, TokenCount, listVars, netVars
  <2>2. message_list' \subseteq Numbered' /\ AnswerInv'
    BY <1>3, <2>1 DEF OwnInv, AnswerInv, IdOf
  <2>3. MineInv'
    BY <2>1 DEF OwnInv, MineInv
  <2> QED
    BY <1>3, <2>2, <2>3 DEF OwnInv
<1>4. CASE SendBegin(t)
  <2>1. /\ made' = made + 1 /\ pc' = [pc EXCEPT ![t] = "id"]
        /\ req' = [req EXCEPT ![t] = made + 1]
        /\ UNCHANGED <<msg_id, token, next_msg_id, message_token>>
        /\ \A u \in Callers : ~Numbering(u)
    BY <1>4 DEF SendBegin, idVars, OneAtATime
  <2>2. /\ \A u \in Callers : Numbering(u)' <=> u = t
        /\ req'[t] = made + 1 /\ pc'[t] = "id"
        /\ \A u \in Callers : pc'[u] # "token" /\ pc'[u] # "count"
    BY <1>2, <2>1 DEF Numbering
  <2>3. Numbered' = Numbered
    BY <1>1, <1>2, <2>1, <2>2 DEF Numbered
  <2>4. TurnInv'
    BY <2>1, <2>2 DEF TurnInv
  <2>5. CounterInv'
    <3>1. next_msg_id = IdOf(made) /\ message_token = made
      BY <2>1 DEF OwnInv, CounterInv, Numbering
    <3>2. made' - 1 = made
      BY <1>1, <1>2, <2>1
    <3> QED
      BY <2>1, <2>2, <3>1, <3>2 DEF CounterInv, IdOf
  <2>6. NumberInv'
    BY <2>1, <2>2, <2>3 DEF OwnInv, NumberInv, IdOf
  <2> QED
    BY <2>3, <2>4, <2>5, <2>6
<1>5. ASSUME pc[t] \in {"id", "token", "count"},
             UNCHANGED <<req, made>>,
             \E to \in {"token", "count", "send"} : pc' = [pc EXCEPT ![t] = to]
      PROVE  /\ req[t] = made /\ made \notin Numbered
             /\ \A u \in Callers : Numbering(u) <=> u = t
             /\ \A u \in Callers \ {t} : pc'[u] = pc[u]
             /\ TurnInv' /\ Numbered \subseteq Numbered'
             /\ Numbered' \subseteq Numbered \cup {made}
  <2>1. /\ req[t] = made
        /\ \A u \in Callers : Numbering(u) <=> u = t
    BY <1>5 DEF OwnInv, TurnInv, Numbering
  <2>2. \A u \in Callers \ {t} : pc'[u] = pc[u]
    BY <1>2, <1>5
  <2>3. \A u \in Callers : Numbering(u)' => u = t
    BY <2>1, <2>2 DEF Numbering
  <2>4. made \notin Numbered
    BY <2>1 DEF Numbered
  <2>5. Numbered \subseteq Numbered'
    BY <1>5, <2>1, <2>3 DEF Numbered
  <2>6. Numbered' \subseteq Numbered \cup {made}
    BY <1>5, <2>1 DEF Numbered
  <2>7. TurnInv'
    BY <1>5, <2>1, <2>3 DEF TurnInv
  <2> QED
    BY <2>1, <2>2, <2>4, <2>5, <2>6, <2>7
<1>6. CASE IdRead(t)
  <2>1. /\ pc[t] = "id" /\ pc' = [pc EXCEPT ![t] = "token"]
        /\ UNCHANGED <<req, made, token, next_msg_id, message_token>>
        /\ msg_id' = [msg_id EXCEPT ![req[t]] =
             IF next_msg_id = MAX_MSG_ID THEN 1 ELSE next_msg_id + 1]
    BY <1>6 DEF IdRead, idVars
  <2>2. /\ req[t] = made /\ made \notin Numbered
        /\ \A u \in Callers : Numbering(u) <=> u = t
        /\ \A u \in Callers \ {t} : pc'[u] = pc[u]
        /\ TurnInv' /\ Numbered \subseteq Numbered'
        /\ Numbered' \subseteq Numbered \cup {made}
    BY <1>5, <2>1
  <2>3. pc'[t] = "token" /\ made \notin Numbered'
    BY <1>2, <2>1, <2>2 DEF Numbered, Numbering
  <2>4. next_msg_id = IdOf(made - 1) /\ message_token = made - 1
    BY <2>1 DEF OwnInv, CounterInv, Numbering
  <2>5. CounterInv'
    BY <2>1, <2>3, <2>4 DEF CounterInv, IdOf, Numbering
  <2>6. msg_id'[made] = IdOf(made)
    BY <1>1, <1>2, <2>1, <2>2, <2>4 DEF IdOf
  <2>7. \A n \in Numbered' : msg_id'[n] = IdOf(n) /\ token'[n] = n - 1
    BY <1>1, <1>2, <2>1, <2>2, <2>3 DEF OwnInv, NumberInv
  <2>8. \A u \in Callers : pc'[u] # "count"
    BY <2>1, <2>2, <2>3 DEF Numbering
  <2>9. NumberInv'
    BY <2>1, <2>6, <2>7, <2>8 DEF NumberInv, IdOf
  <2> QED
    BY <2>2, <2>5, <2>9
<1>7. CASE IdWriteTokenRead(t)
  <2>1. /\ pc[t] = "token" /\ pc' = [pc EXCEPT ![t] = "count"]
        /\ UNCHANGED <<req, made, msg_id, message_token>>
        /\ next_msg_id' = msg_id[req[t]]
        /\ token' = [token EXCEPT ![req[t]] = message_token]
    BY <1>7 DEF IdWriteTokenRead
  <2>2. /\ req[t] = made /\ made \notin Numbered
        /\ \A u \in Callers : Numbering(u) <=> u = t
        /\ \A u \in Callers \ {t} : pc'[u] = pc[u]
        /\ TurnInv' /\ Numbered \subseteq Numbered'
        /\ Numbered' \subseteq Numbered \cup {made}
    BY <1>5, <2>1
  <2>3. pc'[t] = "count" /\ made \notin Numbered'
    BY <1>2, <2>1, <2>2 DEF Numbered, Numbering
  <2>4. /\ message_token = made - 1 /\ msg_id[made] = IdOf(made)
    BY <2>1 DEF OwnInv, CounterInv, NumberInv, Numbering
  <2>5. \A u \in Callers : pc'[u] \notin {"id", "token"}
    BY <2>2, <2>3 DEF Numbering
  <2>6. CounterInv'
    BY <2>1, <2>2, <2>3, <2>4, <2>5 DEF CounterInv, IdOf, Numbering
  <2>7. token'[made] = made - 1
    BY <1>1, <1>2, <2>1, <2>2, <2>4
  <2>8. \A n \in Numbered' : msg_id'[n] = IdOf(n) /\ token'[n] = n - 1
    BY <1>1, <1>2, <2>1, <2>2, <2>3 DEF OwnInv, NumberInv
  <2>9. NumberInv'
    BY <2>1, <2>4, <2>7, <2>8 DEF NumberInv, IdOf
  <2> QED
    BY <2>2, <2>6, <2>9
<1>8. CASE TokenCount(t)
  <2>1. /\ pc[t] = "count" /\ pc' = [pc EXCEPT ![t] = "send"]
        /\ UNCHANGED <<req, made, msg_id, token, next_msg_id>>
        /\ message_token' = token[req[t]] + 1
    BY <1>8 DEF TokenCount
  <2>2. /\ req[t] = made /\ made \notin Numbered
        /\ \A u \in Callers : Numbering(u) <=> u = t
        /\ \A u \in Callers \ {t} : pc'[u] = pc[u]
        /\ TurnInv' /\ Numbered \subseteq Numbered'
        /\ Numbered' \subseteq Numbered \cup {made}
    BY <1>5, <2>1
  <2>3. \A u \in Callers : pc'[u] \notin {"id", "token", "count"}
    BY <1>2, <2>1, <2>2 DEF Numbering
  <2>4. msg_id[made] = IdOf(made) /\ token[made] = made - 1
    BY <2>1 DEF OwnInv, NumberInv
  <2>5. next_msg_id = IdOf(made)
    BY <2>1, <2>2 DEF OwnInv, CounterInv, Numbering
  <2>6. (made - 1) + 1 = made
    BY <1>1, <1>2
  <2>7. CounterInv'
    BY <2>1, <2>2, <2>3, <2>4, <2>5, <2>6 DEF CounterInv, IdOf, Numbering
  <2>8. \A n \in Numbered' : msg_id'[n] = IdOf(n) /\ token'[n] = n - 1
    BY <2>1, <2>2, <2>4 DEF OwnInv, NumberInv
  <2>9. NumberInv'
    BY <2>3, <2>8 DEF NumberInv, IdOf
  <2> QED
    BY <2>2, <2>7, <2>9
<1> QED
  BY <1>4, <1>6, <1>7, <1>8

\* The server answers requests that were sent.
LEMMA ServerOwn ==
  ASSUME IInv, OwnInv, NEW S \in SUBSET Numbered, Server(S), Numbered' = Numbered
  PROVE  AnswerInv'
<1>1. PICK later \in SUBSET S :
        /\ owed' = owed \cup later
        /\ toDevice' = toDevice \cup
             {Datagram(n, IF n \in later THEN "ack" ELSE "piggy") : n \in S}
  BY DEF Server
<1>2. ASSUME NEW n \in S, NEW kind \in Kinds
      PROVE  /\ Datagram(n, kind).of = n
             /\ Datagram(n, kind).msg = AtDevice[n, IdOf(n), n - 1, kind]
  BY DEF Datagram, OwnInv, NumberInv
<1>3. ASSUME NEW m \in toDevice'
      PROVE  /\ m.of \in Numbered
             /\ \E kind \in Kinds : m.msg = AtDevice[m.of, IdOf(m.of), m.of - 1, kind]
  <2>1. CASE m \in toDevice
    BY <2>1 DEF OwnInv, AnswerInv
  <2>2. CASE m \notin toDevice
    <3>1. PICK n \in S : m = Datagram(n, IF n \in later THEN "ack" ELSE "piggy")
      BY <1>1, <2>2
    <3>2. PICK kind \in Kinds : m = Datagram(n, kind)
      BY <3>1 DEF Kinds
    <3>3. m.of = n /\ m.msg = AtDevice[n, IdOf(n), n - 1, kind]
      BY <1>2, <3>2
    <3>4. m.msg = AtDevice[m.of, IdOf(m.of), m.of - 1, kind]
      BY <3>3
    <3>5. m.of \in Numbered
      BY <3>3
    <3> QED
      BY <3>4, <3>5
  <2> QED
    BY <2>1, <2>2
<1>4. owed' \subseteq Numbered'
  BY <1>1 DEF OwnInv, AnswerInv
<1> QED
  BY <1>3, <1>4 DEF AnswerInv, IdOf

\* The rest of a call: the request is sent and joins the list.
LEMMA SendOwn ==
  ASSUME IInv, OwnInv, NEW t \in Callers, Send(t) \/ ListAdd(t)
  PROVE  OwnInv'
<1>1. /\ pc \in [Callers -> {"idle", "id", "token", "count", "send", "add"}]
      /\ req \in [Callers -> 0 .. MaxRequests]
      /\ pc[t] \in {"send", "add"}
      /\ made \in Requests /\ req[t] \in Requests /\ req[t] <= made
  BY CallerRequest DEF Send, ListAdd, IInv, CallType, CallInv
<1>2. req[t] \in Numbered
  BY <1>1 DEF Numbered, Numbering, IInv, CallInv, Requests, None
<1>3. /\ UNCHANGED <<made, msg_id, token, idVars, heard>>
      /\ pc' = [pc EXCEPT ![t] = "add"] \/ pc' = [pc EXCEPT ![t] = "idle"]
      /\ req' = req \/ req' = [req EXCEPT ![t] = None]
  BY DEF Send, ListAdd, Return
<1>4. \A u \in Callers :
        \/ pc'[u] = pc[u] /\ req'[u] = req[u]
        \/ ~Numbering(u) /\ pc'[u] \notin {"id", "token", "count"}
  BY <1>1, <1>3 DEF Numbering
<1>5. Numbered' = Numbered /\ TurnInv' /\ CounterInv' /\ NumberInv'
  BY <1>3, <1>4, NumbersKept
<1>6. AnswerInv'
  <2>1. CASE Server({req[t]})
    BY <1>2, <1>5, <2>1, ServerOwn
  <2>2. CASE UNCHANGED <<toDevice, owed>>
    BY <1>5, <2>2 DEF OwnInv, AnswerInv, IdOf
  <2> QED
    BY <2>1, <2>2 DEF Send, ListAdd, netVars
<1>7. message_list' \subseteq Numbered'
  BY <1>2, <1>5 DEF Send, ListAdd, listVars, OwnInv
<1>8. MineInv'
  BY <1>3 DEF OwnInv, MineInv
<1> QED
  BY <1>5, <1>6, <1>7, <1>8 DEF OwnInv

\* A step that numbers, sends and hears nothing.
LEMMA OthersOwn ==
  ASSUME IInv, OwnInv, UNCHANGED <<callVars, idVars, heard>>,
         message_list' \subseteq message_list, owed' \subseteq owed,
         toDevice' \subseteq toDevice
  PROVE  OwnInv' /\ Numbered' = Numbered
<1>1. Numbered' = Numbered /\ TurnInv' /\ CounterInv' /\ NumberInv'
  BY NumbersKept DEF callVars
<1>2. message_list' \subseteq Numbered' /\ AnswerInv'
  BY <1>1 DEF OwnInv, AnswerInv, IdOf
<1>3. MineInv'
  BY DEF OwnInv, MineInv
<1> QED
  BY <1>1, <1>2, <1>3 DEF OwnInv

\* What the server answers has the id or the token of the request, by its kind.
LEMMA AnswerNumbers ==
  ASSUME NEW n, NEW id, NEW value
  PROVE  /\ \A kind \in {"ack", "piggy"} :
              /\ Answer(Message(n, id, value), kind).type = ACK
              /\ Answer(Message(n, id, value), kind).id = id
         /\ Answer(Message(n, id, value), "response").type = CON
         /\ Answer(Message(n, id, value), "response").token =
              get_coap_message_token(value)
BY DEF Answer, Message

\* What a datagram says was sent by the server.
LEMMA DatagramNumbers ==
  ASSUME IInv, OwnInv, WireFaithful, NEW m \in toDevice
  PROVE  /\ m.of \in Requests
         /\ m.msg.type = ACK => m.msg.id = IdOf(m.of)
         /\ m.msg.type # ACK => m.msg.type = CON /\ m.msg.token =
                                  get_coap_message_token(m.of - 1)
<1>1. m.of \in Requests
  BY DEF IInv, NetType
<1>2. PICK kind \in Kinds : m.msg = AtDevice[m.of, IdOf(m.of), m.of - 1, kind]
  BY DEF OwnInv, AnswerInv
<1>3. m.msg = Answer(Message(m.of, IdOf(m.of), m.of - 1), kind)
  BY <1>1, <1>2, IdsAreIds DEF WireFaithful, Kinds
<1>4. ACK # CON
  BY DEF ACK, CON
<1>5. CASE kind \in {"ack", "piggy"}
  BY <1>1, <1>3, <1>5, AnswerNumbers
<1>6. CASE kind = "response"
  BY <1>1, <1>3, <1>4, <1>6, AnswerNumbers
<1> QED
  BY <1>5, <1>6 DEF Kinds

\* Nodes are told what was sent to them, or that the time is over.
LEMMA HearOwn ==
  ASSUME IInv, OwnInv, NEW S \in SUBSET (message_list \ invalid),
         NEW from \in Requests \cup {None}, Hear(S, from),
         \A n \in S : from \in {n, None}
  PROVE  MineInv'
<1>1. /\ \A n \in S : heard'[n] = <<from>>
      /\ \A n \in Requests \ S : heard'[n] = heard[n]
  BY HearOnce
<1>2. ToSet(<<from>>) = {from}
  BY DEF ToSet
<1>3. ASSUME NEW n \in Requests
      PROVE  ToSet(heard'[n]) \subseteq {n, None}
  <2>1. CASE n \in S
    BY <1>1, <1>2, <2>1
  <2>2. CASE n \notin S
    BY <1>1, <2>2 DEF OwnInv, MineInv
  <2> QED
    BY <2>1, <2>2
<1> QED
  BY <1>3 DEF MineInv

\* A message reaches the node whose request it answers, or none.
LEMMA MessageHears ==
  ASSUME IInv, OwnInv, WireFaithful, FewRequests, NEW m \in toDevice, OnMessage(m)
  PROVE  \/ UNCHANGED <<heard, is_authed>>
         \/ \E S \in SUBSET (message_list \ invalid) :
              Hear(S, m.of) /\ \A n \in S : n = m.of
<1>1. yield = "recv"
  BY DEF OnMessage, OnAck, OnPiggy, OnResp, Receive
<1>2. invalid = {} /\ message_list \subseteq Requests
  BY <1>1 DEF IInv, HeardInv, ListType
<1>3. \A n \in message_list : msg_id[n] = IdOf(n) /\ token[n] = n - 1
  BY DEF OwnInv, NumberInv
<1>4. m.of \in Requests
  BY DatagramNumbers
<1>5. CASE OnAck(m)
  BY <1>5 DEF OnAck
<1>6. CASE OnPiggy(m)
  <2> DEFINE mine == {n \in message_list : msg_id[n] = m.msg.id}
  <2>1. m.msg.id = IdOf(m.of) /\ Hear(mine, m.of)
    BY <1>6, DatagramNumbers DEF OnPiggy
  <2>2. \A n \in mine : n = m.of
    BY <1>2, <1>3, <1>4, <2>1, IdsDiffer
  <2>3. mine \in SUBSET (message_list \ invalid)
    BY <1>2
  <2> HIDE DEF mine
  <2> QED
    BY <2>1, <2>2, <2>3
<1>7. CASE OnResp(m)
  <2> DEFINE mine == {n \in message_list :
                        m.msg.token = get_coap_message_token(token[n])}
  <2>1. Hear(mine, m.of) /\ m.msg.type # ACK
    BY <1>7 DEF OnResp, CON, NON, ACK
  <2>2. m.msg.token = get_coap_message_token(m.of - 1)
    BY <2>1, DatagramNumbers
  <2>3. ASSUME NEW n \in mine
        PROVE  n = m.of
    <3>1. n \in Requests /\ n - 1 \in Counter /\ m.of - 1 \in Counter
      BY <1>2, <1>4 DEF FewRequests
    <3>2. get_coap_message_token(n - 1) = get_coap_message_token(m.of - 1)
      BY <1>3, <2>2
    <3>3. n - 1 = m.of - 1
      BY <3>1, <3>2, TokensDiffer
    <3> QED
      BY <1>4, <3>1, <3>3 DEF Requests
  <2>4. mine \in SUBSET (message_list \ invalid)
    BY <1>2
  <2> HIDE DEF mine
  <2> QED
    BY <2>1, <2>3, <2>4
<1> QED
  BY <1>5, <1>6, <1>7 DEF OnMessage

LEMMA MessageOwn ==
  ASSUME IInv, OwnInv, WireFaithful, FewRequests, NEW m \in toDevice, OnMessage(m)
  PROVE  OwnInv'
<1>1. /\ UNCHANGED <<callVars, idVars, message_list>>
      /\ owed' \subseteq owed /\ toDevice' \subseteq toDevice
  BY DEF OnMessage, OnAck, OnPiggy, OnResp, Receive, SendAck
<1>2. Numbered' = Numbered /\ TurnInv' /\ CounterInv' /\ NumberInv'
  BY <1>1, NumbersKept DEF callVars
<1>3. message_list' \subseteq Numbered' /\ AnswerInv'
  BY <1>1, <1>2 DEF OwnInv, AnswerInv, IdOf
<1>4. MineInv'
  <2>1. CASE UNCHANGED <<heard, is_authed>>
    BY <2>1 DEF OwnInv, MineInv
  <2>2. ASSUME NEW S \in SUBSET (message_list \ invalid),
               Hear(S, m.of), \A n \in S : n = m.of
        PROVE  MineInv'
    <3>1. m.of \in Requests
      BY DatagramNumbers
    <3> QED
      BY <2>2, <3>1, HearOwn
  <2> QED
    BY <2>1, <2>2, MessageHears
<1> QED
  BY <1>2, <1>3, <1>4 DEF OwnInv

\* Who times out is told so, and who is sent again was sent before.
LEMMA WaitOwn ==
  ASSUME IInv, OwnInv, Wait
  PROVE  OwnInv'
<1>1. WaitPass(invalid \cup GivenUp, GivenUp, Again)
  BY DEF Wait
<1>2. /\ GivenUp \in SUBSET (message_list \ invalid)
      /\ Again \subseteq message_list
  BY DEF GivenUp, Again, Overdue
<1>3. /\ UNCHANGED <<callVars, idVars>> /\ message_list' \subseteq message_list
      /\ Hear(GivenUp, None)
      /\ \E written \in SUBSET Again : Server(written)
  BY <1>1 DEF WaitPass
<1>4. Numbered' = Numbered /\ TurnInv' /\ CounterInv' /\ NumberInv'
  BY <1>3, NumbersKept DEF callVars
<1>5. AnswerInv'
  <2>1. PICK written \in SUBSET Again : Server(written)
    BY <1>3
  <2>2. written \in SUBSET Numbered
    BY <1>2 DEF OwnInv
  <2> QED
    BY <1>4, <2>1, <2>2, ServerOwn
<1>6. MineInv'
  <2>1. \A n \in GivenUp : None \in {n, None}
    OBVIOUS
  <2> QED
    BY <1>2, <1>3, <2>1, HearOwn
<1> QED
  BY <1>3, <1>4, <1>5, <1>6 DEF OwnInv

\* A separate answer is sent, once more.
LEMMA RespondOwn ==
  ASSUME IInv, OwnInv, NEW n \in Requests, Respond(n)
  PROVE  OwnInv'
<1>1. /\ n \in Numbered
      /\ toDevice' = toDevice \cup {Datagram(n, "response")}
      /\ UNCHANGED <<callVars, idVars, heard, message_list, owed>>
  BY DEF Respond, OwnInv, AnswerInv, listVars
<1>2. Numbered' = Numbered /\ TurnInv' /\ CounterInv' /\ NumberInv'
  BY <1>1, NumbersKept DEF callVars
<1>3. /\ Datagram(n, "response").of = n
      /\ Datagram(n, "response").msg = AtDevice[n, IdOf(n), n - 1, "response"]
  BY <1>1 DEF Datagram, OwnInv, NumberInv
<1>4. AnswerInv'
  BY <1>1, <1>2, <1>3 DEF OwnInv, AnswerInv, IdOf, Kinds
<1>5. message_list' \subseteq Numbered' /\ MineInv'
  BY <1>1, <1>2 DEF OwnInv, MineInv
<1> QED
  BY <1>2, <1>4, <1>5 DEF OwnInv

LEMMA OwnNext ==
  ASSUME IInv, OwnInv, [Next]_vars, OneAtATime, FewRequests, WireFaithful
  PROVE  OwnInv'
<1>1. ASSUME ConstructAuth \/ ConstructReturns \/ Destroy
      PROVE  OwnInv'
  BY <1>1, OthersOwn
  DEF ConstructAuth, ConstructReturns, Destroy, Discard, listVars, netVars
<1>2. ASSUME YieldBegin \/ RecvTimeout \/ RecvFails
      PROVE  OwnInv'
  BY <1>2, OthersOwn DEF YieldBegin, RecvTimeout, RecvFails, listVars, netVars
<1>3. ASSUME NEW t \in Callers, SendBegin(t) \/ Call(t)
      PROVE  OwnInv'
  BY <1>3, NumberingOwn, SendOwn DEF Call
<1>4. ASSUME NEW n \in Requests, TimerExpires(n)
      PROVE  OwnInv'
  BY <1>4, OthersOwn DEF TimerExpires, netVars
<1>5. CASE UNCHANGED vars
  BY <1>5, OthersOwn DEF vars, listVars, netVars
<1> QED
  BY <1>1, <1>2, <1>3, <1>4, <1>5, MessageOwn, WaitOwn, RespondOwn DEF Next

-----------------------------------------------------------------------------
(***************************************************************************)
(* The refinement: each step is a step of RequestPromise, or changes       *)
(* nothing of it.                                                          *)
(***************************************************************************)

\* A request whose call is not over, or not begun, has no result; one in the
\* list has a good one.
ReturnedInv ==
  /\ \A n \in Requests :
       n > made \/ (\E t \in Callers : req[t] = n) => returned[n] = "none"
  /\ \A n \in message_list : returned[n] = "success"

\* Until it is constructed only its constructor uses the client; when it is
\* destroyed nobody does.
LifeInv ==
  /\ mode = "construct" => \A t \in Tasks : pc[t] = "idle"
  /\ mode \in {"auth", "destroyed"} => \A t \in Callers : pc[t] = "idle"
  /\ mode = "destroyed" => yield = "out"

PromiseInv == ReturnedInv /\ LifeInv

LEMMA PromiseInit == Init => PromiseInv
<1> SUFFICES ASSUME Init
             PROVE  PromiseInv
  OBVIOUS
<1>1. ReturnedInv
  BY DEF Init, ReturnedInv
<1>2. LifeInv
  BY CoapAssumption DEF Init, LifeInv, Callers
<1> QED
  BY <1>1, <1>2 DEF PromiseInv

\* The steps of a call: what it returns is its first result.
LEMMA CallPromise ==
  ASSUME IInv, PromiseInv, NEW t \in Callers, SendBegin(t) \/ Call(t)
  PROVE  PromiseInv'
<1>1. pc[t] # "idle" \/ mode = "free"
  BY DEF SendBegin, Call, IdRead, IdWriteTokenRead, TokenCount, Send, ListAdd
<1>2. UNCHANGED <<mode, yield>>
  BY DEF SendBegin, Call, IdRead, IdWriteTokenRead, TokenCount, Send, ListAdd,
         modeVars
<1>3. LifeInv'
  <2>1. \A u \in Callers \ {t} : pc'[u] = pc[u]
    BY DEF SendBegin, Call, IdRead, IdWriteTokenRead, TokenCount, Send, ListAdd,
           Return, IInv, CallType
  <2>2. pc[t] # "idle" => mode \notin {"auth", "destroyed"}
    BY DEF PromiseInv, LifeInv
  <2>3. pc[t] # "idle" /\ mode = "construct" => t \notin Tasks
    BY DEF PromiseInv, LifeInv
  <2> QED
    BY <1>1, <1>2, <2>1, <2>2, <2>3 DEF PromiseInv, LifeInv, Callers
<1>4. ReturnedInv'
  <2>1. CASE SendBegin(t)
    <3>1. /\ returned' = returned /\ message_list' = message_list
          /\ made' = made + 1 /\ made \in Requests
          /\ \A u \in Callers : req'[u] = IF u = t THEN made + 1 ELSE req[u]
      BY <2>1 DEF SendBegin, listVars, IInv, CallType
    <3> QED
      BY <3>1 DEF PromiseInv, ReturnedInv, Requests
  <2>2. CASE UNCHANGED <<req, made, returned, message_list>>
    BY <2>2 DEF PromiseInv, ReturnedInv
  <2>3. ASSUME NEW rc, Return(t, rc), pc[t] # "idle", made' = made,
               \/ UNCHANGED message_list
               \/ rc = "success" /\ message_list' = message_list \cup {req[t]}
        PROVE  ReturnedInv'
    <3>1. /\ req[t] \in Requests /\ req[t] \notin message_list
      BY <2>3, CallerRequest
    <3>2. /\ req[t] <= made /\ message_list \subseteq Requests
          /\ made \in Nat /\ Requests \subseteq Nat
          /\ \A u \in Callers \ {t} : req[u] # req[t]
      BY <3>1 DEF IInv, CallInv, ListType, CallType, Requests, None
    <3>3. /\ returned'[req[t]] = rc
          /\ \A n \in Requests \ {req[t]} : returned'[n] = returned[n]
      BY <2>3, <3>1 DEF Return, IInv, CallType
    <3>4. \A u \in Callers : req'[u] = IF u = t THEN None ELSE req[u]
      BY <2>3 DEF Return, IInv, CallType
    <3>5. ASSUME NEW n \in Requests,
                 n > made' \/ \E u \in Callers : req'[u] = n
          PROVE  returned'[n] = "none"
      <4>1. n # None
        BY DEF Requests, None
      <4>2. n # req[t]
        BY <2>3, <3>2, <3>4, <3>5, <4>1
      <4>3. n > made \/ \E u \in Callers : req[u] = n
        BY <2>3, <3>4, <3>5, <4>1
      <4> QED
        BY <3>3, <4>2, <4>3 DEF PromiseInv, ReturnedInv
    <3>6. ASSUME NEW n \in message_list'
          PROVE  returned'[n] = "success"
      <4>1. CASE n = req[t]
        BY <2>3, <3>1, <3>3, <3>6, <4>1
      <4>2. CASE n # req[t]
        BY <2>3, <3>2, <3>3, <3>6, <4>2 DEF PromiseInv, ReturnedInv
      <4> QED
        BY <4>1, <4>2
    <3> QED
      BY <3>5, <3>6 DEF ReturnedInv
  <2>4. CASE Send(t)
    BY <2>2, <2>3, <2>4 DEF Send, listVars
  <2>5. CASE ListAdd(t)
    BY <2>3, <2>5 DEF ListAdd
  <2>6. CASE IdRead(t) \/ IdWriteTokenRead(t) \/ TokenCount(t)
    BY <2>2, <2>6 DEF IdRead, IdWriteTokenRead, TokenCount, listVars
  <2> QED
    BY <2>1, <2>4, <2>5, <2>6 DEF Call
<1> QED
  BY <1>3, <1>4 DEF PromiseInv

\* The steps of the others begin and end no call.
LEMMA OthersPromise ==
  ASSUME IInv, PromiseInv, UNCHANGED callVars, message_list' \subseteq message_list,
         \/ UNCHANGED mode /\ (mode = "destroyed" => yield' = yield)
         \/ ConstructAuth \/ ConstructReturns \/ Destroy
  PROVE  PromiseInv'
<1>1. ReturnedInv'
  BY DEF PromiseInv, ReturnedInv, callVars
<1>2. LifeInv'
  BY CoapAssumption
  DEF ConstructAuth, ConstructReturns, Destroy, Discard, PromiseInv, LifeInv,
      callVars, Callers
<1> QED
  BY <1>1, <1>2 DEF PromiseInv

LEMMA PromiseNext ==
  ASSUME IInv, PromiseInv, [Next]_vars
  PROVE  PromiseInv'
<1>1. ASSUME ConstructAuth \/ ConstructReturns \/ Destroy
      PROVE  PromiseInv'
  <2>1. UNCHANGED callVars /\ message_list' \subseteq message_list
    BY <1>1 DEF ConstructAuth, ConstructReturns, Destroy, Discard, listVars
  <2> QED
    BY <1>1, <2>1, OthersPromise
<1>2. ASSUME YieldBegin \/ RecvTimeout \/ RecvFails \/ Wait
      PROVE  PromiseInv'
  <2>1. /\ UNCHANGED <<callVars, mode>> /\ message_list' \subseteq message_list
        /\ mode # "destroyed"
    BY <1>2
    DEF YieldBegin, RecvTimeout, RecvFails, Wait, WaitPass, listVars, PromiseInv,
        LifeInv
  <2> QED
    BY <2>1, OthersPromise
<1>3. ASSUME NEW m \in toDevice, OnMessage(m)
      PROVE  PromiseInv'
  <2>1. /\ UNCHANGED <<callVars, mode, message_list>> /\ mode # "destroyed"
    BY <1>3 DEF OnMessage, OnAck, OnPiggy, OnResp, Receive, PromiseInv, LifeInv
  <2> QED
    BY <2>1, OthersPromise
<1>4. ASSUME NEW n \in Requests, TimerExpires(n) \/ Respond(n)
      PROVE  PromiseInv'
  <2>1. UNCHANGED <<callVars, mode, message_list, yield>>
    BY <1>4 DEF TimerExpires, Respond, listVars, modeVars
  <2> QED
    BY <2>1, OthersPromise
<1>5. CASE UNCHANGED vars
  <2>1. UNCHANGED <<callVars, mode, message_list, yield>>
    BY <1>5 DEF vars, listVars, modeVars
  <2> QED
    BY <2>1, OthersPromise
<1> QED
  BY <1>1, <1>2, <1>3, <1>4, <1>5, CallPromise DEF Next

-----------------------------------------------------------------------------
LEMMA Outcomes ==
  ASSUME NEW n \in Requests
  PROVE  /\ Outcome(n, <<>>) = "none" /\ Outcome(n, <<n>>) = "answer"
         /\ Outcome(n, <<None>>) = "timeout"
<1>1. n # None /\ <<n>> # <<>> /\ <<None>> # <<>> /\ <<n>> # <<None>>
  BY DEF Requests, None
<1> QED
  BY <1>1 DEF Outcome

\* A call that is over is one that returns.
LEMMA ReturnKeepsPromise ==
  ASSUME IInv, PromiseInv, NEW t \in Callers, NEW rc \in {"success", "error"},
         pc[t] # "idle", Return(t, rc), UNCHANGED <<heard, mode>>
  PROVE  Promise!Next
<1>1. req[t] \in Requests
  BY CallerRequest
<1>2. returned[req[t]] = "none"
  BY <1>1 DEF PromiseInv, ReturnedInv
<1>3. mode # "destroyed"
  BY DEF PromiseInv, LifeInv
<1>4. Promise!Return(req[t], rc)
  BY <1>2, <1>3 DEF Promise!Return, Return
<1> QED
  BY <1>1, <1>4 DEF Promise!Next

\* Who is told has waited.
LEMMA ListedWait ==
  ASSUME IInv, PromiseInv, NEW n \in message_list \ invalid
  PROVE  n \in Promise!Waiting
<1>1. n \in Requests /\ heard[n] = <<>>
  BY DEF IInv, ListType, HeardInv
<1>2. returned[n] = "success"
  BY DEF PromiseInv, ReturnedInv
<1>3. Outcome(n, heard[n]) = "none"
  BY <1>1, Outcomes
<1> QED
  BY <1>1, <1>2, <1>3 DEF Promise!Waiting

LEMMA MessageKeepsPromise ==
  ASSUME IInv, OwnInv, PromiseInv, WireFaithful, FewRequests,
         NEW m \in toDevice, OnMessage(m)
  PROVE  [Promise!Next]_(Promise!vars)
<1>1. UNCHANGED <<returned, mode>> /\ mode # "destroyed"
  BY DEF OnMessage, OnAck, OnPiggy, OnResp, Receive, callVars, PromiseInv, LifeInv
<1>2. CASE UNCHANGED <<heard, is_authed>>
  BY <1>1, <1>2 DEF Promise!vars
<1>3. ASSUME NEW S \in SUBSET (message_list \ invalid),
             Hear(S, m.of), \A n \in S : n = m.of
      PROVE  [Promise!Next]_(Promise!vars)
  <2>1. m.of \in Requests
    BY DatagramNumbers
  <2>2. /\ \A n \in S : heard'[n] = <<m.of>>
        /\ \A n \in Requests \ S : heard'[n] = heard[n]
    BY <1>3, <2>1, HearOnce
  <2>3. CASE S = {}
    <3>1. [n \in Requests |-> Outcome(n, heard'[n])]
            = [n \in Requests |-> Outcome(n, heard[n])]
      BY <2>2, <2>3
    <3> QED
      BY <1>1, <3>1 DEF Promise!vars
  <2>4. CASE S # {}
    <3>1. S = {m.of}
      BY <1>3, <2>4
    <3>2. m.of \in Promise!Waiting
      BY <1>3, <3>1, ListedWait
    <3>3. Outcome(m.of, heard'[m.of]) = "answer"
      BY <2>1, <2>2, <3>1, Outcomes
    <3>4. [n \in Requests |-> Outcome(n, heard'[n])]
            = [[n \in Requests |-> Outcome(n, heard[n])]
                 EXCEPT ![m.of] = "answer"]
      BY <2>2, <3>1, <3>3
    <3>5. Promise!Answer(m.of)
      BY <1>1, <3>2, <3>4 DEF Promise!Answer
    <3> QED
      BY <2>1, <3>5 DEF Promise!Next
  <2> QED
    BY <2>3, <2>4
<1> QED
  BY <1>2, <1>3, MessageHears

LEMMA WaitKeepsPromise ==
  ASSUME IInv, PromiseInv, Wait
  PROVE  [Promise!Next]_(Promise!vars)
<1>1. /\ UNCHANGED <<returned, mode>> /\ mode # "destroyed"
      /\ Hear(GivenUp, None)
      /\ GivenUp \in SUBSET (message_list \ invalid)
  BY DEF Wait, WaitPass, callVars, PromiseInv, LifeInv, GivenUp, Overdue
<1>2. GivenUp \in SUBSET Requests
  BY <1>1 DEF IInv, ListType
<1>3. /\ \A n \in GivenUp : heard'[n] = <<None>>
      /\ \A n \in Requests \ GivenUp : heard'[n] = heard[n]
  BY <1>1, HearOnce
<1>4. [n \in Requests |-> Outcome(n, heard'[n])]
        = [n \in Requests |-> IF n \in GivenUp THEN "timeout"
                              ELSE [k \in Requests |-> Outcome(k, heard[k])][n]]
  BY <1>3, Outcomes
<1>5. Promise!TimeOut(GivenUp)
  BY <1>1, <1>4 DEF Promise!TimeOut
<1>6. GivenUp \in SUBSET Promise!Waiting
  BY <1>1, ListedWait
<1> QED
  BY <1>5, <1>6 DEF Promise!Next

LEMMA StepKeepsPromise ==
  ASSUME IInv, OwnInv, PromiseInv, WireFaithful, FewRequests, [Next]_vars
  PROVE  [Promise!Next]_(Promise!vars)
<1>1. ASSUME UNCHANGED <<returned, heard, mode>>
      PROVE  UNCHANGED Promise!vars
  BY <1>1 DEF Promise!vars
<1>2. ASSUME ConstructAuth
      PROVE  UNCHANGED Promise!vars
  BY <1>2 DEF ConstructAuth, callVars, Promise!vars
<1>3. ASSUME ConstructReturns \/ Destroy
      PROVE  [Promise!Next]_(Promise!vars)
  <2>1. CASE Discard /\ mode # "destroyed"
    <3>1. Promise!Close
      BY <2>1 DEF Discard, callVars, Promise!Close
    <3> QED
      BY <3>1 DEF Promise!Next
  <2>2. CASE mode # "destroyed" /\ mode' # "destroyed" /\ UNCHANGED <<returned, heard>>
    BY <2>2 DEF Promise!vars
  <2> QED
    BY <1>3, <2>1, <2>2 DEF ConstructReturns, Destroy, callVars
<1>4. ASSUME NEW t \in Callers, SendBegin(t) \/ Call(t)
      PROVE  [Promise!Next]_(Promise!vars)
  <2>1. UNCHANGED <<heard, mode>>
    BY <1>4 DEF SendBegin, Call, IdRead, IdWriteTokenRead, TokenCount, Send,
                ListAdd, modeVars
  <2>2. \/ UNCHANGED returned
        \/ /\ pc[t] # "idle"
           /\ \E rc \in {"success", "error"} : Return(t, rc)
    BY <1>4 DEF SendBegin, Call, IdRead, IdWriteTokenRead, TokenCount, Send,
                ListAdd
  <2> QED
    BY <1>1, <2>1, <2>2, ReturnKeepsPromise
<1>5. ASSUME YieldBegin \/ RecvTimeout \/ RecvFails
      PROVE  UNCHANGED Promise!vars
  BY <1>1, <1>5 DEF YieldBegin, RecvTimeout, RecvFails, callVars
<1>6. ASSUME NEW n \in Requests, TimerExpires(n) \/ Respond(n)
      PROVE  UNCHANGED Promise!vars
  BY <1>1, <1>6 DEF TimerExpires, Respond, callVars, modeVars
<1>7. CASE UNCHANGED vars
  BY <1>1, <1>7 DEF vars, callVars, modeVars
<1> QED
  BY <1>2, <1>3, <1>4, <1>5, <1>6, <1>7, MessageKeepsPromise, WaitKeepsPromise
  DEF Next

-----------------------------------------------------------------------------
(***************************************************************************)
(* The type invariant.  Tasks that take their tokens at the same time may  *)
(* get the same, but the counter is never more than the requests that were *)
(* numbered.                                                               *)
(***************************************************************************)
TokenInv ==
  /\ message_token <= Cardinality(Numbered)
  /\ \A t \in Callers : pc[t] = "count" => token[req[t]] <= Cardinality(Numbered)
  /\ \A n \in Requests : token[n] <= MaxRequests

ReadInv == \A m \in toDevice : m.msg # Cleared

\* There are no more numbered requests than requests.
LEMMA NumberedFinite ==
  ASSUME IInv
  PROVE  /\ IsFiniteSet(Numbered)
         /\ Cardinality(Numbered) \in 0 .. MaxRequests
<1>1. IsFiniteSet(Requests) /\ Cardinality(Requests) = MaxRequests
  BY FS_Interval, CoapAssumption DEF Requests
<1>2. IsFiniteSet(Numbered) /\ Cardinality(Numbered) <= Cardinality(Requests)
  BY <1>1, NumberedIsRequest, FS_Subset
<1> QED
  BY <1>1, <1>2, FS_CardinalityType

\* A step in which no call takes a token and none counts.
LEMMA TokensKept ==
  ASSUME IInv, TokenInv, Numbered' = Numbered, UNCHANGED <<token, message_token>>,
         \A t \in Callers : pc'[t] = "count" => pc[t] = "count" /\ req'[t] = req[t]
  PROVE  TokenInv'
BY DEF TokenInv

\* A step of calls that are not being numbered.
LEMMA NumberedKept ==
  ASSUME IInv, UNCHANGED made,
         \A t \in Callers :
           \/ pc'[t] = pc[t] /\ req'[t] = req[t]
           \/ ~Numbering(t) /\ pc'[t] \notin {"id", "token", "count"}
           \/ Numbering(t) /\ pc'[t] \in {"id", "token", "count"} /\ req'[t] = req[t]
  PROVE  Numbered' = Numbered
<1>1. \A t \in Callers : Numbering(t)' <=> Numbering(t)
  BY DEF Numbering
<1>2. \A t \in Callers : Numbering(t) => req'[t] = req[t]
  BY DEF Numbering
<1> QED
  BY <1>1, <1>2 DEF Numbered

LEMMA CallTokens ==
  ASSUME IInv, TokenInv, NEW t \in Callers, SendBegin(t) \/ Call(t)
  PROVE  TokenInv'
<1>1. /\ IsFiniteSet(Numbered) /\ Cardinality(Numbered) \in 0 .. MaxRequests
      /\ message_token \in Nat /\ made \in Nat
      /\ \A n \in Requests : token[n] \in Nat
  BY NumberedFinite DEF IInv, IdType, CallType, Requests
<1>2. CASE SendBegin(t)
  <2>1. /\ pc'[t] = "id" /\ req'[t] = made + 1 /\ pc[t] = "idle"
        /\ \A u \in Callers \ {t} : pc'[u] = pc[u] /\ req'[u] = req[u]
        /\ made' = made + 1 /\ UNCHANGED <<token, message_token>>
    BY <1>2 DEF SendBegin, IInv, CallType, idVars
  <2>2. \A u \in Callers \ {t} : Numbering(u)' <=> Numbering(u)
    BY <2>1 DEF Numbering
  <2>3. Numbering(t)' /\ ~Numbering(t)
    BY <2>1 DEF Numbering
  <2>4. Numbered' = Numbered
    BY <1>1, <2>1, <2>2, <2>3 DEF Numbered
  <2> QED
    BY <2>1, <2>4, TokensKept
<1>3. CASE IdRead(t)
  <2>1. /\ pc[t] = "id" /\ pc'[t] = "token" /\ req' = req /\ made' = made
        /\ \A u \in Callers \ {t} : pc'[u] = pc[u]
        /\ UNCHANGED <<token, message_token>>
    BY <1>3 DEF IdRead, IInv, CallType, idVars
  <2>2. Numbered' = Numbered
    BY <2>1, NumberedKept DEF Numbering
  <2> QED
    BY <2>1, <2>2, TokensKept
<1>4. CASE IdWriteTokenRead(t)
  <2>1. /\ pc[t] = "token" /\ pc'[t] = "count" /\ req' = req /\ made' = made
        /\ \A u \in Callers \ {t} : pc'[u] = pc[u]
        /\ UNCHANGED message_token
        /\ token' = [token EXCEPT ![req[t]] = message_token]
    BY <1>4 DEF IdWriteTokenRead, IInv, CallType
  <2>2. Numbered' = Numbered
    BY <2>1, NumberedKept DEF Numbering
  <2>3. \A n \in Requests : token'[n] \in {token[n], message_token}
    BY <2>1 DEF IInv, IdType
  <2>4. req[t] \in Requests
    BY <2>1, CallerRequest
  <2>5. token'[req[t]] = message_token
    BY <2>1, <2>4 DEF IInv, IdType
  <2>6. ASSUME NEW u \in Callers, pc'[u] = "count"
        PROVE  token'[req[u]] <= Cardinality(Numbered)
    <3>1. CASE u = t
      BY <2>5, <3>1 DEF TokenInv
    <3>2. CASE u # t
      <4>1. pc[u] = "count" /\ req[u] \in Requests
        BY <2>1, <2>6, <3>2, CallerRequest
      <4>2. token'[req[u]] \in {token[req[u]], message_token}
        BY <2>3, <4>1
      <4> QED
        BY <4>1, <4>2 DEF TokenInv
    <3> QED
      BY <3>1, <3>2
  <2>7. \A n \in Requests : token'[n] <= MaxRequests
    BY <1>1, <2>3, CoapAssumption DEF TokenInv
  <2> QED
    BY <2>1, <2>2, <2>6, <2>7 DEF TokenInv
<1>5. CASE TokenCount(t)
  <2>1. /\ pc[t] = "count" /\ pc'[t] = "send" /\ req' = req /\ made' = made
        /\ \A u \in Callers \ {t} : pc'[u] = pc[u]
        /\ message_token' = token[req[t]] + 1 /\ token' = token
    BY <1>5 DEF TokenCount, IInv, CallType
  <2>2. req[t] \in Requests /\ req[t] \in 1 .. made
    BY <1>1, <2>1, CallerRequest DEF IInv, CallInv, Requests
  <2>3. \A u \in Callers \ {t} : Numbering(u)' <=> Numbering(u)
    BY <2>1 DEF Numbering
  <2>4. Numbering(t) /\ ~Numbering(t)'
    BY <2>1 DEF Numbering
  <2>5. \A u \in Callers \ {t} : req[u] # req[t]
    BY <2>1 DEF IInv, CallInv
  <2>6. Numbered' = Numbered \cup {req[t]} /\ req[t] \notin Numbered
    BY <2>1, <2>2, <2>3, <2>4, <2>5 DEF Numbered
  <2>7. Cardinality(Numbered') = Cardinality(Numbered) + 1
    BY <1>1, <2>6, FS_AddElement
  <2>8. token[req[t]] <= Cardinality(Numbered)
    BY <2>1 DEF TokenInv
  <2>9. \A u \in Callers : pc'[u] = "count" =>
          pc[u] = "count" /\ req[u] \in Requests
    BY <2>1, CallerRequest
  <2>10. message_token' <= Cardinality(Numbered')
    BY <1>1, <2>1, <2>2, <2>7, <2>8
  <2>11. ASSUME NEW u \in Callers, pc'[u] = "count"
         PROVE  token[req[u]] <= Cardinality(Numbered')
    <3>1. token[req[u]] <= Cardinality(Numbered) /\ token[req[u]] \in Nat
      BY <1>1, <2>9, <2>11 DEF TokenInv
    <3> QED
      BY <1>1, <2>7, <3>1
  <2> QED
    BY <2>1, <2>10, <2>11 DEF TokenInv
<1>6. CASE Send(t) \/ ListAdd(t)
  <2>1. /\ pc[t] \in {"send", "add"} /\ pc'[t] \in {"add", "idle"} /\ made' = made
        /\ \A u \in Callers \ {t} : pc'[u] = pc[u] /\ req'[u] = req[u]
        /\ UNCHANGED <<token, message_token>>
    BY <1>6 DEF Send, ListAdd, Return, IInv, CallType, idVars
  <2>2. Numbered' = Numbered
    BY <2>1, NumberedKept DEF Numbering
  <2> QED
    BY <2>1, <2>2, TokensKept
<1> QED
  BY <1>2, <1>3, <1>4, <1>5, <1>6 DEF Call

LEMMA TokenNext ==
  ASSUME IInv, TokenInv, [Next]_vars
  PROVE  TokenInv'
<1>1. CASE \E t \in Callers : SendBegin(t) \/ Call(t)
  BY <1>1, CallTokens
<1>2. CASE UNCHANGED <<callVars, idVars>>
  <2>1. UNCHANGED <<pc, req, made, token, message_token>>
    BY <1>2 DEF callVars, idVars
  <2>2. Numbered' = Numbered
    BY <2>1, NumberedKept
  <2> QED
    BY <2>1, <2>2, TokensKept
<1>3. CASE \E m \in toDevice : OnMessage(m)
  BY <1>2, <1>3 DEF OnMessage, OnAck, OnPiggy, OnResp
<1>4. CASE Wait
  BY <1>2, <1>4 DEF Wait, WaitPass
<1>5. CASE \E n \in Requests : TimerExpires(n) \/ Respond(n)
  BY <1>2, <1>5 DEF TimerExpires, Respond
<1>6. CASE ConstructAuth \/ ConstructReturns \/ Destroy
  BY <1>2, <1>6 DEF ConstructAuth, ConstructReturns, Destroy, Discard
<1>7. CASE YieldBegin \/ RecvTimeout \/ RecvFails
  BY <1>2, <1>7 DEF YieldBegin, RecvTimeout, RecvFails
<1>8. CASE UNCHANGED vars
  BY <1>2, <1>8 DEF vars
<1> QED
  BY <1>1, <1>3, <1>4, <1>5, <1>6, <1>7, <1>8 DEF Next

\* What is sent to the device is read as something.
LEMMA DatagramRead ==
  ASSUME IInv, TokenInv, WireFaithful, NEW n \in Requests, NEW kind \in Kinds
  PROVE  Datagram(n, kind).msg # Cleared
<1>1. msg_id[n] \in Ids /\ token[n] \in 0 .. MaxRequests
  BY CoapAssumption DEF IInv, IdType, TokenInv
<1>2. Datagram(n, kind).msg = Answer(Message(n, msg_id[n], token[n]), kind)
  BY <1>1 DEF Datagram, WireFaithful, Kinds
<1>3. Answer(Message(n, msg_id[n], token[n]), kind).class = SUCCESS
  BY DEF Answer, Message, Kinds
<1>4. Cleared.class # SUCCESS
  BY DEF Cleared, SUCCESS
<1> QED
  BY <1>2, <1>3, <1>4

LEMMA ReadNext ==
  ASSUME IInv, TokenInv, ReadInv, WireFaithful, [Next]_vars
  PROVE  ReadInv'
<1>1. ASSUME NEW S \in SUBSET Requests, Server(S)
      PROVE  ReadInv'
  <2>1. \A m \in toDevice' : \/ m \in toDevice
                             \/ \E n \in S, kind \in Kinds : m = Datagram(n, kind)
    BY <1>1 DEF Server, Kinds
  <2> QED
    BY <2>1, DatagramRead DEF ReadInv
<1>2. CASE toDevice' \subseteq toDevice
  BY <1>2 DEF ReadInv
<1>3. ASSUME NEW t \in Callers, SendBegin(t) \/ Call(t)
      PROVE  ReadInv'
  <2>1. CASE Send(t)
    <3>1. req[t] \in Requests
      BY <2>1, CallerRequest DEF Send
    <3> QED
      BY <1>1, <1>2, <2>1, <3>1 DEF Send
  <2> QED
    BY <1>2, <1>3, <2>1 DEF SendBegin, Call, IdRead, IdWriteTokenRead, TokenCount,
                            ListAdd, netVars
<1>4. CASE \E m \in toDevice : OnMessage(m)
  BY <1>2, <1>4 DEF OnMessage, OnAck, OnPiggy, OnResp, Receive
<1>5. CASE Wait
  <2>1. Again \subseteq Requests
    BY DEF Again, Overdue, IInv, ListType
  <2> QED
    BY <1>1, <1>5, <2>1 DEF Wait, WaitPass
<1>6. ASSUME NEW n \in Requests, TimerExpires(n) \/ Respond(n)
      PROVE  ReadInv'
  <2>1. toDevice' \subseteq toDevice \cup {Datagram(n, "response")}
    BY <1>6 DEF TimerExpires, Respond, netVars
  <2>2. Datagram(n, "response").msg # Cleared
    BY DatagramRead DEF Kinds
  <2> QED
    BY <2>1, <2>2 DEF ReadInv
<1>7. CASE \/ ConstructAuth \/ ConstructReturns \/ Destroy
           \/ YieldBegin \/ RecvTimeout \/ RecvFails \/ UNCHANGED vars
  BY <1>2, <1>7 DEF ConstructAuth, ConstructReturns, Destroy, Discard, YieldBegin,
                    RecvTimeout, RecvFails, vars, netVars
<1> QED
  BY <1>3, <1>4, <1>5, <1>6, <1>7 DEF Next

-----------------------------------------------------------------------------
(***************************************************************************)
(* The theorems.                                                           *)
(***************************************************************************)

\* Who has which request, and which nodes were answered, in every state.
THEOREM Invariance == Spec => []IInv
BY InitInv, NextInv, PTL DEF Spec

\* No request is answered twice, however tasks, time-outs and copies meet.
THEOREM AnsweredOnce == Spec => []HeardOnce
<1>1. IInv => HeardOnce
  BY DEF IInv
<1> QED
  BY <1>1, Invariance, PTL

\* What a handler is told is the answer to its own request.
THEOREM AnsweredByItsOwn ==
  ASSUME OneAtATime, FewRequests, WireFaithful
  PROVE  Spec => []AnswerIsMine
<1>1. IInv /\ OwnInv /\ [Next]_vars => OwnInv'
  BY OwnNext
<1>2. IInv /\ OwnInv => AnswerIsMine
  <2> SUFFICES ASSUME IInv, OwnInv
               PROVE  AnswerIsMine
    OBVIOUS
  <2>1. \A n \in Requests : ToSet(heard[n]) \subseteq {n, None}
    BY DEF OwnInv, MineInv
  <2>2. ASSUME NEW m \in toDevice
        PROVE  \E kind \in Kinds :
                 m.msg = Answer(Message(m.of, msg_id[m.of], token[m.of]), kind)
    <3>1. /\ m.of \in Numbered /\ m.of \in Requests
          /\ msg_id[m.of] = IdOf(m.of) /\ token[m.of] = m.of - 1
      BY DEF IInv, NetType, OwnInv, AnswerInv, NumberInv
    <3>2. PICK kind \in Kinds : m.msg = AtDevice[m.of, IdOf(m.of), m.of - 1, kind]
      BY DEF OwnInv, AnswerInv
    <3>3. m.msg = Answer(Message(m.of, IdOf(m.of), m.of - 1), kind)
      BY <3>1, <3>2, IdsAreIds DEF WireFaithful, Kinds
    <3> QED
      BY <3>1, <3>3
  <2> QED
    BY <2>1, <2>2 DEF AnswerIsMine, Kinds
<1> QED
  BY <1>1, <1>2, OwnInit, Invariance, PTL DEF Spec

\* The client implements RequestPromise: one result and at most one outcome of
\* each request, its own, and none after the client is destroyed.
THEOREM PromiseKept ==
  ASSUME OneAtATime, FewRequests, WireFaithful
  PROVE  Spec => KeepsPromise
<1>1. IInv /\ OwnInv /\ [Next]_vars => OwnInv'
  BY OwnNext
<1>2. IInv /\ PromiseInv /\ [Next]_vars => PromiseInv'
  BY PromiseNext
<1>3. Init => Promise!Init
  <2> SUFFICES ASSUME Init
               PROVE  Promise!Init
    OBVIOUS
  <2>1. \A n \in Requests : Outcome(n, heard[n]) = "none"
    BY Outcomes DEF Init
  <2> QED
    BY <2>1 DEF Init, Promise!Init
<1>4. IInv /\ OwnInv /\ PromiseInv /\ [Next]_vars => [Promise!Next]_(Promise!vars)
  BY StepKeepsPromise
<1> QED
  BY <1>1, <1>2, <1>3, <1>4, OwnInit, PromiseInit, Invariance, PTL
  DEF Spec, KeepsPromise, Promise!Spec

\* The type invariant: tokens are no more than requests, however tasks take
\* them, tries are no more than max_retry_count, what waits or was acknowledged
\* is a request in the list, and what comes can be read.
THEOREM TypeCorrect ==
  ASSUME WireFaithful
  PROVE  Spec => []TypeOK
<1>1. Init => TokenInv /\ ReadInv
  <2> SUFFICES ASSUME Init
               PROVE  TokenInv /\ ReadInv
    OBVIOUS
  <2>1. IInv
    BY InitInv
  <2>2. Cardinality(Numbered) >= 0
    BY <2>1, NumberedFinite
  <2> QED
    BY <2>2, CoapAssumption DEF Init, TokenInv, ReadInv, Callers
<1>2. IInv /\ TokenInv /\ ReadInv /\ [Next]_vars => TokenInv' /\ ReadInv'
  BY TokenNext, ReadNext
<1>3. IInv /\ TokenInv /\ ReadInv => TypeOK
  <2> SUFFICES ASSUME IInv, TokenInv, ReadInv
               PROVE  TypeOK
    OBVIOUS
  <2>1. req \in [Callers -> Requests \cup {None}]
    BY CoapAssumption DEF IInv, CallType, Requests, None
  <2>2. token \in [Requests -> 0 .. MaxRequests]
    BY CoapAssumption DEF IInv, IdType, TokenInv
  <2>3. message_token \in 0 .. MaxRequests
    BY NumberedFinite, CoapAssumption DEF IInv, IdType, TokenInv
  <2> QED
    BY <2>1, <2>2, <2>3 DEF TypeOK, ReadInv, IInv, CallType, IdType, ListType,
                            HeardType, ModeType, NetType
<1> QED
  BY <1>1, <1>2, <1>3, Invariance, PTL DEF Spec
====
