---------------------------- MODULE ShadowProofs ----------------------------
(***************************************************************************)
(* Proofs about Shadow: a request is answered at most once, a property's   *)
(* callback hears of a delta at most once, and a reply is taken for that   *)
(* of no other request.                                                    *)
(***************************************************************************)
EXTENDS Shadow, FiniteSetTheorems, SequenceTheorems, TLAPS

USE DEF callVars, clientVars, propVars, yieldVars, netVars, cloudVars

-----------------------------------------------------------------------------
(***************************************************************************)
(* The invariant of the requests, which nothing is assumed for: a request  *)
(* is one task's, it goes into the list once, and it leaves the list when  *)
(* it is answered.                                                         *)
(***************************************************************************)
CallType ==
  /\ pc \in [Callers -> {"idle", "token", "count", "publish", "add", "wait"}]
  /\ req \in [Callers -> 0 .. MaxRequests]
  /\ made \in 0 .. MaxRequests
  /\ answers \in [Requests -> Seq(Acks)]

Busy(t) == pc[t] # "idle"

OwnerInv ==
  /\ \A t \in Callers : Busy(t) => req[t] \in 1 .. made
  /\ \A t, u \in Callers : Busy(t) /\ Busy(u) /\ req[t] = req[u] => t = u

\* The call that makes the request has added it to the list, or given up.
Past(n) == /\ n \in 1 .. made
           /\ \A t \in Callers : Busy(t) /\ req[t] = n => pc[t] = "wait"

ListInv ==
  /\ expired \subseteq request_list
  /\ \A n \in request_list : Past(n) /\ answers[n] = <<>>

AnsweredInv ==
  \A n \in Requests : answers[n] = <<>> \/ (Past(n) /\ Len(answers[n]) = 1)

RequestInv == CallType /\ OwnerInv /\ ListInv /\ AnsweredInv

(***************************************************************************)
(* The invariant of the tokens, as long as documents are built one at a    *)
(* time: the n-th request has the token n - 1.                             *)
(***************************************************************************)
TokenType ==
  /\ documents \in Documents
  /\ token \in [Requests -> Nat]
  /\ token_num \in Nat
  /\ deltas \in Nat

BuildInv ==
  /\ \A t, u \in Callers : Building(t) /\ Building(u) => t = u
  /\ \A t \in Callers : Building(t) => req[t] = made /\ token_num = made - 1
  /\ (\A t \in Callers : ~Building(t)) => token_num = made

Numbered(n) == /\ n \in 1 .. made
               /\ \A t \in Callers : pc[t] = "token" => req[t] # n

TokenInv == \A n \in Requests : Numbered(n) => token[n] = n - 1

\* Published.
Done(n) == /\ n \in 1 .. made
           /\ \A t \in Callers : Building(t) => req[t] # n

CloudInv == \A n \in atCloud : Done(n)

ReplyInv ==
  /\ replies \subseteq Reply
  /\ \A r \in replies : r.type # "delta" => r.of \in 1 .. made /\ r.token = r.of - 1

NumberInv == TokenType /\ BuildInv /\ TokenInv /\ CloudInv /\ ReplyInv

(***************************************************************************)
(* The invariant of the deltas, with no property registered twice.         *)
(***************************************************************************)
DeltaType ==
  /\ deltas \in Nat
  /\ told \in [Properties -> Seq(Nat)]
  /\ property_handle_list \in Seq(Properties)

RegisteredInv == IsInjective(property_handle_list)

\* A delta is on its way in one message at most, which is older than the next
\* delta, and of at least one property if it is one at all.
MessageInv ==
  /\ \A r \in replies : r.delta \in 0 .. deltas
  /\ \A r \in replies : r.ps # {} => r.delta # 0
  /\ \A r, s \in replies : r.delta # 0 /\ r.delta = s.delta => r = s

ToldInv ==
  \A p \in Properties :
    /\ IsInjective(told[p])
    /\ \A i \in DOMAIN told[p] : told[p][i] \in 1 .. deltas
    /\ \A r \in replies, i \in DOMAIN told[p] : told[p][i] # r.delta

DeltaInv == DeltaType /\ RegisteredInv /\ MessageInv /\ ToldInv
-----------------------------------------------------------------------------
(***************************************************************************)
(* RequestInv.                                                             *)
(***************************************************************************)

\* Only requests are in the list.
LEMMA InRequests ==
  ASSUME RequestInv
  PROVE  request_list \subseteq Requests
  BY ShadowAssumption DEF RequestInv, ListInv, Past, CallType, Requests

\* A step that makes no request go on and answers none keeps RequestInv; a
\* timer may run out.
LEMMA RequestStays ==
  ASSUME RequestInv,
         UNCHANGED <<pc, req, made, request_list, answers>>,
         expired' \subseteq request_list'
  PROVE  RequestInv'
  BY DEF RequestInv, CallType, OwnerInv, ListInv, AnsweredInv, Past, Busy

\* A step that moves one busy task on, and does nothing else to the requests,
\* keeps RequestInv.
LEMMA RequestMoves ==
  ASSUME RequestInv,
         NEW t \in Callers, Busy(t), NEW s,
         s \in {"token", "count", "publish", "add", "idle"},
         \A n \in Requests : Past(n) => req[t] # n \/ s = "idle",
         pc' = [pc EXCEPT ![t] = s],
         req' = IF s = "idle" THEN [req EXCEPT ![t] = None] ELSE req,
         UNCHANGED <<made, request_list, answers, expired>>
  PROVE  RequestInv'
<1>1. CallType'
  BY ShadowAssumption DEF RequestInv, CallType, None
<1>2. \A u \in Callers : u # t => pc'[u] = pc[u] /\ req'[u] = req[u]
  BY DEF RequestInv, CallType
<1>3. pc'[t] = s /\ (s # "idle" => req'[t] = req[t])
  BY DEF RequestInv, CallType
<1>4. OwnerInv'
  BY <1>2, <1>3 DEF RequestInv, OwnerInv, Busy
<1>5. ASSUME NEW n \in Requests, Past(n) PROVE Past(n)'
  BY <1>2, <1>3, <1>5 DEF Past, Busy
<1>6. ListInv'
  BY <1>5, InRequests DEF RequestInv, ListInv
<1>7. AnsweredInv'
  BY <1>5 DEF RequestInv, AnsweredInv
<1> QED
  BY <1>1, <1>4, <1>6, <1>7 DEF RequestInv

\* Requests that are in the list are answered with ack and taken out.
LEMMA RequestAnswered ==
  ASSUME RequestInv,
         NEW S \in SUBSET request_list, NEW ack \in Acks,
         answers' = Answer(S, ack) \/ answers' = answers,
         request_list' = request_list \ S,
         expired' = expired \ S \/ expired' = {},
         UNCHANGED <<pc, req, made>>
  PROVE  RequestInv'
<1>1. request_list \subseteq Requests
  BY InRequests
<1>2. /\ answers' \in [Requests -> Seq(Acks)]
      /\ \A n \in Requests : n \notin S => answers'[n] = answers[n]
      /\ \A n \in S : answers'[n] = answers[n] \/ Len(answers'[n]) = 1
  <2>1. CASE answers' = answers
    BY <2>1 DEF RequestInv, CallType
  <2>2. CASE answers' = Answer(S, ack)
    <3>1. \A n \in S : answers[n] = <<>>
      BY DEF RequestInv, ListInv
    <3>2. Append(<<>>, ack) \in Seq(Acks) /\ Len(Append(<<>>, ack)) = 1
      OBVIOUS
    <3>3. ASSUME NEW n \in Requests
          PROVE  answers'[n] \in Seq(Acks)
      BY <2>2, <3>1, <3>2 DEF Answer, RequestInv, CallType
    <3>4. answers' = [n \in Requests |-> answers'[n]]
      BY <2>2 DEF Answer
    <3> QED BY <2>2, <3>1, <3>2, <3>3, <3>4, <1>1 DEF Answer
  <2> QED BY <2>1, <2>2
<1>3. \A n \in Requests : Past(n)' <=> Past(n)
  BY DEF Past, Busy
<1>4. CallType' /\ OwnerInv'
  BY <1>2 DEF RequestInv, CallType, OwnerInv, Busy
<1>5. ListInv'
  BY <1>1, <1>2, <1>3 DEF RequestInv, ListInv
<1>6. AnsweredInv'
  <2>1. \A n \in S : Past(n) /\ answers[n] = <<>>
    BY DEF RequestInv, ListInv
  <2> QED BY <2>1, <1>2, <1>3 DEF RequestInv, AnsweredInv
<1> QED
  BY <1>4, <1>5, <1>6 DEF RequestInv

\* A new request is nobody else's and has not been answered.
LEMMA RequestBeginKeeps ==
  ASSUME RequestInv, NEW t \in Callers, RequestBegin(t)
  PROVE  RequestInv'
<1>1. /\ pc[t] = "idle" /\ made < MaxRequests
      /\ made' = made + 1
      /\ req' = [req EXCEPT ![t] = made + 1]
      /\ pc' = [pc EXCEPT ![t] = "token"]
      /\ UNCHANGED <<request_list, answers, expired>>
  BY DEF RequestBegin, MayCall
<1>2. CallType'
  BY <1>1, ShadowAssumption DEF RequestInv, CallType
<1>3. \A u \in Callers : u # t => pc'[u] = pc[u] /\ req'[u] = req[u]
  BY <1>1 DEF RequestInv, CallType
<1>4. pc'[t] = "token" /\ req'[t] = made + 1
  BY <1>1 DEF RequestInv, CallType
<1>5. made \in Nat
  BY DEF RequestInv, CallType
<1>6. OwnerInv'
  <2>1. \A u \in Callers : u # t /\ Busy(u)' => req'[u] \in 1 .. made
    BY <1>3 DEF RequestInv, OwnerInv, Busy
  <2>2. \A u \in Callers : Busy(u)' => req'[u] \in 1 .. made'
    BY <2>1, <1>1, <1>4, <1>5
  <2>3. \A u \in Callers : u # t /\ Busy(u)' => req'[u] # req'[t]
    BY <2>1, <1>4, <1>5
  <2>4. \A u, v \in Callers : u # t /\ v # t /\ Busy(u)' /\ Busy(v)' /\ req'[u] = req'[v] => u = v
    BY <1>3 DEF RequestInv, OwnerInv, Busy
  <2> QED BY <2>2, <2>3, <2>4 DEF OwnerInv
<1>7. ASSUME NEW n \in Requests, Past(n) PROVE Past(n)'
  BY <1>1, <1>3, <1>4, <1>5, <1>7 DEF Past, Busy
<1>8. ListInv'
  BY <1>1, <1>7, InRequests DEF RequestInv, ListInv
<1>9. AnsweredInv'
  BY <1>1, <1>7 DEF RequestInv, AnsweredInv
<1> QED
  BY <1>2, <1>6, <1>8, <1>9 DEF RequestInv

\* A task that has not added its request yet.
LEMMA NotPast ==
  ASSUME RequestInv, NEW t \in Callers, pc[t] \in {"token", "count", "publish", "add"}
  PROVE  /\ Busy(t)
         /\ req[t] \in Requests
         /\ ~Past(req[t])
         /\ req[t] \notin request_list
         /\ answers[req[t]] = <<>>
<1>1. Busy(t) /\ req[t] \in Requests
  BY DEF Busy, RequestInv, OwnerInv, CallType, Requests
<1>2. ~Past(req[t])
  BY <1>1 DEF Past
<1> QED
  BY <1>1, <1>2 DEF RequestInv, ListInv, AnsweredInv

\* _add_request_to_list keeps RequestInv.
LEMMA AddRequestKeeps ==
  ASSUME RequestInv, NEW t \in Callers, AddRequestToList(t)
  PROVE  RequestInv'
<1>1. /\ pc[t] = "add"
      /\ UNCHANGED <<made, answers, expired>>
  BY DEF AddRequestToList
<1>2. \/ /\ pc' = [pc EXCEPT ![t] = "idle"]
         /\ req' = [req EXCEPT ![t] = None]
         /\ request_list' \in {request_list, request_list \cup {req[t]}}
      \/ /\ pc' = [pc EXCEPT ![t] = "wait"]
         /\ req' = req
         /\ request_list' = request_list \cup {req[t]}
  BY DEF AddRequestToList, Added, Return
<1>3. \A u \in Callers : u # t => pc'[u] = pc[u] /\ req'[u] = req[u]
  BY <1>2 DEF RequestInv, CallType
<1>4. pc'[t] = "idle" \/ (pc'[t] = "wait" /\ req'[t] = req[t])
  BY <1>2 DEF RequestInv, CallType
<1>5. CallType'
  <2>1. None \in 0 .. MaxRequests
    BY ShadowAssumption DEF None
  <2>2. req' \in [Callers -> 0 .. MaxRequests]
    BY <1>2, <2>1 DEF RequestInv, CallType
  <2>3. pc' \in [Callers -> {"idle", "token", "count", "publish", "add", "wait"}]
    BY <1>2 DEF RequestInv, CallType
  <2> QED BY <2>2, <2>3, <1>1 DEF RequestInv, CallType
<1>6. OwnerInv'
  BY <1>1, <1>3, <1>4 DEF RequestInv, OwnerInv, Busy
<1>7. ASSUME NEW n \in Requests, Past(n) PROVE Past(n)'
  BY <1>1, <1>3, <1>4, <1>7 DEF Past, Busy
<1>n. PICK n : n = req[t]
  OBVIOUS
<1>8. Past(n)' /\ answers[n] = <<>>
  <2>1. n \in 1 .. made
    BY <1>1, <1>n DEF RequestInv, OwnerInv, Busy
  <2>2. \A u \in Callers : u # t /\ Busy(u) => req[u] # n
    BY <1>1, <1>n DEF RequestInv, OwnerInv, Busy
  <2>3. Past(n)'
    BY <2>1, <2>2, <1>1, <1>3, <1>4 DEF Past, Busy
  <2> QED BY <2>3, <1>1, <1>n, NotPast
<1>9. ListInv'
  BY <1>1, <1>2, <1>n, <1>7, <1>8, InRequests DEF RequestInv, ListInv
<1>10. AnsweredInv'
  BY <1>1, <1>7 DEF RequestInv, AnsweredInv
<1> QED
  BY <1>5, <1>6, <1>9, <1>10 DEF RequestInv

\* Every step keeps RequestInv.
LEMMA RequestNext ==
  ASSUME RequestInv, [Next]_vars
  PROVE  RequestInv'
<1>1. expired \subseteq request_list
  BY DEF RequestInv, ListInv
<1>2. ASSUME NEW t \in Callers, TokenRead(t) \/ TokenCount(t) PROVE RequestInv'
  <2>1. pc[t] \in {"token", "count"} /\ UNCHANGED <<made, request_list, answers, expired, req>>
        /\ \E s \in {"count", "publish"} : pc' = [pc EXCEPT ![t] = s]
    BY <1>2 DEF TokenRead, TokenCount
  <2> QED BY <2>1, NotPast, RequestMoves
<1>3. ASSUME NEW t \in Callers, Publish(t) PROVE RequestInv'
  <2>1. CASE Return(t, "error")
    BY <1>3, <2>1, NotPast, RequestMoves DEF Publish, Return
  <2>2. CASE pc' = [pc EXCEPT ![t] = "add"] /\ UNCHANGED req
    BY <1>3, <2>2, NotPast, RequestMoves DEF Publish
  <2> QED BY <1>3, <2>1, <2>2 DEF Publish
<1>4. CASE SyncReturns
  <2>1. Yielder \in Callers /\ Busy(Yielder)
    BY <1>4 DEF SyncReturns, Callers, Busy
  <2> QED BY <1>4, <2>1, RequestMoves DEF SyncReturns
<1>5. CASE HandleExpired
  BY <1>1, <1>5, RequestAnswered DEF HandleExpired, Acks
<1>6. ASSUME NEW r \in replies, OnOperationResult(r) PROVE RequestInv'
  <2> DEFINE mine == {n \in request_list : SentBy(n).token = ReadOf(r).token}
  <2>1. /\ answers' = Answer(mine, "result") \/ answers' = answers
        /\ request_list' = request_list \ mine
        /\ expired' = expired \ mine
        /\ UNCHANGED <<pc, req, made>>
    BY <1>6 DEF OnOperationResult
  <2>2. mine \in SUBSET request_list /\ "result" \in Acks
    BY DEF Acks
  <2> HIDE DEF mine
  <2> QED BY <2>1, <2>2, RequestAnswered
<1>7. ASSUME NEW r \in replies, OnDelta(r) PROVE RequestInv'
  BY <1>1, <1>7, RequestStays DEF OnDelta
<1>8. CASE \/ ConstructSubscribe \/ ConstructReturns \/ OnSubscribeEvent \/ YieldEnd
           \/ Lose \/ Reconnect \/ Push
  BY <1>1, <1>8, RequestStays
    DEF ConstructSubscribe, ConstructReturns, OnSubscribeEvent, YieldEnd, Lose, Reconnect, Push
<1>9. ASSUME NEW n \in Requests, TimerExpires(n) \/ Cloud(n) PROVE RequestInv'
  BY <1>1, <1>9, RequestStays DEF TimerExpires, Cloud
<1>10. ASSUME NEW p \in Properties, RegisterProperty(p) PROVE RequestInv'
  BY <1>1, <1>10, RequestStays DEF RegisterProperty
<1>11. CASE Destroy
  <2>1. CallType' /\ OwnerInv' /\ ListInv' /\ AnsweredInv'
    BY <1>11 DEF Destroy, RequestInv, CallType, OwnerInv, ListInv, AnsweredInv, Past, Busy
  <2> QED BY <2>1 DEF RequestInv
<1>12. CASE UNCHANGED vars
  BY <1>1, <1>12, RequestStays DEF vars
<1> QED
  BY <1>2, <1>3, <1>4, <1>5, <1>6, <1>7, <1>8, <1>9, <1>10, <1>11, <1>12,
     RequestBeginKeeps, AddRequestKeeps DEF Next, Request, Yield

LEMMA RequestInvariance == Spec => []RequestInv
<1>1. Init => RequestInv
  <2> SUFFICES ASSUME Init PROVE RequestInv
    OBVIOUS
  <2>1. CallType
    BY ShadowAssumption DEF Init, CallType, None
  <2> QED
    BY <2>1 DEF Init, RequestInv, OwnerInv, ListInv, AnsweredInv, Busy
<1> QED
  BY <1>1, RequestNext, PTL DEF Spec

\* However replies, time-outs, losses and destruction mix, a request is
\* answered once at most: the walk that answers it takes it out of the list.
THEOREM AnsweredOnce == Spec => [](\A n \in Requests : Len(answers[n]) <= 1)
<1>1. RequestInv => \A n \in Requests : Len(answers[n]) <= 1
  <2> SUFFICES ASSUME RequestInv, NEW n \in Requests PROVE Len(answers[n]) <= 1
    OBVIOUS
  <2>1. CASE answers[n] = <<>>
    BY <2>1
  <2>2. CASE Len(answers[n]) = 1
    BY <2>2
  <2> QED BY <2>1, <2>2 DEF RequestInv, AnsweredInv
<1> QED
  BY <1>1, RequestInvariance, PTL

-----------------------------------------------------------------------------
(***************************************************************************)
(* NumberInv.                                                              *)
(***************************************************************************)

\* A step that builds no document and publishes nothing keeps NumberInv.
LEMMA NumberStays ==
  ASSUME NumberInv,
         UNCHANGED <<documents, token, token_num, made, deltas>>,
         \A t \in Callers : /\ pc'[t] = "token" <=> pc[t] = "token"
                            /\ pc'[t] = "count" <=> pc[t] = "count"
                            /\ Building(t) => req'[t] = req[t],
         atCloud' \subseteq atCloud,
         replies' \subseteq replies
  PROVE  NumberInv'
<1>1. TokenType' /\ BuildInv'
  BY DEF NumberInv, TokenType, BuildInv, Building
<1>2. TokenInv' /\ CloudInv' /\ ReplyInv'
  BY DEF NumberInv, TokenInv, CloudInv, ReplyInv, Numbered, Done, Building
<1> QED
  BY <1>1, <1>2 DEF NumberInv

\* What is published has its number.
LEMMA DoneToken ==
  ASSUME RequestInv, NumberInv, NEW n, Done(n)
  PROVE  n \in Requests /\ n \in 1 .. made /\ token[n] = n - 1 /\ n - 1 \in 0 .. MaxRequests
<1>1. made \in 0 .. MaxRequests /\ MaxRequests \in Nat
  BY ShadowAssumption DEF RequestInv, CallType
<1>2. n \in Requests /\ n \in 1 .. made /\ n - 1 \in 0 .. MaxRequests
  BY <1>1 DEF Done, Requests
<1>3. Numbered(n)
  BY DEF Done, Numbered, Building
<1> QED
  BY <1>2, <1>3 DEF NumberInv, TokenInv

\* A request is begun when no other document is being built.
LEMMA RequestBeginNumbers ==
  ASSUME OneBuilder, RequestInv, NumberInv, NEW t \in Callers, RequestBegin(t)
  PROVE  NumberInv'
<1>1. /\ \A u \in Callers : ~Building(u)
      /\ made' = made + 1
      /\ req' = [req EXCEPT ![t] = made + 1]
      /\ pc' = [pc EXCEPT ![t] = "token"]
      /\ UNCHANGED <<documents, token, token_num, atCloud, replies, deltas>>
  BY DEF RequestBegin
<1>2. made \in Nat /\ token_num = made
  BY <1>1 DEF RequestInv, CallType, NumberInv, BuildInv
<1>3. \A u \in Callers : u # t => pc'[u] = pc[u] /\ req'[u] = req[u]
  BY <1>1 DEF RequestInv, CallType
<1>4. pc'[t] = "token" /\ req'[t] = made + 1
  BY <1>1 DEF RequestInv, CallType
<1>5. \A u \in Callers : Building(u)' => u = t
  BY <1>1, <1>3 DEF Building
<1>6. BuildInv'
  <2>1. Building(t)'
    BY <1>4 DEF Building
  <2>2. made + 1 = made' /\ token_num' = made' - 1
    BY <1>1, <1>2
  <2> QED BY <2>1, <2>2, <1>4, <1>5 DEF BuildInv
<1>7. TokenInv'
  <2> SUFFICES ASSUME NEW n \in Requests, Numbered(n)' PROVE token'[n] = n - 1
    BY DEF TokenInv
  <2>1. n \in 1 .. made
    BY <1>1, <1>2, <1>4 DEF Numbered
  <2>2. Numbered(n)
    BY <2>1, <1>1 DEF Numbered, Building
  <2> QED BY <2>2, <1>1 DEF NumberInv, TokenInv
<1>8. CloudInv' /\ ReplyInv'
  <2>1. \A n \in 1 .. made : n \in 1 .. made' /\ n # made + 1
    BY <1>1, <1>2
  <2> QED BY <2>1, <1>1, <1>4, <1>5 DEF NumberInv, CloudInv, ReplyInv, Done
<1>9. TokenType'
  BY <1>1 DEF NumberInv, TokenType
<1> QED
  BY <1>6, <1>7, <1>8, <1>9 DEF NumberInv

\* The number is read ...
LEMMA TokenReadNumbers ==
  ASSUME RequestInv, NumberInv, NEW t \in Callers, TokenRead(t)
  PROVE  NumberInv'
<1>1. /\ pc[t] = "token"
      /\ token' = [token EXCEPT ![req[t]] = token_num]
      /\ pc' = [pc EXCEPT ![t] = "count"]
      /\ UNCHANGED <<req, made, documents, token_num, atCloud, replies, deltas>>
  BY DEF TokenRead
<1>2. /\ \A u \in Callers : Building(u) => u = t
      /\ req[t] = made /\ token_num = made - 1
  BY <1>1 DEF NumberInv, BuildInv, Building
<1>3. \A u \in Callers : Building(u)' <=> Building(u)
  BY <1>1 DEF Building, RequestInv, CallType
<1>4. req[t] \in Requests
  BY <1>1, NotPast
<1>5. TokenType' /\ BuildInv'
  BY <1>1, <1>3 DEF NumberInv, TokenType, BuildInv
<1>6. TokenInv'
  <2> SUFFICES ASSUME NEW n \in Requests, Numbered(n)' PROVE token'[n] = n - 1
    BY DEF TokenInv
  <2>1. CASE n = req[t]
    <3>1. token'[n] = token_num
      BY <2>1, <1>1, <1>4 DEF NumberInv, TokenType
    <3> QED BY <3>1, <2>1, <1>2
  <2>2. CASE n # req[t]
    <3>1. Numbered(n)
      BY <2>2, <1>1, <1>2 DEF Numbered, Building
    <3> QED BY <3>1, <2>2, <1>1 DEF NumberInv, TokenInv, TokenType
  <2> QED BY <2>1, <2>2
<1>7. CloudInv' /\ ReplyInv'
  BY <1>1, <1>3 DEF NumberInv, CloudInv, ReplyInv, Done
<1> QED
  BY <1>5, <1>6, <1>7 DEF NumberInv

\* ... and counted up.
LEMMA TokenCountNumbers ==
  ASSUME RequestInv, NumberInv, NEW t \in Callers, TokenCount(t)
  PROVE  NumberInv'
<1>1. /\ pc[t] = "count"
      /\ token_num' = token[req[t]] + 1
      /\ pc' = [pc EXCEPT ![t] = "publish"]
      /\ UNCHANGED <<req, made, token, documents, atCloud, replies, deltas>>
  BY DEF TokenCount
<1>2. /\ \A u \in Callers : Building(u) => u = t
      /\ req[t] = made
  BY <1>1 DEF NumberInv, BuildInv, Building
<1>3. \A u \in Callers : ~Building(u)'
  BY <1>1, <1>2 DEF Building, RequestInv, CallType
<1>4. req[t] \in Requests /\ req[t] \in 1 .. made /\ made \in Nat
  BY <1>1, NotPast DEF RequestInv, OwnerInv, CallType
<1>5. Numbered(req[t])
  BY <1>1, <1>2, <1>4 DEF Numbered, Building
<1>6. token_num' = made
  BY <1>1, <1>2, <1>4, <1>5 DEF NumberInv, TokenInv
<1>7. TokenType' /\ BuildInv'
  BY <1>1, <1>3, <1>4, <1>6 DEF NumberInv, TokenType, BuildInv
<1>8. TokenInv'
  <2>1. \A u \in Callers : pc[u] # "token"
    BY <1>1, <1>2 DEF Building
  <2> QED BY <2>1, <1>1 DEF NumberInv, TokenInv, Numbered
<1>9. CloudInv' /\ ReplyInv'
  BY <1>1, <1>3 DEF NumberInv, CloudInv, ReplyInv, Done
<1> QED
  BY <1>7, <1>8, <1>9 DEF NumberInv

\* A document that goes out has been built.
LEMMA PublishNumbers ==
  ASSUME RequestInv, NumberInv, NEW t \in Callers, Publish(t)
  PROVE  NumberInv'
<1>1. /\ pc[t] = "publish"
      /\ \E s \in {"idle", "add"} : pc' = [pc EXCEPT ![t] = s]
      /\ \A u \in Callers : u # t => req'[u] = req[u]
      /\ atCloud' \subseteq atCloud \cup {req[t]}
      /\ UNCHANGED <<made, token, documents, token_num, replies, deltas>>
  BY DEF Publish, Return, RequestInv, CallType
<1>2. \A u \in Callers :
        /\ pc'[u] = "token" <=> pc[u] = "token"
        /\ pc'[u] = "count" <=> pc[u] = "count"
        /\ Building(u) => req'[u] = req[u]
  BY <1>1 DEF RequestInv, CallType, Building
<1>n. PICK n : n = req[t]
  OBVIOUS
<1>3. Done(n)'
  <2>1. n \in 1 .. made /\ \A u \in Callers : Building(u) => req[u] # n
    BY <1>1, <1>n DEF RequestInv, OwnerInv, Busy, Building
  <2> QED BY <2>1, <1>1, <1>2 DEF Done, Building
<1>4. CloudInv'
  BY <1>1, <1>2, <1>3, <1>n DEF NumberInv, CloudInv, Done, Building
<1>5. TokenType' /\ BuildInv'
  BY <1>1, <1>2 DEF NumberInv, TokenType, BuildInv, Building
<1>6. TokenInv' /\ ReplyInv'
  BY <1>1, <1>2 DEF NumberInv, TokenInv, ReplyInv, Numbered, Building
<1> QED
  BY <1>4, <1>5, <1>6 DEF NumberInv

\* What the cloud sends, as a message.
LEMMA AnswersAdds ==
  ASSUME deltas \in Nat,
         NEW of \in Requests \cup {None}, NEW value \in 0 .. MaxRequests,
         NEW type \in {"get", "update", "delta"}, NEW code \in {"0", "none"},
         NEW ps \in SUBSET Properties,
         Answers(of, value, type, code, ps)
  PROVE  \E m \in Reply :
           /\ replies' = replies \cup {m}
           /\ m.of = of /\ m.token = value /\ m.type = type /\ m.ps = ps
           /\ m.delta = IF ps = {} THEN 0 ELSE deltas + 1
           /\ deltas' = IF ps = {} THEN deltas ELSE deltas + 1
<1> DEFINE d == IF ps = {} THEN 0 ELSE deltas + 1
           m == [of |-> of, token |-> value, type |-> type, code |-> code,
                 delta |-> d, ps |-> ps]
<1>1. d \in 0 .. MaxDeltas
  BY ShadowAssumption DEF Answers
<1>2. m \in Reply
  BY <1>1 DEF Reply
<1>3. replies' = replies \cup {m} /\ deltas' = IF ps = {} THEN deltas ELSE deltas + 1
  BY DEF Answers
<1> QED
  BY <1>2, <1>3

\* The cloud answers with the token it was sent, or pushes a delta.
LEMMA CloudNumbers ==
  ASSUME RequestInv, NumberInv, Push \/ \E n \in Requests : Cloud(n)
  PROVE  /\ NumberInv'
         /\ \E m \in Reply :
              /\ replies' = replies \cup {m}
              /\ m.delta = IF m.ps = {} THEN 0 ELSE deltas + 1
              /\ deltas' = IF m.ps = {} THEN deltas ELSE deltas + 1
<1>1. /\ UNCHANGED <<pc, req, made, token, documents, token_num>>
      /\ atCloud' \subseteq atCloud
  BY DEF Push, Cloud
<1>t. deltas \in Nat
  BY DEF NumberInv, TokenType
<1>2. PICK m \in Reply :
        /\ replies' = replies \cup {m}
        /\ m.type # "delta" => m.of \in 1 .. made /\ m.token = m.of - 1
        /\ m.delta = IF m.ps = {} THEN 0 ELSE deltas + 1
        /\ deltas' = IF m.ps = {} THEN deltas ELSE deltas + 1
  <2>1. CASE Push
    <3>1. PICK ps \in SUBSET Properties : Answers(None, 0, "delta", "none", ps)
      BY <2>1 DEF Push
    <3>2. None \in Requests \cup {None} /\ 0 \in 0 .. MaxRequests
      BY ShadowAssumption
    <3> QED BY <3>1, <3>2, <1>t, AnswersAdds
  <2>2. CASE \E n \in Requests : Cloud(n)
    <3>1. PICK n \in Requests : Cloud(n)
      BY <2>2
    <3>2. n \in 1 .. made /\ token[n] = n - 1 /\ n - 1 \in 0 .. MaxRequests
      BY <3>1, DoneToken DEF Cloud, NumberInv, CloudInv
    <3>3. PICK code \in {"0", "none"}, ps \in SUBSET Properties :
            Answers(n, token[n], Method(documents[n]), code, ps)
      BY <3>1 DEF Cloud
    <3>4. Method(documents[n]) \in {"get", "update"}
      BY DEF Method
    <3> QED BY <3>2, <3>3, <3>4, <1>t, AnswersAdds
  <2> QED BY <2>1, <2>2
<1>3. TokenType' /\ BuildInv'
  BY <1>1, <1>2 DEF NumberInv, TokenType, BuildInv, Building
<1>4. TokenInv' /\ CloudInv'
  BY <1>1 DEF NumberInv, TokenInv, CloudInv, Numbered, Done, Building
<1>5. ReplyInv'
  BY <1>1, <1>2 DEF NumberInv, ReplyInv
<1> QED
  BY <1>2, <1>3, <1>4, <1>5 DEF NumberInv

\* Every step keeps NumberInv.
LEMMA NumberNext ==
  ASSUME OneBuilder, RequestInv, NumberInv, [Next]_vars
  PROVE  NumberInv'
<1>1. CASE \/ ConstructSubscribe \/ ConstructReturns \/ HandleExpired \/ OnSubscribeEvent
           \/ YieldEnd \/ Lose \/ Reconnect \/ Destroy
           \/ UNCHANGED vars
  BY <1>1, NumberStays
    DEF ConstructSubscribe, ConstructReturns, HandleExpired, OnSubscribeEvent, YieldEnd,
        Lose, Reconnect, Destroy, vars
<1>2. CASE \/ \E r \in replies : OnOperationResult(r) \/ OnDelta(r)
           \/ \E n \in Requests : TimerExpires(n)
           \/ \E p \in Properties : RegisterProperty(p)
  <2>1. /\ UNCHANGED <<documents, token, token_num, made, pc, req, atCloud, deltas>>
        /\ replies' \subseteq replies
    BY <1>2 DEF OnOperationResult, OnDelta, TimerExpires, RegisterProperty
  <2> QED BY <2>1, NumberStays
<1>3. ASSUME NEW t \in Callers, AddRequestToList(t) PROVE NumberInv'
  <2>1. /\ pc[t] = "add"
        /\ \E s \in {"idle", "wait"} : pc' = [pc EXCEPT ![t] = s]
        /\ \A u \in Callers : u # t => req'[u] = req[u]
        /\ UNCHANGED <<documents, token, token_num, made, atCloud, replies, deltas>>
    BY <1>3 DEF AddRequestToList, Added, Return, RequestInv, CallType
  <2>2. \A u \in Callers :
          /\ pc'[u] = "token" <=> pc[u] = "token"
          /\ pc'[u] = "count" <=> pc[u] = "count"
          /\ Building(u) => req'[u] = req[u]
    BY <2>1 DEF RequestInv, CallType, Building
  <2> QED BY <2>1, <2>2, NumberStays
<1>4. CASE SyncReturns
  <2>1. /\ pc[Yielder] = "wait"
        /\ pc' = [pc EXCEPT ![Yielder] = "idle"]
        /\ \A u \in Callers : u # Yielder => req'[u] = req[u]
        /\ UNCHANGED <<documents, token, token_num, made, atCloud, replies, deltas>>
    BY <1>4 DEF SyncReturns, RequestInv, CallType
  <2>2. \A u \in Callers :
          /\ pc'[u] = "token" <=> pc[u] = "token"
          /\ pc'[u] = "count" <=> pc[u] = "count"
          /\ Building(u) => req'[u] = req[u]
    BY <2>1 DEF RequestInv, CallType, Building
  <2> QED BY <2>1, <2>2, NumberStays
<1> QED
  BY <1>1, <1>2, <1>3, <1>4, RequestBeginNumbers, TokenReadNumbers, TokenCountNumbers,
     PublishNumbers, CloudNumbers DEF Next, Request, Yield

LEMMA NumberInvariance ==
  ASSUME OneBuilder
  PROVE  Spec => [](RequestInv /\ NumberInv)
<1>1. Init => NumberInv
  <2> SUFFICES ASSUME Init PROVE NumberInv
    OBVIOUS
  <2>1. TokenType /\ BuildInv
    BY DEF Init, TokenType, BuildInv, Building
  <2>2. TokenInv /\ CloudInv /\ ReplyInv
    BY DEF Init, TokenInv, CloudInv, ReplyInv, Numbered
  <2> QED BY <2>1, <2>2 DEF NumberInv
<1>2. RequestInv /\ NumberInv /\ [Next]_vars => NumberInv'
  BY NumberNext
<1> QED
  BY <1>1, <1>2, RequestInvariance, PTL DEF Spec

\* A reply is taken for its own request or for none.
LEMMA OwnReply ==
  ASSUME ReadsAsMeant, RequestInv, NumberInv,
         NEW r \in replies, ReadOf(r).type # "delta",
         NEW n \in request_list, SentBy(n).token = ReadOf(r).token
  PROVE  n = r.of
<1>1. r \in Reply /\ (r.type # "delta" => r.of \in 1 .. made /\ r.token = r.of - 1)
  BY DEF NumberInv, ReplyInv
<1>2. r.type # "delta"
  BY <1>1 DEF ReadsAsMeant
<1>3. Done(n)
  BY DEF RequestInv, ListInv, Past, Done, Building, Busy
<1>4. n \in Requests /\ token[n] = n - 1 /\ token[n] \in 0 .. MaxRequests /\ documents \in Documents
      /\ n \in 1 .. made
  BY <1>3, DoneToken DEF NumberInv, TokenType
<1>5. token[n] = r.token
  BY <1>1, <1>2, <1>4 DEF ReadsAsMeant, SentBy
<1>6. made \in Nat
  BY DEF RequestInv, CallType
<1> QED
  BY <1>1, <1>2, <1>4, <1>5, <1>6

\* The callback of a request hears what the cloud said of that request: the
\* token of a reply is that of no other request in the list.
THEOREM RepliesOwn ==
  ASSUME OneBuilder, ReadsAsMeant
  PROVE  Spec => RepliesFindTheirOwn
<1> DEFINE Own == \A r \in replies : OnOperationResult(r) =>
                    \A n \in Requests : answers'[n] # answers[n] => n = r.of
<1>1. RequestInv /\ NumberInv => Own
  <2> SUFFICES ASSUME RequestInv, NumberInv, NEW r \in replies, OnOperationResult(r),
                      NEW n \in Requests, answers'[n] # answers[n]
               PROVE  n = r.of
    OBVIOUS
  <2>1. n \in request_list /\ SentBy(n).token = ReadOf(r).token /\ ReadOf(r).type # "delta"
    BY DEF OnOperationResult, Answer, RequestInv, CallType
  <2> QED BY <2>1, OwnReply
<1> QED
  BY <1>1, NumberInvariance, PTL DEF RepliesFindTheirOwn

-----------------------------------------------------------------------------
(***************************************************************************)
(* DeltaInv.                                                               *)
(***************************************************************************)

\* A property that is registered once is in the list once at most.
LEMMA RegisteredAtMostOnce ==
  ASSUME DeltaInv, NEW p
  PROVE  Cardinality({i \in DOMAIN property_handle_list : property_handle_list[i] = p})
           \in {0, 1}
<1> DEFINE S == {i \in DOMAIN property_handle_list : property_handle_list[i] = p}
<1>1. \A i, j \in S : i = j
  BY DEF DeltaInv, RegisteredInv, IsInjective
<1>2. CASE S = {}
  BY <1>2, FS_EmptySet
<1>3. CASE S # {}
  <2>1. PICK i : S = {i}
    BY <1>1, <1>3
  <2>2. Cardinality({i}) = 1
    BY FS_Singleton
  <2> QED BY <2>1, <2>2
<1> QED
  BY <1>2, <1>3

\* A sequence and one more value, or none.
LEMMA OneMore ==
  ASSUME NEW s \in Seq(Nat), NEW d \in Nat, NEW k \in {0, 1}, NEW u,
         u = s \o [i \in 1 .. k |-> d]
  PROVE  /\ u \in Seq(Nat)
         /\ DOMAIN s \subseteq DOMAIN u
         /\ \A i \in DOMAIN s : u[i] = s[i]
         /\ \A i \in DOMAIN u \ DOMAIN s : k = 1 /\ u[i] = d /\ i = Len(s) + 1
<1> DEFINE e == [i \in 1 .. k |-> d]
<1>1. e \in Seq(Nat) /\ Len(e) = k
  OBVIOUS
<1>2. \A i \in 1 .. k : e[i] = d
  OBVIOUS
<1>3. u = s \o e
  OBVIOUS
<1> HIDE DEF e
<1>4. /\ u \in Seq(Nat) /\ Len(u) = Len(s) + k
      /\ \A i \in 1 .. Len(s) : u[i] = s[i]
      /\ \A i \in Len(s) + 1 .. Len(s) + k : u[i] = e[i - Len(s)]
  BY <1>1, <1>3
<1>5. /\ DOMAIN s = 1 .. Len(s) /\ DOMAIN u = 1 .. Len(u)
      /\ Len(s) \in Nat /\ Len(u) \in Nat
  BY <1>4
<1>6. ASSUME NEW i \in DOMAIN u \ DOMAIN s
      PROVE  k = 1 /\ i = Len(s) + 1 /\ u[i] = d
  <2>1. i \in Len(s) + 1 .. Len(s) + k
    BY <1>4, <1>5
  <2>2. k = 1 /\ i = Len(s) + 1
    BY <2>1, <1>5
  <2>3. u[i] = e[i - Len(s)] /\ i - Len(s) = 1
    BY <2>1, <2>2, <1>4, <1>5
  <2> QED BY <2>2, <2>3, <1>2
<1> QED
  BY <1>4, <1>5, <1>6

\* The callbacks hear a message once at most, and only of properties it names.
LEMMA HandleDeltaTells ==
  ASSUME DeltaInv, NEW r, NEW k \in {0, 1}, HandleDelta(r, k)
  PROVE  /\ told' = [p \in Properties |-> told'[p]]
         /\ \A p \in Properties : \E t \in {0, 1} :
              /\ told'[p] = told[p] \o [i \in 1 .. t |-> r.delta]
              /\ t = 1 => p \in ReadOf(r).ps
<1> DEFINE C(p) == Cardinality({i \in DOMAIN property_handle_list :
                                  property_handle_list[i] = p})
           T(p) == IF p \in ReadOf(r).ps THEN k * C(p) ELSE 0
<1>1. told' = [p \in Properties |-> told[p] \o [i \in 1 .. T(p) |-> r.delta]]
  BY DEF HandleDelta
<1>2. \A p : C(p) \in {0, 1}
  BY RegisteredAtMostOnce
<1> HIDE DEF C
<1>3. \A p : k * C(p) \in {0, 1}
  BY <1>2
<1>4. \A p : T(p) \in {0, 1} /\ (T(p) = 1 => p \in ReadOf(r).ps)
  BY <1>3
<1> HIDE DEF T
<1> QED
  BY <1>1, <1>4

\* A message that is heard once keeps DeltaInv.
LEMMA DeltaHeard ==
  ASSUME ReadsAsMeant, NumberInv, DeltaInv,
         NEW r \in replies, NEW k \in {0, 1}, HandleDelta(r, k),
         replies' = replies \ {r}, UNCHANGED <<deltas, property_handle_list>>
  PROVE  DeltaInv'
<1>1. r \in Reply /\ ReadOf(r).ps = r.ps
  BY DEF NumberInv, ReplyInv, ReadsAsMeant
<1>2. /\ deltas \in Nat /\ r.delta \in 0 .. deltas
      /\ r.ps # {} => r.delta # 0
      /\ \A s \in replies' : r.delta # 0 => s.delta # r.delta
  BY DEF DeltaInv, DeltaType, MessageInv
<1>d. PICK d \in Nat : d = r.delta
  BY <1>2
<1>3. ASSUME NEW p \in Properties
      PROVE  /\ told'[p] \in Seq(Nat)
             /\ IsInjective(told'[p])
             /\ \A i \in DOMAIN told'[p] : told'[p][i] \in 1 .. deltas
             /\ \A s \in replies', i \in DOMAIN told'[p] : told'[p][i] # s.delta
  <2>1. PICK t \in {0, 1} : /\ told'[p] = told[p] \o [i \in 1 .. t |-> d]
                            /\ t = 1 => p \in r.ps
    BY <1>1, <1>d, HandleDeltaTells
  <2>u. PICK u : u = told'[p]
    OBVIOUS
  <2>s. PICK s \in Seq(Nat) : s = told[p]
    BY DEF DeltaInv, DeltaType
  <2>2. /\ u \in Seq(Nat)
        /\ DOMAIN s \subseteq DOMAIN u
        /\ \A i \in DOMAIN s : u[i] = s[i]
        /\ \A i \in DOMAIN u \ DOMAIN s : t = 1 /\ u[i] = d /\ i = Len(s) + 1
    BY <2>1, <2>u, <2>s, OneMore, SMTT(30)
  <2>3. /\ IsInjective(s)
        /\ \A i \in DOMAIN s : s[i] \in 1 .. deltas
        /\ \A m \in replies, i \in DOMAIN s : s[i] # m.delta
    BY <2>s DEF DeltaInv, ToldInv
  <2>4. \A i \in DOMAIN s : s[i] # d
    BY <2>3, <1>d
  <2>5. \A i \in DOMAIN u \ DOMAIN s : d # 0
    BY <2>1, <2>2, <1>2, <1>d
  <2>6. IsInjective(u)
    BY <2>2, <2>3, <2>4 DEF IsInjective
  <2>7. \A i \in DOMAIN u : u[i] \in 1 .. deltas
    <3> SUFFICES ASSUME NEW i \in DOMAIN u PROVE u[i] \in 1 .. deltas
      OBVIOUS
    <3>1. CASE i \in DOMAIN s
      BY <3>1, <2>2, <2>3
    <3>2. CASE i \notin DOMAIN s
      BY <3>2, <2>2, <2>5, <1>2, <1>d
    <3> QED BY <3>1, <3>2
  <2>8. \A m \in replies', i \in DOMAIN u : u[i] # m.delta
    <3> SUFFICES ASSUME NEW m \in replies', NEW i \in DOMAIN u PROVE u[i] # m.delta
      OBVIOUS
    <3>1. CASE i \in DOMAIN s
      BY <3>1, <2>2, <2>3
    <3>2. CASE i \notin DOMAIN s
      BY <3>2, <2>2, <2>5, <1>2, <1>d
    <3> QED BY <3>1, <3>2
  <2> QED BY <2>2, <2>6, <2>7, <2>8, <2>u
<1>4. ToldInv'
  BY <1>3 DEF ToldInv
<1>5. told' \in [Properties -> Seq(Nat)]
  BY <1>3, HandleDeltaTells
<1>6. DeltaType' /\ RegisteredInv'
  BY <1>5 DEF DeltaInv, DeltaType, RegisteredInv
<1>7. MessageInv'
  BY DEF DeltaInv, MessageInv
<1> QED
  BY <1>4, <1>6, <1>7 DEF DeltaInv

\* A step that sends nothing, tells nobody and registers nothing.
LEMMA DeltaStays ==
  ASSUME DeltaInv, replies' \subseteq replies,
         UNCHANGED <<deltas, told>>,
         property_handle_list' \in {property_handle_list, <<>>}
  PROVE  DeltaInv'
<1>1. DeltaType'
  <2>1. <<>> \in Seq(Properties)
    OBVIOUS
  <2>2. property_handle_list' \in Seq(Properties)
    BY <2>1 DEF DeltaInv, DeltaType
  <2> QED BY <2>2 DEF DeltaInv, DeltaType
<1>2. RegisteredInv'
  BY DEF DeltaInv, RegisteredInv, IsInjective
<1>3. MessageInv' /\ ToldInv'
  BY DEF DeltaInv, MessageInv, ToldInv
<1> QED
  BY <1>1, <1>2, <1>3 DEF DeltaInv

\* What the cloud sends next is newer than all that was told.
LEMMA DeltaSent ==
  ASSUME DeltaInv, UNCHANGED <<told, property_handle_list>>,
         NEW m, replies' = replies \cup {m},
         m.delta = IF m.ps = {} THEN 0 ELSE deltas + 1,
         deltas' = IF m.ps = {} THEN deltas ELSE deltas + 1
  PROVE  DeltaInv'
<1>1. deltas \in Nat /\ deltas' \in Nat
  <2>1. deltas \in Nat
    BY DEF DeltaInv, DeltaType
  <2>2. CASE m.ps = {}
    BY <2>1, <2>2
  <2>3. CASE m.ps # {}
    BY <2>1, <2>3
  <2> QED BY <2>1, <2>2, <2>3
<1>2. DeltaType' /\ RegisteredInv'
  BY <1>1 DEF DeltaInv, DeltaType, RegisteredInv
<1>3. /\ m.delta \in 0 .. deltas' /\ \A n \in 0 .. deltas : n \in 0 .. deltas'
      /\ m.delta = 0 \/ m.delta = deltas + 1
      /\ m.ps # {} => m.delta # 0
  BY <1>1
<1>4. \A r \in replies : r.delta \in 0 .. deltas /\ r.delta # deltas + 1
  BY <1>1 DEF DeltaInv, MessageInv
<1>5. MessageInv'
  BY <1>3, <1>4 DEF DeltaInv, MessageInv
<1>6. \A p \in Properties : \A i \in DOMAIN told[p] :
        told[p][i] \in 1 .. deltas' /\ told[p][i] # m.delta
  <2> SUFFICES ASSUME NEW p \in Properties, NEW i \in DOMAIN told[p]
               PROVE  told[p][i] \in 1 .. deltas' /\ told[p][i] # m.delta
    OBVIOUS
  <2>1. told[p][i] \in 1 .. deltas
    BY DEF DeltaInv, ToldInv
  <2> QED BY <2>1, <1>1, <1>3
<1>7. ToldInv'
  BY <1>6 DEF DeltaInv, ToldInv
<1> QED
  BY <1>2, <1>5, <1>7 DEF DeltaInv

\* A property is registered that was not.
LEMMA DeltaRegistered ==
  ASSUME RegisterOnce, DeltaInv, NEW p \in Properties, RegisterProperty(p)
  PROVE  DeltaInv'
<1>1. /\ p \notin ToSet(property_handle_list)
      /\ property_handle_list' = Append(property_handle_list, p)
      /\ UNCHANGED <<deltas, told, replies>>
  BY DEF RegisterProperty
<1>2. property_handle_list \in Seq(Properties)
  BY DEF DeltaInv, DeltaType
<1>3. \A i \in DOMAIN property_handle_list : property_handle_list[i] # p
  BY <1>1 DEF ToSet
<1>4. RegisteredInv'
  BY <1>1, <1>2, <1>3 DEF DeltaInv, RegisteredInv, IsInjective
<1>5. DeltaType' /\ MessageInv' /\ ToldInv'
  BY <1>1, <1>2 DEF DeltaInv, DeltaType, MessageInv, ToldInv
<1> QED
  BY <1>4, <1>5 DEF DeltaInv

\* A reply is for one request at most, so its delta is heard once at most.
LEMMA ResultHeard ==
  ASSUME ReadsAsMeant, RequestInv, NumberInv, DeltaInv,
         NEW r \in replies, OnOperationResult(r)
  PROVE  DeltaInv'
<1> DEFINE mine == {n \in request_list : SentBy(n).token = ReadOf(r).token}
           k == IF ReadOf(r).result /\ ReadOf(r).type = "get"
                THEN Cardinality(mine) ELSE 0
<1>1. /\ ReadOf(r).type # "delta" /\ replies' = replies \ {r}
      /\ HandleDelta(r, k) /\ UNCHANGED <<deltas, property_handle_list>>
  BY DEF OnOperationResult
<1>2. mine \subseteq {r.of}
  BY <1>1, OwnReply
<1>3. Cardinality(mine) \in {0, 1}
  <2>1. mine = {} \/ mine = {r.of}
    BY <1>2
  <2>2. Cardinality({}) = 0 /\ Cardinality({r.of}) = 1
    BY FS_EmptySet, FS_Singleton
  <2> HIDE DEF mine
  <2> QED BY <2>1, <2>2
<1> HIDE DEF mine
<1>4. k \in {0, 1}
  BY <1>3
<1> HIDE DEF k
<1> QED
  BY <1>1, <1>4, DeltaHeard

\* Every step keeps DeltaInv.
LEMMA DeltaNext ==
  ASSUME RegisterOnce, ReadsAsMeant, RequestInv, NumberInv, DeltaInv, [Next]_vars
  PROVE  DeltaInv'
<1>1. CASE \/ ConstructSubscribe \/ ConstructReturns \/ HandleExpired \/ OnSubscribeEvent
           \/ YieldEnd \/ Lose \/ Reconnect \/ SyncReturns \/ Destroy
           \/ UNCHANGED vars
  BY <1>1, DeltaStays
    DEF ConstructSubscribe, ConstructReturns, HandleExpired, OnSubscribeEvent, YieldEnd,
        Lose, Reconnect, SyncReturns, Destroy, vars
<1>2. ASSUME NEW t \in Callers, RequestBegin(t) \/ Request(t) PROVE DeltaInv'
  BY <1>2, DeltaStays
    DEF RequestBegin, Request, TokenRead, TokenCount, Publish, AddRequestToList
<1>3. ASSUME NEW n \in Requests, TimerExpires(n) PROVE DeltaInv'
  BY <1>3, DeltaStays DEF TimerExpires
<1>4. CASE Push \/ \E n \in Requests : Cloud(n)
  <2>1. UNCHANGED <<told, property_handle_list>>
    BY <1>4 DEF Push, Cloud
  <2> QED BY <1>4, <2>1, CloudNumbers, DeltaSent
<1>5. ASSUME NEW r \in replies, OnDelta(r) PROVE DeltaInv'
  BY <1>5, DeltaHeard DEF OnDelta
<1> QED
  BY <1>1, <1>2, <1>3, <1>4, <1>5, DeltaRegistered, ResultHeard DEF Next, Yield

\* The callback of a request, and that of a property for each delta, is called
\* once at most: a delta is sent once, in a message that no more than one
\* request takes for its own.
THEOREM CalledOnce ==
  ASSUME OneBuilder, RegisterOnce, ReadsAsMeant
  PROVE  Spec => []OneCallback
<1>1. Init => DeltaInv
  BY DEF Init, DeltaInv, DeltaType, RegisteredInv, MessageInv, ToldInv, IsInjective
<1>2. RequestInv /\ NumberInv /\ DeltaInv /\ [Next]_vars => DeltaInv'
  BY DeltaNext
<1>3. Spec => []DeltaInv
  BY <1>1, <1>2, NumberInvariance, PTL DEF Spec
<1>4. DeltaInv /\ (\A n \in Requests : Len(answers[n]) <= 1) => OneCallback
  BY DEF DeltaInv, ToldInv, OneCallback
<1> QED
  BY <1>3, <1>4, AnsweredOnce, PTL

-----------------------------------------------------------------------------
(***************************************************************************)
(* The type invariant: the bounds of the list, the tokens and the deltas.  *)
(***************************************************************************)
StateType ==
  /\ documents \in Documents
  /\ returned \in [Requests -> {"none", "success", "error"}]
  /\ sync_status \in {-1, 0, 1}
  /\ mode \in {"construct", "sync", "free", "destroyed"}
  /\ inYield \in BOOLEAN /\ connected \in BOOLEAN
  /\ subscribed \in BOOLEAN /\ pending \in BOOLEAN
  /\ losses \in 0 .. MaxLosses
  /\ property_handle_list \in Seq(Properties)

CapacityInv ==
  IsFiniteSet(request_list) /\ Cardinality(request_list) <= MAX_APPENDING_REQUEST

\* The requests that have counted their token: it is not more than they are,
\* however many tasks take theirs at the same time.
Counted == {n \in 1 .. made : \A t \in Callers : Building(t) => req[t] # n}

CountInv ==
  /\ token \in [Requests -> 0 .. MaxRequests]
  /\ token_num \in 0 .. Cardinality(Counted)
  /\ \A t \in Callers : pc[t] = "count" => token[req[t]] <= Cardinality(Counted)

CloudType ==
  /\ deltas \in 0 .. MaxDeltas
  /\ atCloud \subseteq Requests
  /\ replies \subseteq Reply
  /\ \A r \in replies : r.ps # {} => r.delta # 0

ToldType ==
  /\ data \in [Properties -> 0 .. MaxDeltas]
  /\ told \in [Properties -> Seq(1 .. MaxDeltas)]

BoundInv == StateType /\ CapacityInv /\ CountInv /\ CloudType /\ ToldType

-----------------------------------------------------------------------------
LEMMA CountedFinite ==
  ASSUME RequestInv
  PROVE  IsFiniteSet(Counted) /\ Cardinality(Counted) \in 0 .. MaxRequests
<1>1. IsFiniteSet(Requests) /\ Cardinality(Requests) = MaxRequests
  BY FS_Interval, ShadowAssumption DEF Requests
<1>2. Counted \subseteq Requests
  BY ShadowAssumption DEF Counted, Requests, RequestInv, CallType
<1>3. IsFiniteSet(Counted) /\ Cardinality(Counted) <= Cardinality(Requests)
  BY <1>1, <1>2, FS_Subset
<1> QED
  BY <1>1, <1>3, FS_CardinalityType

\* A step in which no call takes a token and none counts.
LEMMA CountStays ==
  ASSUME RequestInv, CountInv, UNCHANGED <<made, token, token_num>>,
         \A t \in Callers :
           \/ pc'[t] = pc[t] /\ req'[t] = req[t]
           \/ ~Building(t) /\ pc'[t] \notin {"token", "count"}
  PROVE  CountInv'
<1>1. \A t \in Callers : /\ Building(t)' <=> Building(t)
                         /\ Building(t) => req'[t] = req[t]
                         /\ pc'[t] = "count" => pc[t] = "count" /\ req'[t] = req[t]
  BY DEF Building
<1>2. Counted' = Counted
  BY <1>1 DEF Counted
<1> QED
  BY <1>1, <1>2 DEF CountInv

LEMMA RequestsCount ==
  ASSUME RequestInv, CountInv, NEW t \in Callers, RequestBegin(t) \/ Request(t)
  PROVE  CountInv'
<1>1. /\ IsFiniteSet(Counted) /\ Cardinality(Counted) \in 0 .. MaxRequests
      /\ made \in 0 .. MaxRequests
      /\ \A n \in Requests : token[n] \in 0 .. MaxRequests
  BY CountedFinite DEF RequestInv, CallType, CountInv
<1>2. CASE RequestBegin(t)
  <2>1. /\ pc'[t] = "token" /\ req'[t] = made + 1 /\ pc[t] = "idle"
        /\ \A u \in Callers \ {t} : pc'[u] = pc[u] /\ req'[u] = req[u]
        /\ made' = made + 1 /\ UNCHANGED <<token, token_num>>
    BY <1>2 DEF RequestBegin, MayCall, RequestInv, CallType
  <2>2. \A u \in Callers \ {t} : Building(u)' <=> Building(u)
    BY <2>1 DEF Building
  <2>3. Building(t)' /\ ~Building(t)
    BY <2>1 DEF Building
  <2>4. Counted' = Counted
    BY <1>1, <2>1, <2>2, <2>3 DEF Counted
  <2>5. \A u \in Callers : pc'[u] = "count" => pc[u] = "count" /\ req'[u] = req[u]
    BY <2>1
  <2> QED
    BY <2>1, <2>4, <2>5 DEF CountInv
<1>3. CASE TokenRead(t)
  <2>1. /\ pc[t] = "token" /\ pc'[t] = "count" /\ req' = req /\ made' = made
        /\ \A u \in Callers \ {t} : pc'[u] = pc[u]
        /\ UNCHANGED token_num
        /\ token' = [token EXCEPT ![req[t]] = token_num]
    BY <1>3 DEF TokenRead, RequestInv, CallType
  <2>2. \A u \in Callers : Building(u)' <=> Building(u)
    BY <2>1 DEF Building
  <2>3. Counted' = Counted
    BY <2>1, <2>2 DEF Counted
  <2>4. token_num \in 0 .. MaxRequests /\ token_num <= Cardinality(Counted)
    <3>1. Cardinality(Counted) \in Nat /\ Cardinality(Counted) <= MaxRequests
      BY <1>1, ShadowAssumption
    <3>2. token_num \in 0 .. Cardinality(Counted)
      BY DEF CountInv
    <3> QED
      BY <3>1, <3>2, ShadowAssumption
  <2>5. token' \in [Requests -> 0 .. MaxRequests]
    BY <2>1, <2>4 DEF CountInv
  <2>6. \A u \in Callers : Busy(u) => req[u] \in Requests
    BY <1>1, ShadowAssumption DEF RequestInv, OwnerInv, Requests
  <2>7. ASSUME NEW u \in Callers, pc'[u] = "count"
        PROVE  token'[req[u]] <= Cardinality(Counted)
    <3>1. CASE u = t
      <4>1. token'[req[t]] = token_num
        BY <2>1, <2>6 DEF Busy, CountInv
      <4> QED
        BY <2>4, <3>1, <4>1
    <3>2. CASE u # t
      <4>1. pc[u] = "count" /\ req[u] \in Requests
        BY <2>1, <2>6, <2>7, <3>2 DEF Busy
      <4>2. token'[req[u]] = token[req[u]] \/ token'[req[u]] = token_num
        BY <2>1, <4>1 DEF CountInv
      <4> QED
        BY <2>4, <4>1, <4>2 DEF CountInv
    <3> QED
      BY <3>1, <3>2
  <2> QED
    BY <2>1, <2>3, <2>5, <2>7 DEF CountInv
<1>4. CASE TokenCount(t)
  <2>1. /\ pc[t] = "count" /\ pc'[t] = "publish" /\ req' = req /\ made' = made
        /\ \A u \in Callers \ {t} : pc'[u] = pc[u]
        /\ token_num' = token[req[t]] + 1 /\ token' = token
    BY <1>4 DEF TokenCount, RequestInv, CallType
  <2>2. /\ req[t] \in Requests /\ req[t] \in 1 .. made
        /\ \A u \in Callers \ {t} : Building(u) => req[u] # req[t]
    BY <1>1, <2>1, ShadowAssumption DEF RequestInv, OwnerInv, Busy, Building, Requests
  <2>3. \A u \in Callers \ {t} : Building(u)' <=> Building(u)
    BY <2>1 DEF Building
  <2>4. Building(t) /\ ~Building(t)'
    BY <2>1 DEF Building
  <2>5. Counted' = Counted \cup {req[t]} /\ req[t] \notin Counted
    BY <2>1, <2>2, <2>3, <2>4 DEF Counted
  <2>6. Cardinality(Counted') = Cardinality(Counted) + 1
    BY <1>1, <2>5, FS_AddElement
  <2>7. token[req[t]] <= Cardinality(Counted) /\ token[req[t]] \in Nat
    BY <1>1, <2>1, <2>2 DEF CountInv
  <2>8. token_num' \in 0 .. Cardinality(Counted')
    BY <1>1, <2>1, <2>6, <2>7
  <2>9. ASSUME NEW u \in Callers, pc'[u] = "count"
        PROVE  token[req[u]] <= Cardinality(Counted')
    <3>1. pc[u] = "count" /\ req[u] \in Requests
      BY <1>1, <2>1, <2>9, ShadowAssumption DEF RequestInv, OwnerInv, Busy, Requests
    <3>2. token[req[u]] <= Cardinality(Counted) /\ token[req[u]] \in Nat
      BY <1>1, <3>1 DEF CountInv
    <3> QED
      BY <1>1, <2>6, <3>2
  <2> QED
    BY <2>1, <2>8, <2>9 DEF CountInv
<1>5. CASE Publish(t) \/ AddRequestToList(t)
  <2>1. /\ pc[t] \in {"publish", "add"} /\ pc'[t] \in {"add", "wait", "idle"}
        /\ \A u \in Callers \ {t} : pc'[u] = pc[u] /\ req'[u] = req[u]
        /\ UNCHANGED <<made, token, token_num>>
    BY <1>5 DEF Publish, AddRequestToList, Added, Return, RequestInv, CallType
  <2> QED
    BY <2>1, CountStays DEF Building
<1> QED
  BY <1>2, <1>3, <1>4, <1>5 DEF Request

LEMMA CountNext ==
  ASSUME RequestInv, CountInv, [Next]_vars
  PROVE  CountInv'
<1>1. CASE UNCHANGED <<pc, req, made, token, token_num>>
  BY <1>1, CountStays
<1>2. CASE \E t \in Callers : RequestBegin(t) \/ Request(t)
  BY <1>2, RequestsCount
<1>3. CASE SyncReturns
  <2>1. /\ pc[Yielder] = "wait" /\ Yielder \in Callers /\ pc'[Yielder] = "idle"
        /\ \A u \in Callers \ {Yielder} : pc'[u] = pc[u] /\ req'[u] = req[u]
        /\ UNCHANGED <<made, token, token_num>>
    BY <1>3 DEF SyncReturns, Callers, RequestInv, CallType
  <2> QED
    BY <2>1, CountStays DEF Building
<1>4. CASE Yield
  BY <1>1, <1>4 DEF Yield, HandleExpired, OnSubscribeEvent, YieldEnd, Lose, Reconnect,
                    OnOperationResult, OnDelta
<1>5. CASE \/ ConstructSubscribe \/ ConstructReturns \/ Destroy \/ Push
           \/ \E p \in Properties : RegisterProperty(p)
  BY <1>1, <1>5 DEF ConstructSubscribe, ConstructReturns, Destroy, Push, RegisterProperty
<1>6. CASE \E n \in Requests : TimerExpires(n) \/ Cloud(n)
  BY <1>1, <1>6 DEF TimerExpires, Cloud
<1>7. CASE UNCHANGED vars
  BY <1>1, <1>7 DEF vars
<1> QED
  BY <1>2, <1>3, <1>4, <1>5, <1>6, <1>7 DEF Next

\* The list takes a request only when there is room.
LEMMA CapacityNext ==
  ASSUME RequestInv, CapacityInv, [Next]_vars
  PROVE  CapacityInv'
<1>1. CASE request_list' \subseteq request_list
  <2>1. /\ IsFiniteSet(request_list')
        /\ Cardinality(request_list') <= Cardinality(request_list)
    BY <1>1, FS_Subset DEF CapacityInv
  <2>2. Cardinality(request_list) \in Nat /\ Cardinality(request_list') \in Nat
    BY <2>1, FS_CardinalityType DEF CapacityInv
  <2> QED
    BY <2>1, <2>2, ShadowAssumption DEF CapacityInv
<1>2. ASSUME NEW t \in Callers, AddRequestToList(t)
      PROVE  CapacityInv'
  <2>1. CASE /\ Cardinality(request_list) < MAX_APPENDING_REQUEST
             /\ request_list' = request_list \cup {req[t]}
    <3>1. /\ IsFiniteSet(request_list')
          /\ Cardinality(request_list') \in {Cardinality(request_list),
                                             Cardinality(request_list) + 1}
      BY <2>1, FS_AddElement DEF CapacityInv
    <3>2. Cardinality(request_list) \in Nat
      BY FS_CardinalityType DEF CapacityInv
    <3> QED
      BY <2>1, <3>1, <3>2, ShadowAssumption DEF CapacityInv
  <2> QED
    BY <1>1, <1>2, <2>1 DEF AddRequestToList
<1>3. ASSUME NEW t \in Callers, RequestBegin(t) \/ TokenRead(t) \/ TokenCount(t) \/ Publish(t)
      PROVE  CapacityInv'
  BY <1>1, <1>3 DEF RequestBegin, TokenRead, TokenCount, Publish
<1>4. CASE Yield
  BY <1>1, <1>4 DEF Yield, HandleExpired, OnSubscribeEvent, YieldEnd, Lose, Reconnect,
                    OnOperationResult, OnDelta
<1>5. CASE \/ ConstructSubscribe \/ ConstructReturns \/ Destroy \/ Push \/ SyncReturns
           \/ \E p \in Properties : RegisterProperty(p)
  BY <1>1, <1>5
  DEF ConstructSubscribe, ConstructReturns, Destroy, Push, SyncReturns, RegisterProperty
<1>6. CASE \E n \in Requests : TimerExpires(n) \/ Cloud(n)
  BY <1>1, <1>6 DEF TimerExpires, Cloud
<1>7. CASE UNCHANGED vars
  BY <1>1, <1>7 DEF vars
<1> QED
  BY <1>2, <1>3, <1>4, <1>5, <1>6, <1>7 DEF Next, Request

LEMMA StateNext ==
  ASSUME RequestInv, StateType, [Next]_vars
  PROVE  StateType'
<1> USE DEF StateType
<1>1. ASSUME NEW t \in Callers, RequestBegin(t) \/ Request(t)
      PROVE  StateType'
  <2>1. returned' \in [Requests -> {"none", "success", "error"}]
    BY <1>1 DEF RequestBegin, Request, TokenRead, TokenCount, Publish,
                AddRequestToList, Added, Return
  <2>2. /\ pending' \in BOOLEAN
        /\ UNCHANGED <<documents, sync_status, mode, inYield, connected, subscribed,
                       losses, property_handle_list>>
    BY <1>1 DEF RequestBegin, Request, TokenRead, TokenCount, Publish, AddRequestToList
  <2> QED
    BY <2>1, <2>2
<1>2. CASE Yield
  <2>1. CASE OnSubscribeEvent
    BY <2>1 DEF OnSubscribeEvent
  <2>2. CASE HandleExpired \/ YieldEnd
    BY <2>2 DEF HandleExpired, YieldEnd, YieldBegin
  <2>3. CASE Lose \/ Reconnect
    <3>1. losses' \in 0 .. MaxLosses
      BY <2>3, ShadowAssumption DEF Lose, Reconnect
    <3> QED
      BY <2>3, <3>1 DEF Lose, Reconnect
  <2>4. CASE \E r \in replies : OnOperationResult(r) \/ OnDelta(r)
    BY <2>4 DEF OnOperationResult, OnDelta
  <2> QED
    BY <1>2, <2>1, <2>2, <2>3, <2>4 DEF Yield
<1>3. CASE \/ ConstructSubscribe \/ ConstructReturns \/ Destroy \/ Push \/ SyncReturns
           \/ \E p \in Properties : RegisterProperty(p)
  <2>1. CASE ConstructSubscribe \/ ConstructReturns
    BY <2>1 DEF ConstructSubscribe, ConstructReturns
  <2>2. CASE Destroy
    <3>1. <<>> \in Seq(Properties)
      OBVIOUS
    <3> QED
      BY <2>2, <3>1 DEF Destroy
  <2>3. CASE Push \/ SyncReturns
    BY <2>3 DEF Push, SyncReturns
  <2>4. ASSUME NEW p \in Properties, RegisterProperty(p)
        PROVE  StateType'
    <3>1. Append(property_handle_list, p) \in Seq(Properties)
      OBVIOUS
    <3> QED
      BY <2>4, <3>1 DEF RegisterProperty
  <2> QED
    BY <1>3, <2>1, <2>2, <2>3, <2>4
<1>4. CASE \E n \in Requests : TimerExpires(n) \/ Cloud(n)
  BY <1>4 DEF TimerExpires, Cloud
<1>5. CASE UNCHANGED vars
  BY <1>5 DEF vars
<1> QED
  BY <1>1, <1>2, <1>3, <1>4, <1>5 DEF Next

\* The cloud answers with the token of the request; there are no more deltas
\* than MaxDeltas.
LEMMA CloudNext ==
  ASSUME RequestInv, CountInv, CloudType, [Next]_vars
  PROVE  CloudType'
<1> USE DEF CloudType
<1>1. ASSUME NEW of \in Requests \cup {None}, NEW value \in 0 .. MaxRequests,
             NEW type \in {"get", "update", "delta"}, NEW code \in {"0", "none"},
             NEW ps \in SUBSET Properties, Answers(of, value, type, code, ps),
             atCloud' \subseteq atCloud
      PROVE  CloudType'
  <2>1. PICK m \in Reply :
          /\ replies' = replies \cup {m} /\ m.ps = ps
          /\ m.delta = IF ps = {} THEN 0 ELSE deltas + 1
    BY <1>1, AnswersAdds, ShadowAssumption
  <2>2. deltas' \in 0 .. MaxDeltas
    BY <1>1, ShadowAssumption DEF Answers
  <2>3. m.ps # {} => m.delta # 0
    BY <2>1, ShadowAssumption
  <2> QED
    BY <1>1, <2>1, <2>2, <2>3
<1>2. ASSUME NEW n \in Requests, Cloud(n)
      PROVE  CloudType'
  <2>1. PICK code \in {"0", "none"}, ps \in SUBSET Properties :
          Answers(n, token[n], Method(documents[n]), code, ps)
    BY <1>2 DEF Cloud
  <2>2. Method(documents[n]) \in {"get", "update"} /\ token[n] \in 0 .. MaxRequests
    BY DEF Method, CountInv
  <2>3. atCloud' \subseteq atCloud
    BY <1>2 DEF Cloud
  <2> QED
    BY <1>1, <2>1, <2>2, <2>3
<1>3. CASE Push
  <2>1. PICK ps \in SUBSET Properties : Answers(None, 0, "delta", "none", ps)
    BY <1>3 DEF Push
  <2>2. 0 \in 0 .. MaxRequests /\ atCloud' = atCloud
    BY <1>3, ShadowAssumption DEF Push
  <2> QED
    BY <1>1, <2>1, <2>2
<1>4. ASSUME NEW t \in Callers, RequestBegin(t) \/ Request(t)
      PROVE  CloudType'
  <2>1. CASE Publish(t)
    <3>1. req[t] \in Requests
      BY <2>1, ShadowAssumption DEF Publish, RequestInv, OwnerInv, Busy, CallType, Requests
    <3> QED
      BY <2>1, <3>1 DEF Publish
  <2> QED
    BY <1>4, <2>1 DEF RequestBegin, Request, TokenRead, TokenCount, AddRequestToList
<1>5. CASE Yield
  BY <1>5 DEF Yield, HandleExpired, OnSubscribeEvent, YieldEnd, Lose, Reconnect,
              OnOperationResult, OnDelta
<1>6. CASE \/ ConstructSubscribe \/ ConstructReturns \/ Destroy \/ SyncReturns
           \/ \E p \in Properties : RegisterProperty(p)
           \/ \E n \in Requests : TimerExpires(n)
  BY <1>6 DEF ConstructSubscribe, ConstructReturns, Destroy, SyncReturns,
              RegisterProperty, TimerExpires
<1>7. CASE UNCHANGED vars
  BY <1>7 DEF vars
<1> QED
  BY <1>2, <1>3, <1>4, <1>5, <1>6, <1>7 DEF Next

LEMMA Repeated ==
  ASSUME NEW S, NEW k \in Nat, NEW d, k > 0 => d \in S
  PROVE  [i \in 1 .. k |-> d] \in Seq(S)
<1>1. \A i \in 1 .. k : d \in S
  OBVIOUS
<1>2. [i \in 1 .. k |-> d] \in [1 .. k -> S]
  BY <1>1
<1> QED
  BY <1>2, SeqDef

\* However often a property is registered, its callbacks hear a delta the cloud
\* made.
LEMMA HandleTells ==
  ASSUME ReadsAsMeant, CloudType, ToldType, StateType, NEW r \in replies, NEW k \in Nat,
         HandleDelta(r, k)
  PROVE  ToldType'
<1> DEFINE C(p) == Cardinality({i \in DOMAIN property_handle_list :
                                  property_handle_list[i] = p})
           T(p) == IF p \in ReadOf(r).ps THEN k * C(p) ELSE 0
<1>1. /\ data' = [p \in Properties |-> IF T(p) > 0 THEN r.delta ELSE data[p]]
      /\ told' = [p \in Properties |-> told[p] \o [i \in 1 .. T(p) |-> r.delta]]
  BY DEF HandleDelta
<1>2. r \in Reply /\ ReadOf(r).ps = r.ps /\ r.delta \in 0 .. MaxDeltas
  BY DEF CloudType, ReadsAsMeant, Reply
<1>3. ASSUME NEW p
      PROVE  C(p) \in Nat
  <2>1. DOMAIN property_handle_list = 1 .. Len(property_handle_list)
        /\ Len(property_handle_list) \in Nat
    BY DEF StateType
  <2>2. IsFiniteSet(1 .. Len(property_handle_list))
    BY <2>1, FS_Interval
  <2>3. {i \in DOMAIN property_handle_list : property_handle_list[i] = p}
          \subseteq 1 .. Len(property_handle_list)
    BY <2>1
  <2> QED
    BY <2>2, <2>3, FS_Subset, FS_CardinalityType
<1> HIDE DEF C
<1>4. ASSUME NEW p \in Properties
      PROVE  T(p) \in Nat /\ (T(p) > 0 => r.delta \in 1 .. MaxDeltas)
  <2>1. k * C(p) \in Nat
    BY <1>3
  <2>2. p \in ReadOf(r).ps => r.delta \in 1 .. MaxDeltas
    BY <1>2, ShadowAssumption DEF CloudType
  <2> QED
    BY <2>1, <2>2
<1> HIDE DEF T
<1>5. data' \in [Properties -> 0 .. MaxDeltas]
  BY <1>1, <1>2 DEF ToldType
<1>6. ASSUME NEW p \in Properties
      PROVE  told[p] \o [i \in 1 .. T(p) |-> r.delta] \in Seq(1 .. MaxDeltas)
  <2>1. PICK s \in Seq(1 .. MaxDeltas) : s = told[p]
    BY DEF ToldType
  <2>2. PICK e \in Seq(1 .. MaxDeltas) : e = [i \in 1 .. T(p) |-> r.delta]
    BY <1>4, Repeated
  <2>3. s \o e \in Seq(1 .. MaxDeltas)
    OBVIOUS
  <2> QED
    BY <2>1, <2>2, <2>3
<1>7. told' \in [Properties -> Seq(1 .. MaxDeltas)]
  BY <1>1, <1>6
<1> QED
  BY <1>5, <1>7 DEF ToldType

LEMMA ToldNext ==
  ASSUME ReadsAsMeant, RequestInv, StateType, CapacityInv, CloudType, ToldType, [Next]_vars
  PROVE  ToldType'
<1>1. CASE UNCHANGED <<data, told>>
  BY <1>1 DEF ToldType
<1>2. ASSUME NEW r \in replies, OnOperationResult(r)
      PROVE  ToldType'
  <2> DEFINE mine == {n \in request_list : SentBy(n).token = ReadOf(r).token}
  <2>1. \E k \in {0, Cardinality(mine)} : HandleDelta(r, k)
    BY <1>2 DEF OnOperationResult
  <2>2. Cardinality(mine) \in Nat
    <3>1. mine \subseteq request_list
      OBVIOUS
    <3> QED
      BY <3>1, FS_Subset, FS_CardinalityType DEF CapacityInv
  <2> QED
    BY <2>1, <2>2, HandleTells
<1>3. ASSUME NEW r \in replies, OnDelta(r)
      PROVE  ToldType'
  BY <1>3, HandleTells DEF OnDelta
<1>4. CASE \E t \in Callers : RequestBegin(t) \/ Request(t)
  BY <1>1, <1>4
  DEF RequestBegin, Request, TokenRead, TokenCount, Publish, AddRequestToList
<1>5. CASE HandleExpired \/ OnSubscribeEvent \/ YieldEnd \/ Lose \/ Reconnect
  BY <1>1, <1>5 DEF HandleExpired, OnSubscribeEvent, YieldEnd, Lose, Reconnect
<1>6. CASE \/ ConstructSubscribe \/ ConstructReturns \/ Destroy \/ Push \/ SyncReturns
           \/ \E p \in Properties : RegisterProperty(p)
  BY <1>1, <1>6
  DEF ConstructSubscribe, ConstructReturns, Destroy, Push, SyncReturns, RegisterProperty
<1>7. CASE \E n \in Requests : TimerExpires(n) \/ Cloud(n)
  BY <1>1, <1>7 DEF TimerExpires, Cloud
<1>8. CASE UNCHANGED vars
  BY <1>1, <1>8 DEF vars
<1> QED
  BY <1>2, <1>3, <1>4, <1>5, <1>6, <1>7, <1>8 DEF Next, Yield

\* The type invariant: no more requests wait than the list holds, tokens are no
\* more than requests however tasks take them, and callbacks hear of deltas the
\* cloud made, if the device reads what the cloud meant.
THEOREM TypeCorrect ==
  ASSUME ReadsAsMeant
  PROVE  Spec => []TypeOK
<1>1. Init => BoundInv
  <2> SUFFICES ASSUME Init
               PROVE  BoundInv
    OBVIOUS
  <2> USE ShadowAssumption
  <2>1. StateType
    <3>1. <<>> \in Seq(Properties)
      OBVIOUS
    <3>2. returned \in [Requests -> {"none", "success", "error"}]
      BY DEF Init
    <3>3. 0 \in 0 .. MaxLosses
      OBVIOUS
    <3> HIDE ShadowAssumption
    <3> QED
      BY <3>1, <3>2, <3>3 DEF Init, StateType
  <2>5. CloudType
    BY DEF Init, CloudType
  <2>2. CapacityInv
    BY FS_EmptySet DEF Init, CapacityInv
  <2>3. CountInv
    <3>1. Counted = {}
      BY DEF Init, Counted
    <3>2. Cardinality(Counted) = 0
      BY <3>1, FS_EmptySet
    <3> QED
      BY <3>2 DEF Init, CountInv
  <2>4. ToldType
    BY DEF Init, ToldType
  <2> QED
    BY <2>1, <2>2, <2>3, <2>4, <2>5 DEF BoundInv
<1>2. RequestInv /\ BoundInv /\ [Next]_vars => BoundInv'
  BY StateNext, CapacityNext, CountNext, CloudNext, ToldNext DEF BoundInv
<1>3. RequestInv /\ BoundInv => TypeOK
  <2> SUFFICES ASSUME RequestInv, BoundInv
               PROVE  TypeOK
    OBVIOUS
  <2>1. req \in [Callers -> Requests \cup {None}]
    BY ShadowAssumption DEF RequestInv, CallType, Requests, None
  <2>2. token_num \in 0 .. MaxRequests
    BY CountedFinite, ShadowAssumption DEF BoundInv, CountInv
  <2>3. request_list \subseteq Requests
    BY InRequests
  <2> QED
    BY <2>1, <2>2, <2>3 DEF TypeOK, RequestInv, CallType, ListInv, BoundInv, StateType,
                            CapacityInv, CountInv, CloudType, ToldType
<1> QED
  BY <1>1, <1>2, <1>3, RequestInvariance, PTL DEF Spec

====
