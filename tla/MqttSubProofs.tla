---------------------------- MODULE MqttSubProofs ----------------------------
(***************************************************************************)
(* The subscriptions of MqttSub for any number of tasks, topics, slots,    *)
(* calls and disconnections: every topic string has one owner, no          *)
(* subscription uses up two slots, no request is reported twice, client    *)
(* and broker agree on what is subscribed, and no string is lost.          *)
(***************************************************************************)
EXTENDS MqttSub, FiniteSetTheorems, TLAPS

-----------------------------------------------------------------------------
(***************************************************************************)
(* The inductive invariant, in named parts.                                *)
(***************************************************************************)

\* Requests that have been made.
Asked == 1..calls

\* Requests a call is working on, and those with a packet under way.
Active  == {call[p] : p \in {q \in Callers : pc[q] # "idle"}}
Sent    == {up[i] : i \in 1..Len(up)}
Replied == {down[i].id : i \in 1..Len(down)}

\* Nothing is known of a request that has not been made.
AskedInv ==
  /\ list \cup buffers \cup Stored \cup Active \cup Sent \cup Replied \subseteq Asked
  /\ \A n \in Calls \ Asked : node_state[n] = "NORMAL" /\ heard[n] = {}

\* Each call works on a request of its own, which is not in the list before
\* Push, has its copy of the filter there, and is neither sent nor installed.
CallInv ==
  /\ \A p, q \in Callers :
       pc[p] # "idle" /\ pc[q] # "idle" /\ p # q => call[p] # call[q]
  /\ \A p \in Callers :
       /\ pc[p] \in {"unsubscribe", "lock"} =>
            call[p] \notin list /\ heard[call[p]] = {}
       /\ pc[p] = "lock" => call[p] \in buffers
  /\ Active \cap (Stored \cup Sent \cup Replied) = {}

\* A request has at most one packet under way, and is unanswered till it comes.
WireInv ==
  /\ \A i, j \in 1..Len(up) : i # j => up[i] # up[j]
  /\ \A i, j \in 1..Len(down) : i # j => down[i].id # down[j].id
  /\ Sent \cap Replied = {}
  /\ \A n \in Active \cup Sent \cup Replied : node_state[n] = "NORMAL"

\* Requests that neither wait for an answer nor are being made; 0 is none.
Over == {0} \cup (Asked \ (Waiting \cup Active))

\* A request whose user data a slot or a resubscription carries is over.
UserInv ==
  /\ \A i \in Slots : sub_handles[i].by \in Over
  /\ \A n \in Asked : user[n] = n \/ user[n] \in Over
  /\ ypc = "copy" => itr \in Slots

\* A request that waits for its answer has raised no event.
EventInv == \A n \in Waiting : heard[n] = {}

\* OneOwner, with CallInv to keep the strings of the calls apart.
OwnerInv ==
  /\ Stored \cup Waiting \subseteq buffers
  /\ Stored \cap Waiting = {}
  /\ \A i, j \in Slots :
       i # j /\ sub_handles[i].buf # NULL => sub_handles[i].buf # sub_handles[j].buf

IInv ==
  TypeOK /\ AskedInv /\ CallInv /\ WireInv /\ UserInv /\ EventInv
    /\ OwnerInv /\ NoDuplicates

\* TypeOK in five parts, which the provers take one at a time.
ClientType ==
  /\ is_connected \in BOOLEAN
  /\ sub_handles \in [Slots -> [buf : 0..MaxCalls, by : 0..MaxCalls]]
  /\ lock_write_buf \in Callers \cup {Free}
  /\ buffers \in SUBSET Calls
  /\ disconnects \in 0..MaxDisconnects
  /\ fault \in {"none", "freed", "garbage_freed", "no_handle"}

ListType ==
  /\ list \in SUBSET Calls /\ Cardinality(list) <= MAX_MESSAGE_HANDLERS
  /\ node_state \in [Calls -> {"NORMAL", "INVALID"}]
  /\ ack_expired \in SUBSET list
  /\ heard \in [Calls -> SUBSET Event]

RequestType ==
  /\ calls \in 0..MaxCalls
  /\ type \in [Calls -> {"SUBSCRIBE", "UNSUBSCRIBE"}]
  /\ filter \in [Calls -> Topics]
  /\ handlers \in [Calls -> Handlers]
  /\ user \in [Calls -> 0..MaxCalls]
  /\ pc \in [Callers -> {"idle", "unsubscribe", "lock", "send", "remove"}]
  /\ call \in [Callers -> 0..MaxCalls]

YieldType ==
  /\ ypc \in {"read", "proc", "reconnect", "resubscribe", "copy", "call",
              "destroyed"}
  /\ itr \in 0..MAX_MESSAGE_HANDLERS
  /\ topic \in 0..MaxCalls
  /\ resub_failed \in BOOLEAN

WireType ==
  /\ up \in Seq(Calls)
  /\ down \in Seq(Packet)
  /\ subscribed \in SUBSET Topics

-----------------------------------------------------------------------------
(***************************************************************************)
(* Facts about the two queues.                                             *)
(***************************************************************************)

\* Appending a request adds it to those under way.
LEMMA AppendUp ==
  ASSUME NEW q \in Seq(Calls), NEW n \in Calls
  PROVE  /\ Append(q, n) \in Seq(Calls)
         /\ {Append(q, n)[i] : i \in 1..Len(Append(q, n))} =
              {q[i] : i \in 1..Len(q)} \cup {n}
         /\ n \notin {q[i] : i \in 1..Len(q)}
              /\ (\A i, j \in 1..Len(q) : i # j => q[i] # q[j])
            => \A i, j \in 1..Len(Append(q, n)) :
                 i # j => Append(q, n)[i] # Append(q, n)[j]
  OBVIOUS

\* Taking the first request leaves the others.
LEMMA TailUp ==
  ASSUME NEW q \in Seq(Calls), q # << >>
  PROVE  /\ Head(q) \in Calls
         /\ Tail(q) \in Seq(Calls)
         /\ {q[i] : i \in 1..Len(q)} =
              {Head(q)} \cup {Tail(q)[i] : i \in 1..Len(Tail(q))}
         /\ (\A i, j \in 1..Len(q) : i # j => q[i] # q[j]) =>
              /\ Head(q) \notin {Tail(q)[i] : i \in 1..Len(Tail(q))}
              /\ \A i, j \in 1..Len(Tail(q)) : i # j => Tail(q)[i] # Tail(q)[j]
  OBVIOUS

\* The same for the answers and their ids.
LEMMA AppendDown ==
  ASSUME NEW q \in Seq(Packet), NEW m \in Packet
  PROVE  /\ Append(q, m) \in Seq(Packet)
         /\ {Append(q, m)[i].id : i \in 1..Len(Append(q, m))} =
              {q[i].id : i \in 1..Len(q)} \cup {m.id}
         /\ m.id \notin {q[i].id : i \in 1..Len(q)}
              /\ (\A i, j \in 1..Len(q) : i # j => q[i].id # q[j].id)
            => \A i, j \in 1..Len(Append(q, m)) :
                 i # j => Append(q, m)[i].id # Append(q, m)[j].id
  OBVIOUS

\* Taking the first answer leaves the others.
LEMMA TailDown ==
  ASSUME NEW q \in Seq(Packet), q # << >>
  PROVE  /\ Head(q) \in Packet
         /\ Tail(q) \in Seq(Packet)
         /\ {q[i].id : i \in 1..Len(q)} =
              {Head(q).id} \cup {Tail(q)[i].id : i \in 1..Len(Tail(q))}
         /\ (\A i, j \in 1..Len(q) : i # j => q[i].id # q[j].id) =>
              /\ Head(q).id \notin {Tail(q)[i].id : i \in 1..Len(Tail(q))}
              /\ \A i, j \in 1..Len(Tail(q)) :
                   i # j => Tail(q)[i].id # Tail(q)[j].id
<1>1. Head(q) = q[1] /\ Head(q) \in Packet /\ Tail(q) \in Seq(Packet)
  OBVIOUS
<1>2. /\ Len(q) \in Nat \ {0} /\ Len(Tail(q)) = Len(q) - 1
      /\ \A i \in 1..Len(Tail(q)) : Tail(q)[i] = q[i + 1]
  OBVIOUS
<1>3. \A i \in 1..Len(q) : i = 1 \/ (i - 1 \in 1..Len(Tail(q)) /\ Tail(q)[i - 1] = q[i])
  BY <1>2
<1>4. {q[i].id : i \in 1..Len(q)} =
        {Head(q).id} \cup {Tail(q)[i].id : i \in 1..Len(Tail(q))}
  BY <1>1, <1>2, <1>3
<1> QED
  BY <1>1, <1>2, <1>4

\* The five parts are TypeOK, in a state and in the next.
LEMMA TypeParts ==
  /\ TypeOK <=> ClientType /\ ListType /\ RequestType /\ YieldType /\ WireType
  /\ TypeOK' <=> ClientType' /\ ListType' /\ RequestType' /\ YieldType' /\ WireType'
  BY DEF TypeOK, ClientType, ListType, RequestType, YieldType, WireType

\* IInv by its parts, in a state and in the next.
LEMMA Parts ==
  /\ IInv <=> /\ ClientType /\ ListType /\ RequestType /\ YieldType /\ WireType
              /\ AskedInv /\ CallInv /\ WireInv /\ UserInv /\ EventInv /\ OwnerInv
              /\ NoDuplicates
  /\ IInv' <=> /\ ClientType' /\ ListType' /\ RequestType' /\ YieldType' /\ WireType'
               /\ AskedInv' /\ CallInv' /\ WireInv' /\ UserInv' /\ EventInv'
               /\ OwnerInv' /\ NoDuplicates'
  BY TypeParts DEF IInv

\* Making a request adds the next number to those asked.
LEMMA AskedGrows ==
  ASSUME RequestType, calls < MaxCalls, calls' = calls + 1
  PROVE  Asked' = Asked \cup {calls + 1} /\ calls + 1 \in Calls \ Asked
<1>1. calls \in Nat /\ calls + 1 \in 1..MaxCalls
  BY SubAssumption DEF RequestType
<1>2. 1..(calls + 1) = (1..calls) \cup {calls + 1}
  BY <1>1
<1> QED
  BY <1>1, <1>2 DEF Asked, Calls

\* Calls, and with it the list, is finite.
LEMMA ListFinite ==
  ASSUME NEW S \in SUBSET Calls
  PROVE  IsFiniteSet(S) /\ Cardinality(S) \in Nat
<1>1. IsFiniteSet(Calls)
  BY SubAssumption, FS_Interval DEF Calls
<1> QED
  BY <1>1, FS_Subset, FS_CardinalityType

\* A list that loses nodes stays within its length.
LEMMA SmallerList ==
  ASSUME ListType, NEW S \in SUBSET list
  PROVE  Cardinality(S) <= MAX_MESSAGE_HANDLERS
<1>1. IsFiniteSet(list) /\ Cardinality(list) \in Nat
  BY ListFinite DEF ListType
<1>2. Cardinality(S) <= Cardinality(list) /\ Cardinality(S) \in Nat
  BY <1>1, FS_Subset, FS_CardinalityType
<1> QED
  BY <1>1, <1>2, SubAssumption DEF ListType

-----------------------------------------------------------------------------
(***************************************************************************)
(* The invariant holds initially, and every action keeps it.               *)
(***************************************************************************)

\* IOT_MQTT_Construct leaves every slot empty and the list without a node.
LEMMA InitIInv == Init => IInv
<1> SUFFICES ASSUME Init PROVE IInv
  OBVIOUS
<1> USE SubAssumption
<1>1. TypeOK
  <2> USE DEF Init, Callers, Slots
  <2>1. ClientType
    BY DEF ClientType, NULL
  <2>2. ListType
    BY FS_EmptySet DEF ListType
  <2>3. RequestType
    BY DEF RequestType
  <2>4. YieldType
    <3>1. 0 \in 0..MAX_MESSAGE_HANDLERS /\ 0 \in 0..MaxCalls
      OBVIOUS
    <3> QED
      BY <3>1 DEF YieldType, NULL
  <2>5. WireType
    BY DEF WireType
  <2> QED
    BY <2>1, <2>2, <2>3, <2>4, <2>5, TypeParts
<1>2. Stored = {} /\ Active = {} /\ Sent = {} /\ Replied = {} /\ Waiting = {}
  BY DEF Init, Stored, Active, Sent, Replied, Waiting
<1>3. AskedInv
  BY <1>2 DEF Init, AskedInv, Asked
<1>4. CallInv /\ WireInv
  BY <1>2 DEF Init, CallInv, WireInv
<1>5. UserInv /\ EventInv
  BY <1>2 DEF Init, UserInv, EventInv, Over, Asked, NULL
<1>6. OwnerInv /\ NoDuplicates
  BY <1>2 DEF Init, OwnerInv, NoDuplicates, Holds
<1> QED
  BY <1>1, <1>3, <1>4, <1>5, <1>6 DEF IInv

\* A request that is made is the next one, of which nothing is known yet.
LEMMA NewRequest ==
  ASSUME IInv, NEW p \in Callers, NEW k \in {"SUBSCRIBE", "UNSUBSCRIBE"},
         NEW t \in Topics, NEW h \in Handlers, NEW u \in 0..MaxCalls,
         NEW to \in {"unsubscribe", "lock"}, Goto(p, "idle", to), Request(p, k, t, h, u)
  PROVE  /\ RequestType'
         /\ Asked' = Asked \cup {calls + 1} /\ calls + 1 \in Calls \ Asked
         /\ Active' = Active \cup {calls + 1}
         /\ call'[p] = calls + 1 /\ user'[calls + 1] = u
         /\ \A q \in Callers \ {p} : call'[q] = call[q] /\ pc'[q] = pc[q]
         /\ \A n \in Asked : /\ filter'[n] = filter[n] /\ user'[n] = user[n]
                          /\ handlers'[n] = handlers[n]
<1> USE DEF Goto, Request
<1>0. RequestType
  BY Parts
<1>1. Asked' = Asked \cup {calls + 1} /\ calls + 1 \in Calls \ Asked
  BY <1>0, AskedGrows
<1>2. Active' = Active \cup {calls + 1}
  BY <1>0, <1>1 DEF RequestType, Active
<1>3. RequestType'
  BY <1>0, <1>1 DEF RequestType, Calls
<1>4. \A n \in Asked : n \in Calls /\ n # calls + 1
  BY <1>0, SubAssumption DEF RequestType, Asked, Calls
<1> QED
  BY <1>0, <1>1, <1>2, <1>3, <1>4 DEF RequestType

\* Requests are calls.
LEMMA AskedCalls == RequestType => Asked \subseteq Calls
  BY SubAssumption DEF RequestType, Asked, Calls

\* A call that is under way works on a request that was made.
LEMMA ActiveCall ==
  ASSUME IInv
  PROVE  \A p \in Callers : pc[p] # "idle" =>
           call[p] \in Active /\ call[p] \in Asked /\ call[p] \in Calls
  BY Parts, AskedCalls DEF Active, AskedInv

\* A call that ends leaves its request; one that goes on keeps it.
LEMMA CallLeaves ==
  ASSUME IInv, NEW p \in Callers, pc[p] # "idle", pc' = [pc EXCEPT ![p] = "idle"],
         call' = call
  PROVE  Active' = Active \ {call[p]} /\ Making' \subseteq Making
  BY Parts DEF Active, Making, CallInv, RequestType

LEMMA CallGoesOn ==
  ASSUME IInv, NEW p \in Callers, pc[p] # "idle", call' = call,
         NEW to \in {"lock", "send", "remove"}, pc' = [pc EXCEPT ![p] = to]
  PROVE  Active' = Active
  BY Parts DEF Active, RequestType

\* A call of qcloud_iot_mqtt_subscribe keeps IInv.
LEMMA SubscribeKeeps ==
  ASSUME IInv, NEW p \in Callers, NEW t \in Topics, NEW h \in Handlers,
         Subscribe(p, t, h)
  PROVE  IInv'
<1> USE SubAssumption DEF Subscribe
<1>0. /\ RequestType'
      /\ Asked' = Asked \cup {calls + 1} /\ calls + 1 \in Calls \ Asked
      /\ Active' = Active \cup {calls + 1}
      /\ call'[p] = calls + 1 /\ user'[calls + 1] = calls + 1
      /\ \A q \in Callers \ {p} : call'[q] = call[q] /\ pc'[q] = pc[q]
      /\ \A n \in Asked : /\ filter'[n] = filter[n] /\ user'[n] = user[n]
                          /\ handlers'[n] = handlers[n]
  <2>1. RequestType /\ calls + 1 \in 0..MaxCalls
    BY Parts DEF Request, RequestType
  <2> QED
    BY <2>1, NewRequest
<1>1. ClientType' /\ ListType' /\ YieldType' /\ WireType'
  BY Parts, <1>0 DEF ClientType, ListType, YieldType, WireType, listVars, loopVars, netVars
<1>2. UNCHANGED <<Stored, Waiting, Sent, Replied>>
  BY DEF Stored, Waiting, Sent, Replied, listVars, netVars
<1>3. AskedInv'
  BY Parts, <1>0, <1>2 DEF AskedInv, listVars
<1>4. CallInv'
  BY Parts, <1>0, <1>2 DEF AskedInv, CallInv, listVars, Active
<1>5. WireInv'
  BY Parts, <1>0, <1>2 DEF WireInv, AskedInv, listVars, netVars
<1>6. UserInv'
  BY Parts, <1>0, <1>2 DEF UserInv, AskedInv, Over, loopVars
<1>7. EventInv' /\ OwnerInv'
  BY Parts, <1>0, <1>2 DEF EventInv, OwnerInv, AskedInv
<1>8. NoDuplicates'
  BY Parts, <1>0 DEF NoDuplicates, Holds, AskedInv, Stored, NULL
<1> QED
  BY <1>0, <1>1, <1>3, <1>4, <1>5, <1>6, <1>7, <1>8, Parts

\* The request qcloud_iot_mqtt_unsubscribe makes is one too.
LEMMA UnsubscribeRequest ==
  ASSUME IInv, NEW p \in Callers, NEW t \in Topics, Unsubscribe(p, t)
  PROVE  /\ Request(p, "UNSUBSCRIBE", t, handlers[calls + 1], 0)
         /\ handlers[calls + 1] \in Handlers /\ 0 \in 0 .. MaxCalls
<1>1. Request(p, "UNSUBSCRIBE", t, handlers[calls + 1], 0)
  BY DEF Unsubscribe
<1>2. RequestType /\ calls < MaxCalls
  BY <1>1, Parts DEF Request
<1>3. calls + 1 \in Calls
  BY <1>2, SubAssumption DEF RequestType, Calls
<1>4. handlers[calls + 1] \in Handlers
  BY <1>2, <1>3 DEF RequestType
<1> QED
  BY <1>1, <1>4, SubAssumption

\* A call of qcloud_iot_mqtt_unsubscribe keeps IInv: it frees the strings of the
\* slots it clears and no others, and tells only requests that are over.
LEMMA UnsubscribeKeeps ==
  ASSUME IInv, NEW p \in Callers, NEW t \in Topics, Unsubscribe(p, t)
  PROVE  IInv'
<1> USE SubAssumption DEF Unsubscribe
<1> DEFINE B == {sub_handles[i].buf : i \in Cleared(t)}
<1>0. /\ RequestType'
      /\ Asked' = Asked \cup {calls + 1} /\ calls + 1 \in Calls \ Asked
      /\ Active' = Active \cup {calls + 1}
      /\ call'[p] = calls + 1 /\ user'[calls + 1] = 0
      /\ \A q \in Callers \ {p} : call'[q] = call[q] /\ pc'[q] = pc[q]
      /\ \A n \in Asked : /\ filter'[n] = filter[n] /\ user'[n] = user[n]
                          /\ handlers'[n] = handlers[n]
  BY UnsubscribeRequest, NewRequest
<1>1. Cleared(t) \subseteq Slots
  BY DEF Cleared
<1>2. \A i \in Slots :
        /\ sub_handles'[i] \in [buf : 0..MaxCalls, by : 0..MaxCalls]
        /\ sub_handles'[i].by = sub_handles[i].by
        /\ i \in Cleared(t) => sub_handles'[i].buf = NULL
        /\ i \notin Cleared(t) => sub_handles'[i].buf = sub_handles[i].buf
  BY Parts DEF ClientType, NULL
<1>3. UNCHANGED <<Waiting, Sent, Replied, list, node_state>> /\ B \subseteq Stored \cup {NULL}
  BY <1>1 DEF Waiting, Sent, Replied, Stored, listVars, netVars
<1>4. Stored' \subseteq Stored \ B
  BY <1>1, <1>2, Parts DEF Stored, OwnerInv
<1>5. \A n \in Calls : heard'[n] = heard[n] \/ \E i \in Slots : sub_handles[i].by = n
  BY <1>1
<1>6. \A n \in Waiting \cup Active \cup (Calls \ Asked) : n \in Calls => heard'[n] = heard[n]
  <2>1. \A n \in Calls : n # 0
    BY DEF Calls
  <2>2. \A i \in Slots : sub_handles[i].by # 0 =>
          sub_handles[i].by \in Asked /\ sub_handles[i].by \notin Waiting \cup Active
    BY Parts DEF UserInv, Over
  <2> QED
    BY <1>5, <2>1, <2>2, ZenonT(40)
<1>7. ClientType' /\ ListType' /\ YieldType' /\ WireType'
  BY Parts, <1>0, <1>2 DEF ClientType, ListType, YieldType, WireType, listVars, loopVars,
    netVars, Event
<1>8. AskedInv'
  BY Parts, <1>0, <1>3, <1>4, <1>6, ZenonT(40) DEF AskedInv, listVars
<1>9. CallInv'
  <2>1. \A q \in Callers : pc[q] # "idle" =>
          call[q] \in Active /\ call[q] \in Asked /\ call[q] \in Calls /\ call[q] \notin B
    BY Parts, <1>3, ActiveCall DEF CallInv, NULL, Calls
  <2>2. heard'[calls + 1] = {}
    BY Parts, <1>0, <1>6 DEF AskedInv
  <2>3. \A q \in Callers \ {p} :
          /\ pc'[q] \in {"unsubscribe", "lock"} =>
               call'[q] \notin list' /\ heard'[call'[q]] = {}
          /\ pc'[q] = "lock" => call'[q] \in buffers'
    BY Parts, <1>0, <1>3, <1>6, <2>1 DEF CallInv
  <2>4. pc'[p] = "unsubscribe"
    BY Parts DEF Goto, RequestType
  <2>5. call'[p] \notin list'
    BY Parts, <1>0, <1>3 DEF AskedInv
  <2>6. \A q \in Callers \ {p} : pc'[q] # "idle" => call'[q] # call'[p]
    BY <1>0, <2>1
  <2>7. Active' \cap (Stored' \cup Sent' \cup Replied') = {}
    BY Parts, <1>0, <1>3, <1>4 DEF CallInv, AskedInv
  <2>8. \A q, r \in Callers :
          pc'[q] # "idle" /\ pc'[r] # "idle" /\ q # r => call'[q] # call'[r]
    BY Parts, <1>0, <2>6 DEF CallInv
  <2>9. \A q \in Callers :
          /\ pc'[q] \in {"unsubscribe", "lock"} =>
               call'[q] \notin list' /\ heard'[call'[q]] = {}
          /\ pc'[q] = "lock" => call'[q] \in buffers'
    BY <1>0, <2>2, <2>3, <2>4, <2>5
  <2> QED
    BY <2>7, <2>8, <2>9 DEF CallInv
<1>10. WireInv'
  BY Parts, <1>0, <1>3 DEF WireInv, AskedInv, netVars
<1>11. UserInv'
  BY Parts, <1>0, <1>2, <1>3 DEF UserInv, AskedInv, Over, loopVars
<1>12. EventInv'
  BY Parts, <1>3, <1>6 DEF EventInv, Waiting, ListType
<1>13. OwnerInv'
  BY Parts, <1>2, <1>3, <1>4 DEF OwnerInv, AskedInv, Asked, NULL
<1>14. NoDuplicates'
  BY Parts, <1>0, <1>2 DEF NoDuplicates, Holds, AskedInv, Stored, NULL
<1> QED
  BY <1>0, <1>7, <1>8, <1>9, <1>10, <1>11, <1>12, <1>13, <1>14, Parts

\* The connection check of qcloud_iot_mqtt_unsubscribe keeps IInv.
LEMMA UnsubCheckKeeps ==
  ASSUME IInv, NEW p \in Callers, UnsubCheck(p)
  PROVE  IInv'
<1> USE DEF UnsubCheck, Goto
<1>0. pc[p] = "unsubscribe" /\ call[p] \in Active /\ call[p] \in Calls
  BY ActiveCall
<1>1. Active' \subseteq Active
  BY <1>0, CallLeaves, CallGoesOn
<1>2. UNCHANGED <<Asked, Stored, Waiting, Sent, Replied>>
  BY DEF Asked, Stored, Waiting, Sent, Replied, listVars, netVars, reqVars
<1>3. ClientType' /\ ListType' /\ RequestType' /\ YieldType' /\ WireType'
  BY Parts, <1>0 DEF ClientType, ListType, RequestType, YieldType, WireType, listVars,
    loopVars, netVars, reqVars
<1>4. AskedInv'
  BY Parts, <1>0, <1>1, <1>2 DEF AskedInv, listVars
<1>5. CallInv'
  BY Parts, <1>0, <1>1, <1>2 DEF CallInv, listVars, RequestType
<1>6. WireInv'
  BY Parts, <1>1, <1>2 DEF WireInv, listVars, netVars
<1>7. UserInv'
  BY Parts, <1>1, <1>2 DEF UserInv, Over, loopVars, reqVars
<1>8. EventInv'
  BY Parts, <1>2 DEF EventInv
<1>9. OwnerInv'
  BY Parts, <1>0, <1>2 DEF OwnerInv
<1>10. NoDuplicates'
  BY Parts DEF NoDuplicates, Holds, reqVars
<1> QED
  BY <1>3, <1>4, <1>5, <1>6, <1>7, <1>8, <1>9, <1>10, Parts

\* push_sub_info_to, or its failure, keeps IInv: the node enters the list with
\* its copy of the filter, or the copy is freed.
LEMMA PushKeeps ==
  ASSUME IInv, NEW p \in Callers, Push(p)
  PROVE  IInv'
<1> USE DEF Push, Goto
<1>0. /\ pc[p] = "lock" /\ call[p] \in Active /\ call[p] \in Calls
      /\ call[p] \in buffers \ list /\ call[p] \notin Stored
  BY Parts, ActiveCall DEF CallInv
<1>1. UNCHANGED <<Asked, Stored, Sent, Replied>>
  BY DEF Asked, Stored, Sent, Replied, netVars, reqVars
<1>2. /\ ypc' \in {ypc, "read"} /\ resub_failed' \in BOOLEAN
      /\ itr' = itr /\ topic' = topic
  BY Parts DEF CallEnds, loopVars, YieldType
<1>3. YieldType'
  BY Parts, <1>2 DEF YieldType
<1>4. RequestType' /\ WireType'
  BY Parts DEF RequestType, WireType, netVars, reqVars
<1>5. UserInv' /\ NoDuplicates' /\ EventInv' /\ OwnerInv' /\ AskedInv' /\ WireInv'
      /\ CallInv' /\ ListType' /\ ClientType'
  <2>1. CASE lock_write_buf' = p /\ pc'[p] = "send" /\ list' = list \cup {call[p]}
             /\ buffers' = buffers /\ Cardinality(list) < MAX_MESSAGE_HANDLERS
    <3>1. Active' = Active
      BY <2>1, <1>0, CallGoesOn
    <3>2. Waiting' \subseteq Waiting \cup {call[p]}
      BY <2>1 DEF Waiting
    <3>3. Cardinality(list') <= MAX_MESSAGE_HANDLERS
      <4>1. IsFiniteSet(list) /\ Cardinality(list) \in Nat
        BY Parts, ListFinite DEF ListType
      <4>2. \/ Cardinality(list') = Cardinality(list)
            \/ Cardinality(list') = Cardinality(list) + 1
        BY <2>1, <4>1, FS_AddElement
      <4>3. Cardinality(list) < MAX_MESSAGE_HANDLERS /\ MAX_MESSAGE_HANDLERS \in Nat
        BY <2>1, SubAssumption
      <4> QED
        BY <4>1, <4>2, <4>3
    <3>4. ListType' /\ ClientType'
      BY <2>1, <1>0, <3>3, Parts DEF ListType, ClientType
    <3>5. heard[call[p]] = {}
      BY <1>0, Parts DEF CallInv
    <3>6. EventInv'
      BY <3>2, <3>5, Parts DEF EventInv
    <3>7. OwnerInv'
      BY <2>1, <1>0, <1>1, <3>2, Parts DEF OwnerInv
    <3>8. AskedInv'
      BY <2>1, <1>0, <1>1, <3>1, Parts DEF AskedInv
    <3>9. WireInv'
      BY <1>1, <3>1, Parts DEF WireInv, netVars
    <3>10. CallInv'
      BY <2>1, <1>0, <1>1, <3>1, Parts DEF CallInv, RequestType
    <3>11. UserInv'
      BY <1>0, <1>1, <1>2, <3>1, <3>2, Parts DEF UserInv, Over, reqVars
    <3>12. NoDuplicates'
      BY Parts DEF NoDuplicates, Holds, reqVars
    <3> QED
      BY <3>4, <3>6, <3>7, <3>8, <3>9, <3>10, <3>11, <3>12
  <2>2. CASE pc'[p] = "idle" /\ buffers' = buffers \ {call[p]}
             /\ lock_write_buf' = lock_write_buf /\ list' = list
    <3>1. Active' \subseteq Active
      BY <2>2, <1>0, CallLeaves, Parts DEF RequestType
    <3>2. Waiting' = Waiting
      BY <2>2 DEF Waiting
    <3>3. ListType' /\ ClientType'
      BY <2>2, Parts DEF ListType, ClientType
    <3>4. EventInv'
      BY <3>2, Parts DEF EventInv
    <3>5. OwnerInv'
      BY <2>2, <1>0, <1>1, <3>2, Parts DEF OwnerInv, Waiting
    <3>6. AskedInv'
      BY <2>2, <1>1, <3>1, Parts DEF AskedInv
    <3>7. WireInv'
      BY <1>1, <3>1, Parts DEF WireInv, netVars
    <3>8. CallInv'
      BY <2>2, <1>0, <1>1, <3>1, Parts DEF CallInv, RequestType
    <3>9. UserInv'
      BY <1>1, <1>2, <3>1, <3>2, Parts DEF UserInv, Over, reqVars
    <3>10. NoDuplicates'
      BY Parts DEF NoDuplicates, Holds, reqVars
    <3> QED
      BY <3>3, <3>4, <3>5, <3>6, <3>7, <3>8, <3>9, <3>10
  <2> QED
    BY <2>1, <2>2, Parts DEF RequestType
<1> QED
  BY <1>3, <1>4, <1>5, Parts

\* The step from "send" to "remove", and the write on a client without a
\* connection, keep IInv.
LEMMA SendFailKeeps ==
  ASSUME IInv, NEW p \in Callers, SendFail(p) \/ SendNoHandle(p)
  PROVE  IInv'
<1> USE DEF SendFail, SendNoHandle, Goto
<1>0. pc[p] = "send" /\ call[p] \in Active /\ call' = call
  BY ActiveCall
<1>1. Active' = Active
  <2>1. CASE pc' = pc
    BY <1>0, <2>1 DEF Active
  <2>2. CASE pc' = [pc EXCEPT ![p] = "remove"]
    BY <1>0, <2>2, CallGoesOn
  <2> QED
    BY <2>1, <2>2
<1>2. UNCHANGED <<Asked, Stored, Waiting, Sent, Replied>>
  BY DEF Asked, Stored, Waiting, Sent, Replied, listVars, netVars, reqVars
<1>3. ClientType' /\ ListType' /\ RequestType' /\ YieldType' /\ WireType'
  BY Parts DEF ClientType, ListType, RequestType, YieldType, WireType, listVars,
    loopVars, netVars, reqVars
<1>4. AskedInv'
  BY Parts, <1>1, <1>2 DEF AskedInv, listVars
<1>5. CallInv'
  BY Parts, <1>0, <1>1, <1>2 DEF CallInv, listVars, RequestType
<1>6. WireInv'
  BY Parts, <1>1, <1>2 DEF WireInv, listVars, netVars
<1>7. UserInv'
  BY Parts, <1>1, <1>2 DEF UserInv, Over, loopVars, reqVars
<1>8. EventInv' /\ OwnerInv' /\ NoDuplicates'
  BY Parts, <1>2 DEF EventInv, OwnerInv, NoDuplicates, Holds, reqVars
<1> QED
  BY <1>3, <1>4, <1>5, <1>6, <1>7, <1>8, Parts

\* What becomes of the queue to the broker when a call ends: its request may
\* enter it.
LEMMA QueueGrows ==
  ASSUME IInv, NEW p \in Callers, pc[p] # "idle", pc' = [pc EXCEPT ![p] = "idle"],
         call' = call, down' = down, node_state' = node_state,
         up' \in {up, Append(up, call[p])}
  PROVE  /\ WireInv' /\ up' \in Seq(Calls)
         /\ Sent' \subseteq Sent \cup {call[p]} /\ Replied' = Replied
<1>0. call[p] \in Active /\ call[p] \in Calls /\ call[p] \notin Sent \cup Replied
  BY ActiveCall, Parts DEF CallInv
<1>1. Active' = Active \ {call[p]} /\ Replied' = Replied
  BY CallLeaves DEF Replied
<1>2. CASE up' = up
  BY <1>1, <1>2, Parts DEF WireInv, WireType, Sent
<1>3. CASE up' = Append(up, call[p])
  <2>1. up' \in Seq(Calls) /\ Sent' = Sent \cup {call[p]}
    BY <1>0, <1>3, AppendUp, Parts DEF WireType, Sent
  <2>2. \A i, j \in 1..Len(up') : i # j => up'[i] # up'[j]
    BY <1>0, <1>3, AppendUp, Parts DEF WireType, Sent, WireInv
  <2> QED
    BY <1>0, <1>1, <2>1, <2>2, Parts DEF WireInv
<1> QED
  BY <1>2, <1>3

\* A packet that was written, or silently was not, keeps IInv.
LEMMA SendKeeps ==
  ASSUME IInv, NEW p \in Callers, Send(p)
  PROVE  IInv'
<1> USE DEF Send, Goto
<1>0. pc[p] = "send" /\ call[p] \in Active /\ call[p] \in Calls
  BY ActiveCall
<1>1. Active' = Active \ {call[p]}
  BY <1>0, CallLeaves
<1>2. WireInv' /\ up' \in Seq(Calls) /\ Sent' \subseteq Sent \cup {call[p]} /\ Replied' = Replied
  BY <1>0, QueueGrows DEF listVars
<1>3. UNCHANGED <<Asked, Stored, Waiting>>
  BY DEF Asked, Stored, Waiting, listVars, reqVars
<1>4. /\ ypc' \in {ypc, "resubscribe"} /\ resub_failed' \in BOOLEAN
      /\ itr' = itr /\ topic' = topic
  BY Parts DEF CallEnds, loopVars, YieldType
<1>5. ClientType' /\ ListType' /\ RequestType' /\ YieldType' /\ WireType'
  BY Parts, <1>2, <1>4 DEF ClientType, ListType, RequestType, YieldType, WireType, listVars,
    reqVars
<1>6. AskedInv'
  BY Parts, <1>0, <1>1, <1>2, <1>3 DEF AskedInv, listVars
<1>7. CallInv'
  BY Parts, <1>0, <1>1, <1>2, <1>3 DEF CallInv, listVars, RequestType
<1>8. UserInv'
  BY Parts, <1>1, <1>3, <1>4 DEF UserInv, Over, reqVars
<1>9. EventInv' /\ OwnerInv' /\ NoDuplicates'
  BY Parts, <1>3 DEF EventInv, OwnerInv, NoDuplicates, Holds, reqVars
<1> QED
  BY <1>2, <1>5, <1>6, <1>7, <1>8, <1>9, Parts

\* list_remove after a failed send keeps IInv: the node and its string go, and
\* neither was in a slot.
LEMMA SendRemoveKeeps ==
  ASSUME IInv, NEW p \in Callers, SendRemove(p)
  PROVE  IInv'
<1> USE DEF SendRemove, Goto
<1>0. pc[p] = "remove" /\ call[p] \in Active /\ call[p] \in Calls /\ call[p] \notin Stored
  BY ActiveCall, Parts DEF CallInv
<1>1. Active' = Active \ {call[p]}
  BY <1>0, CallLeaves
<1>2. WireInv' /\ up' \in Seq(Calls) /\ Sent' \subseteq Sent \cup {call[p]} /\ Replied' = Replied
  BY <1>0, QueueGrows DEF listVars
<1>3. Asked' = Asked /\ Stored' = Stored /\ Waiting' = Waiting \ {call[p]}
  BY DEF Asked, Stored, Waiting, reqVars
<1>4. /\ ypc' \in {ypc, "read"} /\ resub_failed' \in BOOLEAN
      /\ itr' = itr /\ topic' = topic
  BY Parts DEF CallEnds, loopVars, YieldType
<1>5. ListType'
  <2>1. list' \subseteq list
    OBVIOUS
  <2>2. Cardinality(list') <= MAX_MESSAGE_HANDLERS
    BY <2>1, SmallerList, Parts DEF ListType
  <2> QED
    BY <2>1, <2>2, Parts DEF ListType
<1>6. ClientType' /\ RequestType' /\ YieldType' /\ WireType'
  BY Parts, <1>2, <1>4 DEF ClientType, RequestType, YieldType, WireType, reqVars
<1>7. AskedInv'
  BY Parts, <1>0, <1>1, <1>2, <1>3 DEF AskedInv
<1>8. CallInv'
  BY Parts, <1>0, <1>1, <1>2, <1>3 DEF CallInv, RequestType
<1>9. UserInv'
  BY Parts, <1>1, <1>3, <1>4 DEF UserInv, Over, reqVars
<1>10. EventInv' /\ OwnerInv' /\ NoDuplicates'
  BY Parts, <1>0, <1>3 DEF EventInv, OwnerInv, NoDuplicates, Holds, reqVars
<1> QED
  BY <1>2, <1>5, <1>6, <1>7, <1>8, <1>9, <1>10, Parts

\* What every answer leaves: its id is no longer under way, and may be marked.
LEMMA Received ==
  ASSUME IInv, NEW a \in {"SUBACK", "NACK", "UNSUBACK"}, Receive(a),
         NEW n, n = Head(down).id
  PROVE  /\ n \in Calls /\ n \in Asked /\ n \notin Active \cup Sent
         /\ n \in list => n \in Waiting
         /\ UNCHANGED <<Asked, Active, Sent>> /\ Replied' = Replied \ {n}
         /\ RequestType' /\ WireType'
         /\ ypc' \in {ypc, "proc"} => YieldType'
         /\ node_state' = node_state \/ Mark(n) => WireInv'
<1> USE DEF Receive
<1>0. down \in Seq(Packet) /\ down # << >> /\ down' = Tail(down)
  BY Parts DEF WireType
<1>1. /\ Head(down) \in Packet /\ down' \in Seq(Packet)
      /\ Replied = {n} \cup Replied' /\ n \notin Replied'
      /\ \A i, j \in 1..Len(down') : i # j => down'[i].id # down'[j].id
  <2>1. /\ Head(down) \in Packet /\ Tail(down) \in Seq(Packet)
        /\ {down[i].id : i \in 1..Len(down)} =
             {n} \cup {Tail(down)[i].id : i \in 1..Len(Tail(down))}
        /\ n \notin {Tail(down)[i].id : i \in 1..Len(Tail(down))}
        /\ \A i, j \in 1..Len(Tail(down)) :
             i # j => Tail(down)[i].id # Tail(down)[j].id
    BY <1>0, TailDown, Parts DEF WireInv
  <2> QED
    BY <1>0, <2>1 DEF Replied
<1>2. n \in Calls /\ n \in Replied
  BY <1>1 DEF Packet
<1>3. UNCHANGED <<Asked, Active, Sent>> /\ Replied' = Replied \ {n}
  BY <1>1 DEF Asked, Active, Sent, reqVars
<1>4. n \in Asked /\ n \notin Active \cup Sent /\ node_state[n] = "NORMAL"
  BY <1>2, Parts DEF AskedInv, CallInv, WireInv
<1>5. RequestType' /\ WireType'
  BY <1>1, Parts DEF RequestType, WireType, reqVars
<1>6. ypc' \in {ypc, "proc"} => YieldType'
  BY Parts DEF YieldType
<1>7. node_state' = node_state \/ Mark(n) => WireInv'
  <2>1. ASSUME node_state' = node_state \/ Mark(n), NEW m \in Active \cup Sent \cup Replied'
        PROVE  node_state'[m] = "NORMAL"
    <3>1. m # n /\ node_state[m] = "NORMAL"
      BY <2>1, <1>1, <1>3, <1>4, Parts DEF WireInv
    <3>2. m \in Calls
      BY <2>1, <1>3, AskedCalls, Parts DEF AskedInv
    <3> QED
      BY <2>1, <3>1, <3>2, Parts DEF Mark, ListType
  <2> QED
    BY <1>1, <1>3, <2>1, Parts DEF WireInv
<1> QED
  BY <1>2, <1>3, <1>4, <1>5, <1>6, <1>7 DEF Waiting

\* What is over stays over, so UserInv is about the slots that change.
LEMMA UserInvKept ==
  ASSUME IInv, Asked' = Asked, user' = user, Over \subseteq Over',
         \A i \in Slots : sub_handles'[i].by \in Over',
         ypc' = "copy" => itr' \in Slots
  PROVE  UserInv'
  BY Parts DEF UserInv

\* A SUBACK keeps IInv: the string of the request moves to a free slot or is
\* freed, and the slot's user data belongs to a request that is over.
LEMMA YSubackKeeps ==
  ASSUME IInv, YSuback
  PROVE  IInv'
<1> PICK n : n = Head(down).id
  OBVIOUS
<1> PICK u : u = user[n]
  OBVIOUS
<1> USE DEF YSuback
<1>0. /\ n \in Calls /\ n \in Asked /\ n \notin Active \cup Sent
      /\ n \in list => n \in Waiting
      /\ UNCHANGED <<Asked, Active, Sent>> /\ Replied' = Replied \ {n}
      /\ RequestType' /\ WireType'
      /\ ypc' \in {ypc, "proc"} => YieldType'
      /\ node_state' = node_state \/ Mark(n) => WireInv'
  BY Received
<1>1. CASE n \notin list
  <2>1. UNCHANGED <<sub_handles, buffers, heard, ypc, node_state, list>>
    BY <1>1 DEF Receive
  <2>2. UNCHANGED <<Stored, Waiting>>
    BY <2>1 DEF Stored, Waiting
  <2>3. ClientType' /\ ListType' /\ YieldType' /\ WireInv'
    BY <1>0, <2>1, Parts DEF ClientType, ListType, Receive
  <2>4. AskedInv' /\ CallInv' /\ UserInv' /\ EventInv' /\ OwnerInv' /\ NoDuplicates'
    BY <1>0, <2>1, <2>2, Parts DEF AskedInv, CallInv, UserInv, Over, EventInv, OwnerInv,
      NoDuplicates, Holds, Receive, reqVars
  <2> QED
    BY <1>0, <2>3, <2>4, Parts
<1>2. CASE n \in list
  <2>1. Mark(n) /\ Install(n) /\ n \in Waiting /\ n \notin Stored /\ n \in buffers
    BY <1>0, <1>2, Parts DEF OwnerInv
  <2>2. Waiting' = Waiting \ {n} /\ list' = list
    BY <2>1, Parts DEF Mark, Waiting, ListType, Receive
  <2>3. /\ ypc' \in {ypc, "proc"}
        /\ heard' = heard \/ Raise(n, "SUBCRIBE_SUCCESS")
    BY <2>1 DEF Install
  <2>4. ListType'
    BY <1>0, <2>1, <2>3, Parts DEF ListType, Mark, Raise, Event, Receive
  <2>5. \A m \in Calls : m # n => heard'[m] = heard[m]
    BY <2>3, Parts DEF Raise, ListType
  <2>6. EventInv'
    BY <2>2, <2>5, Parts DEF EventInv, Waiting, ListType
  <2>7. Over \subseteq Over'
    BY <1>0, <2>2 DEF Over
  <2>8. u \in Over'
    <3>1. u = n \/ u \in Over
      BY <1>0, Parts DEF UserInv
    <3>2. n \in Over'
      BY <1>0, <2>2 DEF Over
    <3> QED
      BY <3>1, <3>2, <2>7
  <2>0. u \in 0..MaxCalls
    BY <1>0, Parts DEF RequestType
  <2>9. \A m \in Calls \ Asked : node_state'[m] = "NORMAL" /\ heard'[m] = {}
    BY <1>0, <2>1, <2>5, Parts DEF AskedInv, Mark, ListType
  <2>10. \A p \in Callers : pc[p] # "idle" => call[p] # n /\ heard'[call[p]] = heard[call[p]]
    BY <1>0, <2>5, ActiveCall
  <2>11. CASE /\ \E i \in Slots : sub_handles' = [sub_handles EXCEPT ![i].by = u]
              /\ buffers' = buffers \ {n}
    <3>1. PICK i \in Slots : sub_handles' = [sub_handles EXCEPT ![i].by = u]
      BY <2>11
    <3>2. \A j \in Slots :
            /\ sub_handles'[j].buf = sub_handles[j].buf
            /\ sub_handles'[j].by \in {sub_handles[j].by, u}
      BY <3>1, Parts DEF ClientType
    <3>3. Stored' = Stored
      BY <3>2 DEF Stored
    <3>4. ClientType'
      BY <2>0, <2>11, <3>1, Parts, SMTT(30) DEF ClientType, Receive
    <3>5. UserInv'
      BY <1>0, <2>3, <2>7, <2>8, <3>2, UserInvKept, Parts DEF UserInv, Receive, reqVars
    <3>6. AskedInv' /\ CallInv'
      BY <1>0, <2>2, <2>9, <2>10, <2>11, <3>3, Parts DEF AskedInv, CallInv, Receive
    <3>7. OwnerInv' /\ NoDuplicates'
      BY <2>1, <2>2, <2>11, <3>2, <3>3, Parts DEF OwnerInv, NoDuplicates, Holds, Receive, reqVars
    <3> QED
      BY <1>0, <2>1, <2>3, <2>4, <2>6, <3>4, <3>5, <3>6, <3>7, Parts
  <2>12. CASE /\ \E i \in FreeSlots :
                   sub_handles' = [sub_handles EXCEPT ![i] = [buf |-> n, by |-> u]]
              /\ \A j \in Slots : ~Holds(j, n)
              /\ buffers' = buffers
    <3>1. PICK i \in FreeSlots :
            sub_handles' = [sub_handles EXCEPT ![i] = [buf |-> n, by |-> u]]
      BY <2>12
    <3>2. /\ i \in Slots /\ sub_handles[i].buf = NULL
          /\ sub_handles'[i].buf = n /\ sub_handles'[i].by = u
          /\ \A j \in Slots \ {i} : sub_handles'[j] = sub_handles[j]
      BY <3>1, Parts DEF ClientType, FreeSlots
    <3>3. n # NULL /\ NULL \notin Stored
      BY <1>0 DEF Calls, NULL, Stored
    <3>4. Stored' = Stored \cup {n}
      BY <3>2, <3>3 DEF Stored
    <3>5. ClientType'
      BY <1>0, <2>0, <2>12, <3>1, Parts DEF ClientType, Receive, FreeSlots, Calls
    <3>6. UserInv'
      BY <1>0, <2>3, <2>7, <2>8, <3>2, UserInvKept, Parts DEF UserInv, Receive, reqVars
    <3>7. AskedInv' /\ CallInv'
      <4>1. Active' \cap (Stored' \cup Sent' \cup Replied') = {}
        BY <1>0, <3>4, Parts DEF CallInv
      <4>2. AskedInv'
        BY <1>0, <2>2, <2>9, <2>12, <3>4, Parts DEF AskedInv, Receive
      <4>3. CallInv'
        BY <1>0, <2>2, <2>10, <2>12, <4>1, Parts DEF CallInv, Receive
      <4> QED
        BY <4>2, <4>3
    <3>8. OwnerInv'
      BY <2>1, <2>2, <2>12, <3>2, <3>4, Parts DEF OwnerInv, Stored
    <3>9. NoDuplicates'
      BY <2>12, <3>2, Parts DEF NoDuplicates, Holds, Receive, reqVars
    <3> QED
      BY <1>0, <2>1, <2>3, <2>4, <2>6, <3>5, <3>6, <3>7, <3>8, <3>9, Parts
  <2>13. CASE UNCHANGED <<sub_handles, buffers>>
    <3>1. Stored' = Stored
      BY <2>13 DEF Stored
    <3>2. ClientType'
      BY <2>13, Parts DEF ClientType, Receive
    <3>3. UserInv'
      BY <1>0, <2>3, <2>7, <2>13, UserInvKept, Parts DEF UserInv, Receive, reqVars
    <3>4. AskedInv' /\ CallInv'
      BY <1>0, <2>2, <2>9, <2>10, <2>13, <3>1, Parts DEF AskedInv, CallInv, Receive
    <3>5. OwnerInv' /\ NoDuplicates'
      BY <2>2, <2>13, <3>1, Parts DEF OwnerInv, NoDuplicates, Holds, Receive, reqVars
    <3> QED
      BY <1>0, <2>1, <2>3, <2>4, <2>6, <3>2, <3>3, <3>4, <3>5, Parts
  <2> QED
    BY <2>1, <2>11, <2>12, <2>13 DEF Install, FirstSlots, FreeSlots
<1> QED
  BY <1>1, <1>2

\* A refusal or an UNSUBACK keeps IInv: the string of the waiting node, which
\* no slot holds, is freed.
LEMMA RefusalKeeps ==
  ASSUME IInv, YNack \/ YUnsuback
  PROVE  IInv'
<1> PICK n : n = Head(down).id
  OBVIOUS
<1> USE DEF YNack, YUnsuback
<1>0. /\ n \in Calls /\ n \in Asked /\ n \notin Active \cup Sent
      /\ n \in list => n \in Waiting
      /\ UNCHANGED <<Asked, Active, Sent>> /\ Replied' = Replied \ {n}
      /\ RequestType' /\ WireType'
      /\ ypc' \in {ypc, "proc"} => YieldType'
      /\ node_state' = node_state \/ Mark(n) => WireInv'
  BY Received
<1>1. /\ Raise(n, "SUBCRIBE_NACK") \/ Raise(n, "UNSUBCRIBE_SUCCESS")
      /\ \/ n \in list /\ Mark(n) /\ buffers' = buffers \ {n}
         \/ n \notin list /\ UNCHANGED <<node_state, buffers>>
      /\ ypc' \in {ypc, "proc"} /\ sub_handles' = sub_handles
      /\ fault' \in {fault, "garbage_freed"}
  OBVIOUS
<1>2. Waiting' = Waiting \ {n} /\ list' = list /\ Stored' = Stored
  BY <1>1, Parts DEF Mark, Waiting, ListType, Receive, Stored
<1>3. \A m \in Calls : m # n => heard'[m] = heard[m]
  BY <1>1, Parts DEF Raise, ListType
<1>4. ListType'
  BY <1>0, <1>1, Parts DEF ListType, Mark, Raise, Event, Receive
<1>5. ClientType'
  BY <1>1, Parts DEF ClientType, Receive
<1>6. Over \subseteq Over'
  BY <1>0, <1>2 DEF Over
<1>7. UserInv'
  BY <1>1, <1>0, <1>6, UserInvKept, Parts DEF UserInv, Receive, reqVars
<1>8. \A m \in Calls \ Asked : node_state'[m] = "NORMAL" /\ heard'[m] = {}
  BY <1>0, <1>1, <1>3, Parts DEF AskedInv, Mark, ListType
<1>9. AskedInv'
  BY <1>0, <1>1, <1>2, <1>8, Parts DEF AskedInv
<1>10. \A p \in Callers : pc[p] # "idle" => call[p] # n /\ heard'[call[p]] = heard[call[p]]
  BY <1>0, <1>3, ActiveCall
<1>11. CallInv'
  BY <1>0, <1>1, <1>2, <1>10, Parts DEF CallInv, Receive
<1>12. EventInv'
  BY <1>2, <1>3, Parts DEF EventInv, Waiting, ListType
<1>13. OwnerInv'
  BY <1>0, <1>1, <1>2, Parts DEF OwnerInv
<1>14. NoDuplicates'
  BY <1>1, Parts DEF NoDuplicates, Holds, Receive, reqVars
<1> QED
  BY <1>0, <1>1, <1>4, <1>5, <1>7, <1>9, <1>11, <1>12, <1>13, <1>14, Parts

\* Reading something else, reconnecting and the next slot of resubscribe keep
\* IInv: they change no request, no slot and no string.
LEMMA LoopKeeps ==
  ASSUME IInv, YReadOther \/ YReconnect \/ YResubscribe
  PROVE  IInv'
<1> USE DEF YReadOther, YReconnect, YResubscribe
<1>1. UNCHANGED <<Asked, Active, Stored, Waiting, Sent, Replied, Over>>
  BY DEF Asked, Active, Stored, Waiting, Sent, Replied, Over, listVars, netVars, reqVars
<1>2. UNCHANGED <<sub_handles, lock_write_buf, list, node_state, ack_expired, buffers, reqVars,
                  pc, call, netVars, disconnects, heard, fault>>
  BY DEF listVars
<1>3. is_connected' \in BOOLEAN
  BY Parts DEF ClientType
<1>4. ClientType' /\ ListType' /\ RequestType' /\ WireType'
  BY <1>2, <1>3, Parts DEF ClientType, ListType, RequestType, WireType, netVars, reqVars
<1>5. YieldType' /\ (ypc' = "copy" => itr' \in Slots)
  <2>1. itr \in Nat /\ \A i \in Slots : sub_handles[i].buf \in 0..MaxCalls
    BY Parts DEF YieldType, ClientType
  <2>2. itr < MAX_MESSAGE_HANDLERS => itr + 1 \in Slots /\ itr + 1 \in 0..MAX_MESSAGE_HANDLERS
    BY <2>1, SubAssumption DEF Slots
  <2>3. CASE YReadOther \/ YReconnect
    BY <2>3, Parts, SubAssumption DEF YieldType
  <2>4. CASE YResubscribe
    BY <2>1, <2>2, <2>4, Parts DEF YieldType
  <2> QED
    BY <2>3, <2>4
<1>6. UserInv'
  BY <1>1, <1>2, <1>5, UserInvKept, Parts DEF UserInv, reqVars
<1>7. AskedInv' /\ CallInv' /\ EventInv' /\ OwnerInv'
  BY <1>1, <1>2, Parts DEF AskedInv, CallInv, EventInv, OwnerInv
<1>8. WireInv' /\ NoDuplicates'
  BY <1>1, <1>2, Parts DEF WireInv, NoDuplicates, Holds, netVars, reqVars
<1> QED
  BY <1>4, <1>5, <1>6, <1>7, <1>8, Parts

\* A pass of qcloud_iot_mqtt_sub_info_proc keeps IInv: the strings it frees are
\* those of waiting nodes, which leave the list with them.
LEMMA SubInfoProcKeeps ==
  ASSUME IInv, YSubInfoProc
  PROVE  IInv'
<1> DEFINE Late == {n \in list : node_state[n] # "INVALID" /\ n \in ack_expired}
<1> USE DEF YSubInfoProc
<1>1. /\ list' = {n \in list \ Late : node_state[n] # "INVALID"}
      /\ buffers' = buffers \ Late
      /\ \A n \in Calls : n \notin Late => heard'[n] = heard[n]
  OBVIOUS
<1>2. Late \subseteq Waiting /\ Waiting' = Waiting \ Late
  BY <1>1, Parts DEF Waiting, ListType
<1>3. UNCHANGED <<Asked, Active, Stored, Sent, Replied>>
  BY DEF Asked, Active, Stored, Sent, Replied, netVars, reqVars
<1>4. Cardinality(list') <= MAX_MESSAGE_HANDLERS
  <2>1. list' \subseteq list
    BY <1>1
  <2> QED
    BY <2>1, SmallerList, Parts
<1>5. ListType'
  BY <1>1, <1>4, Parts DEF ListType, Event, TimeoutOf
<1>6. ClientType' /\ RequestType' /\ YieldType' /\ WireType'
  BY Parts DEF ClientType, RequestType, YieldType, WireType, netVars, reqVars
<1>7. Over \subseteq Over'
  BY <1>2, <1>3 DEF Over
<1>8. UserInv'
  BY <1>3, <1>7, UserInvKept, Parts DEF UserInv, reqVars
<1>9. AskedInv'
  BY <1>1, <1>2, <1>3, Parts DEF AskedInv, Waiting
<1>10. \A p \in Callers : pc[p] \in {"unsubscribe", "lock"} =>
         call[p] \notin Late /\ heard'[call[p]] = heard[call[p]]
  BY <1>1, ActiveCall, Parts DEF CallInv
<1>11. CallInv'
  BY <1>1, <1>3, <1>10, Parts DEF CallInv
<1>12. WireInv'
  BY <1>3, Parts DEF WireInv, netVars
<1>13. EventInv'
  BY <1>1, <1>2, Parts DEF EventInv, Waiting, ListType
<1>14. OwnerInv' /\ NoDuplicates'
  BY <1>1, <1>2, <1>3, Parts DEF OwnerInv, NoDuplicates, Holds, reqVars
<1> QED
  BY <1>5, <1>6, <1>8, <1>9, <1>11, <1>12, <1>13, <1>14, Parts

\* Losing the connection, and with it what was under way, keeps IInv.
LEMMA DisconnectKeeps ==
  ASSUME IInv, YDisconnect
  PROVE  IInv'
<1> USE DEF YDisconnect
<1>1. UNCHANGED <<Asked, Active, Stored, Waiting, Over>> /\ Sent' = {} /\ Replied' = {}
  BY DEF Asked, Active, Stored, Waiting, Over, Sent, Replied, listVars, reqVars
<1>2. disconnects' \in 0..MaxDisconnects
  BY Parts, SubAssumption DEF ClientType
<1>3. ClientType' /\ ListType' /\ RequestType' /\ YieldType'
  BY <1>2, Parts DEF ClientType, ListType, RequestType, YieldType, listVars, reqVars
<1>4. WireType'
  BY Parts DEF WireType
<1>5. UserInv'
  BY <1>1, UserInvKept, Parts DEF UserInv, reqVars
<1>6. AskedInv' /\ CallInv' /\ EventInv' /\ OwnerInv'
  BY <1>1, Parts DEF AskedInv, CallInv, EventInv, OwnerInv, listVars
<1>7. WireInv'
  BY <1>1, Parts DEF WireInv, listVars
<1>8. NoDuplicates'
  BY Parts DEF NoDuplicates, Holds, reqVars
<1> QED
  BY <1>3, <1>4, <1>5, <1>6, <1>7, <1>8, Parts

\* The call of qcloud_iot_mqtt_subscribe that resubscribe makes keeps IInv: its
\* user data is a slot's, so that of a request that is over.
LEMMA CopyKeeps ==
  ASSUME IInv, YCopy
  PROVE  IInv'
<1> USE DEF YCopy
<1>0. itr \in Slots /\ UNCHANGED <<itr, sub_handles, list, node_state, ack_expired, up, down,
                                   heard, netVars>>
  BY Parts DEF UserInv, listVars, netVars
<1>1. CASE /\ UNCHANGED <<pc, call, reqVars>> /\ buffers' = buffers
           /\ fault' \in {fault, "freed"} /\ ypc' \in {ypc, "read"}
           /\ resub_failed' \in {resub_failed, TRUE}
  <2>1. UNCHANGED <<Asked, Active, Stored, Waiting, Sent, Replied, Over>>
    BY <1>0, <1>1 DEF Asked, Active, Stored, Waiting, Sent, Replied, Over, reqVars
  <2>2. resub_failed' \in BOOLEAN
    BY <1>1, Parts DEF YieldType
  <2>3. ClientType' /\ ListType' /\ RequestType' /\ YieldType' /\ WireType'
    BY <1>1, <2>2, Parts DEF ClientType, ListType, RequestType, YieldType, WireType,
      listVars, netVars, reqVars
  <2>4. UserInv'
    BY <1>0, <1>1, <2>1, UserInvKept, Parts DEF UserInv, reqVars
  <2>5. AskedInv' /\ CallInv' /\ EventInv' /\ OwnerInv'
    BY <1>0, <1>1, <2>1, Parts DEF AskedInv, CallInv, EventInv, OwnerInv
  <2>6. WireInv' /\ NoDuplicates'
    BY <1>0, <1>1, <2>1, Parts DEF WireInv, NoDuplicates, Holds, reqVars
  <2> QED
    BY <2>3, <2>4, <2>5, <2>6, Parts
<1>2. CASE /\ topic \in buffers /\ ypc' = "call" /\ Goto(Yielder, "idle", "lock")
           /\ Request(Yielder, "SUBSCRIBE", filter[topic], handlers[topic],
                      sub_handles[itr].by)
           /\ buffers' = buffers \cup {calls + 1}
           /\ UNCHANGED <<resub_failed, fault>>
  <2>1. /\ Yielder \in Callers /\ filter[topic] \in Topics /\ handlers[topic] \in Handlers
        /\ sub_handles[itr].by \in 0..MaxCalls /\ sub_handles[itr].by \in Over
    BY <1>0, <1>2, Parts DEF Callers, ClientType, RequestType, UserInv
  <2>2. /\ RequestType'
        /\ Asked' = Asked \cup {calls + 1} /\ calls + 1 \in Calls \ Asked
        /\ Active' = Active \cup {calls + 1}
        /\ call'[Yielder] = calls + 1 /\ user'[calls + 1] = sub_handles[itr].by
        /\ \A q \in Callers \ {Yielder} : call'[q] = call[q] /\ pc'[q] = pc[q]
        /\ \A n \in Asked : /\ filter'[n] = filter[n] /\ user'[n] = user[n]
                          /\ handlers'[n] = handlers[n]
    BY <1>2, <2>1, NewRequest
  <2>3. UNCHANGED <<Stored, Waiting, Sent, Replied>>
    BY <1>0 DEF Stored, Waiting, Sent, Replied
  <2>4. ClientType' /\ ListType' /\ YieldType' /\ WireType'
    BY <1>2, <2>2, Parts DEF ClientType, ListType, YieldType, WireType, listVars, netVars
  <2>5. AskedInv'
    BY <1>0, <1>2, <2>2, <2>3, Parts DEF AskedInv
  <2>6. CallInv'
    BY <1>0, <1>2, <2>2, <2>3, Parts DEF AskedInv, CallInv, Active
  <2>7. WireInv'
    BY <1>0, <2>2, <2>3, Parts DEF WireInv, AskedInv
  <2>8. UserInv'
    <3>1. Over \subseteq Over'
      BY <2>2, <2>3 DEF Over, Calls
    <3>2. \A i \in Slots : sub_handles'[i].by \in Over'
      BY <1>0, <3>1, Parts DEF UserInv
    <3>3. \A n \in Asked' : user'[n] = n \/ user'[n] \in Over'
      BY <2>1, <2>2, <3>1, Parts DEF UserInv
    <3> QED
      BY <1>2, <3>2, <3>3 DEF UserInv
  <2>9. EventInv' /\ OwnerInv'
    BY <1>0, <1>2, <2>3, Parts DEF EventInv, OwnerInv
  <2>10. NoDuplicates'
    BY <1>0, <2>2, Parts DEF NoDuplicates, Holds, AskedInv, Stored, NULL
  <2> QED
    BY <2>2, <2>4, <2>5, <2>6, <2>7, <2>8, <2>9, <2>10, Parts
<1> QED
  BY <1>1, <1>2

\* IOT_MQTT_Destroy keeps IInv: every slot's string is freed once, and only
\* requests that are over hear of it.
LEMMA DestroyKeeps ==
  ASSUME IInv, Destroy
  PROVE  IInv'
<1> USE DEF Destroy
<1>1. \A i \in Slots :
        /\ sub_handles'[i] \in [buf : 0..MaxCalls, by : 0..MaxCalls]
        /\ sub_handles'[i].by = sub_handles[i].by
        /\ sub_handles'[i].buf = NULL
  <2>1. \A i \in Slots : sub_handles[i] \in [buf : 0..MaxCalls, by : 0..MaxCalls]
    BY Parts DEF ClientType
  <2>2. \A i \in Slots : sub_handles'[i] = [sub_handles[i] EXCEPT !.buf = NULL]
    OBVIOUS
  <2>3. NULL \in 0..MaxCalls
    BY SubAssumption DEF NULL
  <2> QED
    BY <2>1, <2>2, <2>3
<1>2. /\ Asked' = Asked /\ Active' = Active /\ Stored' = {} /\ Waiting' = {}
      /\ Sent' = {} /\ Replied' = {} /\ Active = {}
  BY <1>1 DEF Asked, Active, Stored, Waiting, Sent, Replied, reqVars
<1>3. ClientType'
  BY <1>1, Parts DEF ClientType
<1>4. ListType'
  <2>1. Cardinality({}) <= MAX_MESSAGE_HANDLERS
    BY FS_EmptySet, SubAssumption
  <2>2. heard' \in [Calls -> SUBSET Event]
    BY Parts DEF ListType, Event
  <2> QED
    BY <2>1, <2>2, Parts DEF ListType
<1>5. RequestType' /\ YieldType' /\ WireType'
  BY Parts DEF RequestType, YieldType, WireType, reqVars
<1>6. \A n \in Calls \ Asked : heard'[n] = heard[n]
  BY Parts DEF UserInv, Over, Calls
<1>7. AskedInv'
  BY <1>2, <1>6, Parts DEF AskedInv
<1>8. CallInv' /\ WireInv'
  BY <1>2, Parts DEF CallInv, WireInv
<1>9. Over \subseteq Over'
  BY <1>2 DEF Over
<1>10. UserInv'
  BY <1>1, <1>2, <1>9, UserInvKept, Parts DEF UserInv, reqVars
<1>11. EventInv' /\ OwnerInv' /\ NoDuplicates'
  BY <1>1, <1>2 DEF EventInv, OwnerInv, NoDuplicates, Holds
<1> QED
  BY <1>3, <1>4, <1>5, <1>7, <1>8, <1>10, <1>11, Parts

\* An ACK timer that runs out keeps IInv.
LEMMA AckTimerExpiresKeeps ==
  ASSUME IInv, NEW n \in Calls, AckTimerExpires(n)
  PROVE  IInv'
<1> USE DEF AckTimerExpires
<1>1. UNCHANGED <<Asked, Active, Stored, Waiting, Sent, Replied, Over>>
  BY DEF Asked, Active, Stored, Waiting, Sent, Replied, Over, netVars, reqVars
<1>2. ClientType' /\ ListType' /\ RequestType' /\ YieldType' /\ WireType'
  BY Parts DEF ClientType, ListType, RequestType, YieldType, WireType, loopVars, netVars,
    reqVars
<1>3. UserInv'
  BY <1>1, UserInvKept, Parts DEF UserInv, reqVars, loopVars
<1>4. AskedInv' /\ CallInv' /\ EventInv' /\ OwnerInv'
  BY <1>1, Parts DEF AskedInv, CallInv, EventInv, OwnerInv
<1>5. WireInv' /\ NoDuplicates'
  BY <1>1, Parts DEF WireInv, NoDuplicates, Holds, netVars, reqVars
<1> QED
  BY <1>2, <1>3, <1>4, <1>5, Parts

\* The broker's answer keeps IInv: the id moves from one queue to the other.
LEMMA BrokerKeeps ==
  ASSUME IInv, Broker
  PROVE  IInv'
<1> PICK n : n = Head(up)
  OBVIOUS
<1> USE DEF Broker
<1>1. /\ n \in Calls /\ up' \in Seq(Calls) /\ Sent = {n} \cup Sent' /\ n \notin Sent'
      /\ \A i, j \in 1..Len(up') : i # j => up'[i] # up'[j]
  <2>1. up \in Seq(Calls) /\ up # << >> /\ up' = Tail(up)
    BY Parts DEF WireType
  <2>2. /\ n \in Calls /\ Tail(up) \in Seq(Calls)
        /\ {up[i] : i \in 1..Len(up)} = {n} \cup {Tail(up)[i] : i \in 1..Len(Tail(up))}
        /\ n \notin {Tail(up)[i] : i \in 1..Len(Tail(up))}
        /\ \A i, j \in 1..Len(Tail(up)) : i # j => Tail(up)[i] # Tail(up)[j]
    BY <2>1, TailUp, Parts DEF WireInv
  <2> QED
    BY <2>1, <2>2 DEF Sent
<1>2. n \notin Replied
  BY <1>1, Parts DEF WireInv
<1>3. PICK m \in Packet : m.id = n /\ down' = Append(down, m)
  BY <1>1, Parts DEF Packet, RequestType
<1>4. /\ down' \in Seq(Packet) /\ Replied' = Replied \cup {n}
      /\ \A i, j \in 1..Len(down') : i # j => down'[i].id # down'[j].id
  <2>1. down \in Seq(Packet) /\ m.id \notin {down[i].id : i \in 1..Len(down)}
        /\ \A i, j \in 1..Len(down) : i # j => down[i].id # down[j].id
    BY <1>2, <1>3, Parts DEF WireType, WireInv, Replied
  <2>2. /\ Append(down, m) \in Seq(Packet)
        /\ {Append(down, m)[i].id : i \in 1..Len(Append(down, m))} =
             {down[i].id : i \in 1..Len(down)} \cup {m.id}
        /\ \A i, j \in 1..Len(Append(down, m)) :
             i # j => Append(down, m)[i].id # Append(down, m)[j].id
    BY <2>1, AppendDown
  <2> QED
    BY <1>3, <2>2 DEF Replied
<1>5. UNCHANGED <<Asked, Active, Stored, Waiting, Over>>
  BY DEF Asked, Active, Stored, Waiting, Over, listVars, reqVars
<1>6. subscribed' \in SUBSET Topics
  BY <1>1, Parts DEF WireType, RequestType
<1>7. ClientType' /\ ListType' /\ RequestType' /\ YieldType' /\ WireType'
  BY <1>1, <1>4, <1>6, Parts DEF ClientType, ListType, RequestType, YieldType, WireType,
    listVars, loopVars, reqVars
<1>8. WireInv'
  BY <1>1, <1>2, <1>4, <1>5, Parts DEF WireInv, listVars
<1>9. UserInv'
  BY <1>5, UserInvKept, Parts DEF UserInv, reqVars, loopVars
<1>10. AskedInv' /\ CallInv'
  BY <1>1, <1>4, <1>5, Parts DEF AskedInv, CallInv, listVars
<1>11. EventInv' /\ OwnerInv' /\ NoDuplicates'
  BY <1>5, Parts DEF EventInv, OwnerInv, NoDuplicates, Holds, reqVars
<1> QED
  BY <1>7, <1>8, <1>9, <1>10, <1>11, Parts

\* Every step keeps IInv.
LEMMA NextKeeps == IInv /\ [Next]_vars => IInv'
<1> SUFFICES ASSUME IInv, [Next]_vars PROVE IInv'
  OBVIOUS
<1>1. CASE UNCHANGED vars
  <2>1. UNCHANGED <<Asked, Active, Stored, Waiting, Sent, Replied, Over>>
    BY <1>1 DEF vars, Asked, Active, Stored, Waiting, Sent, Replied, Over, listVars, netVars,
      reqVars
  <2>2. ClientType' /\ ListType' /\ RequestType' /\ YieldType' /\ WireType'
    BY <1>1, Parts DEF vars, ClientType, ListType, RequestType, YieldType, WireType, listVars,
      loopVars, netVars, reqVars
  <2>3. UserInv'
    BY <1>1, <2>1, UserInvKept, Parts DEF vars, UserInv, reqVars, loopVars
  <2>4. AskedInv' /\ CallInv' /\ EventInv' /\ OwnerInv'
    BY <1>1, <2>1, Parts DEF vars, AskedInv, CallInv, EventInv, OwnerInv, listVars
  <2>5. WireInv' /\ NoDuplicates'
    BY <1>1, <2>1, Parts DEF vars, WireInv, NoDuplicates, Holds, netVars, reqVars, listVars
  <2> QED
    BY <2>2, <2>3, <2>4, <2>5, Parts
<1>2. CASE Stopped
  BY <1>1, <1>2 DEF Stopped
<1>3. ASSUME NEW p \in Callers, Call(p) PROVE IInv'
  BY <1>3, SubscribeKeeps, UnsubscribeKeeps, UnsubCheckKeeps, PushKeeps, SendKeeps,
    SendFailKeeps, SendRemoveKeeps DEF Call
<1>4. CASE Yield
  BY <1>4, YSubackKeeps, RefusalKeeps, LoopKeeps, SubInfoProcKeeps, DisconnectKeeps,
    CopyKeeps DEF Yield
<1>5. CASE Destroy \/ Broker
  BY <1>5, DestroyKeeps, BrokerKeeps
<1>6. ASSUME NEW n \in Calls, AckTimerExpires(n) PROVE IInv'
  BY <1>6, AckTimerExpiresKeeps
<1> QED
  BY <1>1, <1>2, <1>3, <1>4, <1>5, <1>6 DEF Next

-----------------------------------------------------------------------------
(***************************************************************************)
(* What follows.                                                           *)
(***************************************************************************)

\* In every behaviour of the subscriptions the invariant holds.
THEOREM Invariance == Spec => []IInv
  BY InitIInv, NextKeeps, PTL DEF Spec

\* Every variable keeps its type, and the list its length.
THEOREM TypeCorrect == Spec => []TypeOK
<1>1. IInv => TypeOK
  BY DEF IInv
<1> QED
  BY <1>1, Invariance, PTL

\* However calls, answers, timeouts, resubscription and Destroy interleave, every
\* topic string in use is allocated and has one owner.
THEOREM StringsHaveOneOwner == Spec => []OneOwner
<1>1. IInv => OneOwner
  <2>1. Making \subseteq Active
    BY DEF Making, Active
  <2> QED
    BY <2>1, Parts DEF CallInv, OwnerInv, OneOwner
<1> QED
  BY <1>1, Invariance, PTL

\* No filter is ever in two slots of sub_handles with the same handlers.
THEOREM SubscriptionsHaveOneSlot == Spec => []NoDuplicates
<1>1. IInv => NoDuplicates
  BY DEF IInv
<1> QED
  BY <1>1, Invariance, PTL

\* A step that reports a request as timed out or subscribed finds it unreported.
LEMMA ReportsOnce ==
  ASSUME IInv, [Next]_vars, NEW n \in Calls
  PROVE  /\ (heard'[n] \ heard[n]) \cap Timeouts # {} => heard[n] = {}
         /\ "SUBCRIBE_SUCCESS" \in heard'[n] \ heard[n] => heard[n] = {}
<1> USE DEF Timeouts
<1>0. heard \in [Calls -> SUBSET Event]
  BY Parts DEF ListType
<1>1. CASE UNCHANGED heard
  BY <1>1
<1>2. CASE YSubInfoProc
  BY <1>2, <1>0, Parts DEF YSubInfoProc, EventInv, Waiting, ListType, TimeoutOf
<1>3. CASE YSuback /\ heard' # heard
  <2>1. PICK m : m = Head(down).id
    OBVIOUS
  <2>2. Receive("SUBACK") /\ m \in list /\ Raise(m, "SUBCRIBE_SUCCESS")
    BY <1>3, <2>1 DEF YSuback, Install
  <2>3. m \in Waiting /\ m \in Calls
    BY <2>1, <2>2, Received
  <2> QED
    BY <1>0, <2>2, <2>3, Parts DEF Raise, EventInv
<1>4. CASE YNack \/ YUnsuback
  BY <1>0, <1>4 DEF YNack, YUnsuback, Raise
<1>5. CASE Destroy
  BY <1>0, <1>5 DEF Destroy
<1>6. ASSUME NEW p \in Callers, NEW t \in Topics, Unsubscribe(p, t)
      PROVE  heard'[n] \subseteq heard[n] \cup {"UNSUBSCRIBE"}
  BY <1>0, <1>6 DEF Unsubscribe
<1>7. ASSUME NEW p \in Callers, Call(p), \A t \in Topics : ~Unsubscribe(p, t)
      PROVE  UNCHANGED heard
  BY <1>7 DEF Call, Subscribe, UnsubCheck, Push, Send, SendFail, SendNoHandle, SendRemove
<1>8. CASE YReadOther \/ YDisconnect \/ YReconnect \/ YResubscribe \/ YCopy \/ Broker
  BY <1>1, <1>8 DEF YReadOther, YDisconnect, YReconnect, YResubscribe, YCopy, Broker
<1>9. ASSUME NEW m \in Calls, AckTimerExpires(m) PROVE UNCHANGED heard
  BY <1>9 DEF AckTimerExpires
<1>10. CASE Stopped \/ UNCHANGED vars
  BY <1>1, <1>10 DEF Stopped, vars
<1> QED
  BY <1>1, <1>2, <1>3, <1>4, <1>5, <1>6, <1>7, <1>8, <1>9, <1>10 DEF Next, Yield, Call

\* No request is reported as timed out after an answer to it, nor as subscribed
\* after a refusal or a time-out.
THEOREM ReportedOnce == Spec => AnsweredOnce
<1>1. IInv /\ [Next]_vars =>
        [\A n \in Calls :
           /\ (heard'[n] \ heard[n]) \cap Timeouts # {} => heard[n] = {}
           /\ "SUBCRIBE_SUCCESS" \in heard'[n] \ heard[n] => heard[n] = {}]_heard
  BY ReportsOnce
<1> QED
  BY <1>1, Invariance, PTL DEF Spec, AnsweredOnce

-----------------------------------------------------------------------------
(***************************************************************************)
(* What more holds if calls on one topic do not overlap and no send        *)
(* outlasts the timer of its node: client and broker agree.                *)
(***************************************************************************)

\* Requests of which something is under way.
Flying == Active \cup list \cup Sent \cup Replied

\* While a topic is being unsubscribed, nothing else is done about it, and no
\* slot holds it.
ApartInv ==
  \A n \in Flying :
    type[n] = "UNSUBSCRIBE" =>
      /\ \A m \in Flying : filter[m] = filter[n] => m = n
      /\ \A m \in Stored : filter[m] # filter[n]

\* An answer is one to its request, and a topic that was granted stays so while
\* the answer is on its way.
AckInv ==
  \A i \in 1..Len(down) :
    /\ down[i].ack = "UNSUBACK" <=> type[down[i].id] = "UNSUBSCRIBE"
    /\ down[i].ack = "SUBACK" => filter[down[i].id] \in subscribed

\* A node stays in the list until its call has returned.
SendInv ==
  \A p \in Callers : pc[p] \in {"send", "remove"} => call[p] \in list \ ack_expired

\* The call that resubscribe makes is of the filter in the slot it has come to.
ResubInv ==
  /\ ypc = "call" <=> pc[Yielder] # "idle"
  /\ pc[Yielder] # "unsubscribe"
  /\ ypc \in {"copy", "call"} =>
       itr \in Slots /\ topic # NULL /\ sub_handles[itr].buf = topic
  /\ ypc = "call" =>
       type[call[Yielder]] = "SUBSCRIBE" /\ filter[call[Yielder]] = filter[topic]

\* The broker delivers the topic, the application has been told that it does
\* not, or one of the two is still to come.
Agreed(t) ==
  \/ t \in subscribed
  \/ \E m \in Calls : filter[m] = t /\ Told(m)
  \/ \E m \in Waiting \ Active : type[m] = "SUBSCRIBE" /\ filter[m] = t

\* Slots that resubscribe has not come to, or never will.
Left(i) ==
  \/ ypc \in {"read", "proc"} /\ resub_failed
  \/ ypc = "reconnect"
  \/ ypc = "resubscribe" /\ itr < i
  \/ ypc \in {"copy", "call"} /\ itr <= i

SlotInv ==
  \A i \in Slots :
    sub_handles[i].buf # NULL => Left(i) \/ Agreed(filter[sub_handles[i].buf])

SyncInv == ApartInv /\ AckInv /\ SendInv /\ ResubInv /\ SlotInv

\* Everything under way was asked for.
LEMMA FlyingAsked ==
  ASSUME IInv
  PROVE  /\ Flying \cup Stored \subseteq Asked /\ Asked \subseteq Calls
         /\ \A i \in 1..Len(down) : down[i].id \in Flying \cap Asked
         /\ \A n \in Calls : Told(n) => n \in Asked
<1>1. Flying \cup Stored \subseteq Asked /\ Asked \subseteq Calls
  BY Parts, AskedCalls DEF AskedInv, Flying
<1>2. \A i \in 1..Len(down) : down[i].id \in Flying
  BY DEF Flying, Replied
<1>3. \A n \in Calls : Told(n) => n \in Asked
  BY Parts DEF AskedInv, Told
<1> QED
  BY <1>1, <1>2, <1>3

\* What is agreed stays agreed.
LEMMA AgreedStays ==
  ASSUME IInv, NEW t, Agreed(t),
         \A n \in Asked : filter'[n] = filter[n] /\ type'[n] = type[n],
         \A n \in Calls : heard[n] \subseteq heard'[n],
         t \in subscribed => t \in subscribed',
         \A m \in Waiting \ Active : type[m] = "SUBSCRIBE" /\ filter[m] = t =>
           m \in Waiting' \ Active' \/ Told(m)' \/ t \in subscribed'
  PROVE  Agreed(t)'
<1>1. CASE t \in subscribed
  BY <1>1 DEF Agreed
<1>2. CASE \E m \in Calls : filter[m] = t /\ Told(m)
  <2>1. PICK m \in Calls : filter[m] = t /\ Told(m)
    BY <1>2
  <2>2. filter'[m] = t /\ Told(m)'
    BY <2>1, FlyingAsked DEF Told
  <2> QED BY <2>2 DEF Agreed
<1>3. CASE \E m \in Waiting \ Active : type[m] = "SUBSCRIBE" /\ filter[m] = t
  <2>1. PICK m \in Waiting \ Active : type[m] = "SUBSCRIBE" /\ filter[m] = t
    BY <1>3
  <2>2. m \in Asked /\ m \in Calls
    BY Parts, FlyingAsked DEF AskedInv, Waiting
  <2>3. filter'[m] = t /\ type'[m] = "SUBSCRIBE"
    BY <2>1, <2>2
  <2> QED BY <2>1, <2>2, <2>3 DEF Agreed
<1> QED
  BY <1>1, <1>2, <1>3 DEF Agreed

\* A slot that no step has disturbed is as it was.
LEMMA SlotStays ==
  ASSUME IInv, SlotInv, NEW i \in Slots, sub_handles[i].buf # NULL,
         sub_handles'[i].buf = sub_handles[i].buf,
         Left(i) => Left(i)',
         \A n \in Asked : filter'[n] = filter[n] /\ type'[n] = type[n],
         \A n \in Calls : heard[n] \subseteq heard'[n],
         \A m \in Stored : filter[m] \in subscribed => filter[m] \in subscribed',
         \A m \in Waiting \ Active : type[m] = "SUBSCRIBE" =>
           m \in Waiting' \ Active' \/ Told(m)' \/ filter[m] \in subscribed'
  PROVE  Left(i)' \/ Agreed(filter[sub_handles[i].buf])'
<1>n. PICK n : n = sub_handles[i].buf
  OBVIOUS
<1>t. PICK t : t = filter[n]
  OBVIOUS
<1>1. n \in Stored /\ n \in Asked
  BY <1>n, FlyingAsked DEF Stored
<1>2. CASE Left(i)
  BY <1>2
<1>3. CASE Agreed(filter[sub_handles[i].buf])
  <2>1. Agreed(t)
    BY <1>3, <1>n, <1>t
  <2>2. Agreed(t)'
    BY <2>1, <1>1, <1>t, AgreedStays
  <2>3. filter'[sub_handles'[i].buf] = t
    BY <1>1, <1>n, <1>t
  <2> QED BY <2>2, <2>3
<1> QED
  BY <1>2, <1>3 DEF SlotInv

\* A step that begins nothing, and stores only what was subscribed, keeps the
\* topics apart.
LEMMA ApartStays ==
  ASSUME ApartInv, Flying' \subseteq Flying,
         Stored' \subseteq Stored \cup {n \in Flying : type[n] = "SUBSCRIBE"},
         UNCHANGED <<type, filter>>
  PROVE  ApartInv'
  BY DEF ApartInv

\* With no call of its topic under way, nothing is.
LEMMA NotBusy ==
  ASSUME IInv, NEW t, ~Busy(t)
  PROVE  /\ ypc \notin {"reconnect", "resubscribe", "copy", "call"}
         /\ \A n \in Flying : filter[n] # t
<1>1. \A n \in Active : filter[n] # t
  BY DEF Busy, Active
<1>2. \A n \in Sent : filter[n] # t
  <2>1. up \in Seq(Calls)
    BY Parts DEF WireType
  <2>2. Sent = Range(up)
    BY <2>1 DEF Sent, Range
  <2> QED BY <2>2 DEF Busy
<1>3. \A n \in Replied : filter[n] # t
  <2>1. down \in Seq(Packet)
    BY Parts DEF WireType
  <2>2. Replied = {m.id : m \in Range(down)}
    BY <2>1 DEF Replied, Range
  <2> QED BY <2>2 DEF Busy
<1> QED
  BY <1>1, <1>2, <1>3 DEF Busy, Flying

\* A call of qcloud_iot_mqtt_subscribe is of a topic that is at rest.
LEMMA SubscribeSync ==
  ASSUME IInv, SyncInv, ~MayOverlap, NEW p \in Callers, NEW t \in Topics,
         NEW h \in Handlers, Subscribe(p, t, h)
  PROVE  SyncInv'
<1> DEFINE n == calls + 1
<1>1. /\ Asked' = Asked \cup {n} /\ n \in Calls \ Asked
      /\ Active' = Active \cup {n}
      /\ call'[p] = n
      /\ \A q \in Callers \ {p} : call'[q] = call[q] /\ pc'[q] = pc[q]
      /\ \A m \in Asked : filter'[m] = filter[m]
  <2>1. RequestType /\ n \in 0..MaxCalls
    BY Parts, SubAssumption DEF Request, RequestType, Subscribe
  <2> QED
    BY <2>1, NewRequest DEF Subscribe
<1>2. /\ type'[n] = "SUBSCRIBE" /\ filter'[n] = t
      /\ \A m \in Asked : type'[m] = type[m]
      /\ pc'[p] = "lock" /\ p # Yielder
  BY <1>1, Parts DEF Subscribe, Request, RequestType, Goto, MayCall
<1>3. /\ ypc \notin {"reconnect", "resubscribe", "copy", "call"}
      /\ \A m \in Flying : filter[m] # t
  BY NotBusy DEF Subscribe, MayCall
<1>4. UNCHANGED <<Stored, Waiting, Sent, Replied, list, ack_expired, down, subscribed,
                  sub_handles, heard, ypc, itr, topic, resub_failed>>
  BY DEF Subscribe, Stored, Waiting, Sent, Replied, listVars, netVars, loopVars
<1>5. Flying' = Flying \cup {n}
  BY <1>1, <1>4 DEF Flying
<1> HIDE DEF n
<1>6. ApartInv'
  <2> SUFFICES ASSUME NEW u \in Flying', type'[u] = "UNSUBSCRIBE"
               PROVE  /\ \A m \in Flying' : filter'[m] = filter'[u] => m = u
                      /\ \A m \in Stored' : filter'[m] # filter'[u]
    BY DEF ApartInv
  <2>1. u \in Flying /\ u \in Asked
    BY <1>2, <1>5, FlyingAsked
  <2>2. type[u] = "UNSUBSCRIBE" /\ filter'[u] = filter[u] /\ filter[u] # t
    BY <2>1, <1>1, <1>2, <1>3
  <2>3. /\ \A m \in Flying : filter[m] = filter[u] => m = u
        /\ \A m \in Stored : filter[m] # filter[u]
    BY <2>1, <2>2 DEF SyncInv, ApartInv
  <2> QED BY <2>2, <2>3, <1>1, <1>2, <1>4, <1>5, FlyingAsked
<1>7. AckInv'
  BY <1>1, <1>2, <1>4, FlyingAsked DEF SyncInv, AckInv
<1>8. SendInv'
  BY <1>1, <1>2, <1>4 DEF SyncInv, SendInv
<1>9. ResubInv'
  BY <1>1, <1>2, <1>3, <1>4, SubAssumption DEF SyncInv, ResubInv, Callers
<1>10. SlotInv'
  <2>1. \A m \in Waiting \ Active : m \in Waiting' \ Active'
    BY <1>1, <1>4, Parts DEF AskedInv, Waiting
  <2>2. \A i \in Slots : Left(i) => Left(i)'
    BY <1>4 DEF Left
  <2> QED BY <2>1, <2>2, <1>1, <1>2, <1>4, SlotStays DEF SyncInv, SlotInv
<1> QED
  BY <1>6, <1>7, <1>8, <1>9, <1>10 DEF SyncInv

\* One of qcloud_iot_mqtt_unsubscribe empties the slots of its topic first.
LEMMA UnsubscribeSync ==
  ASSUME IInv, SyncInv, ~MayOverlap, NEW p \in Callers, NEW t \in Topics, Unsubscribe(p, t)
  PROVE  SyncInv'
<1> DEFINE n == calls + 1
<1>1. /\ Asked' = Asked \cup {n} /\ n \in Calls \ Asked
      /\ Active' = Active \cup {n}
      /\ call'[p] = n
      /\ \A q \in Callers \ {p} : call'[q] = call[q] /\ pc'[q] = pc[q]
      /\ \A m \in Asked : filter'[m] = filter[m]
  BY UnsubscribeRequest, NewRequest DEF Unsubscribe
<1>2. /\ type'[n] = "UNSUBSCRIBE" /\ filter'[n] = t
      /\ \A m \in Asked : type'[m] = type[m]
      /\ pc'[p] = "unsubscribe" /\ p # Yielder
  BY <1>1, Parts DEF Unsubscribe, Request, RequestType, Goto, MayCall
<1>3. /\ ypc \notin {"reconnect", "resubscribe", "copy", "call"}
      /\ \A m \in Flying : filter[m] # t
  BY NotBusy DEF Unsubscribe, MayCall
<1>4. UNCHANGED <<Waiting, Sent, Replied, list, ack_expired, down, subscribed,
                  ypc, itr, topic, resub_failed>>
  BY DEF Unsubscribe, Waiting, Sent, Replied, listVars, netVars, loopVars
<1>5. Flying' = Flying \cup {n}
  BY <1>1, <1>4 DEF Flying
<1>6. \A i \in Slots : \/ sub_handles'[i].buf = NULL
                       \/ /\ sub_handles'[i].buf = sub_handles[i].buf
                          /\ filter[sub_handles[i].buf] # t
  <2> SUFFICES ASSUME NEW i \in Slots
               PROVE  \/ sub_handles'[i].buf = NULL
                      \/ /\ sub_handles'[i].buf = sub_handles[i].buf
                         /\ filter[sub_handles[i].buf] # t
    OBVIOUS
  <2>1. sub_handles[i] \in [buf : 0..MaxCalls, by : 0..MaxCalls]
    BY Parts DEF ClientType
  <2>2. CASE i \in Cleared(t)
    BY <2>1, <2>2 DEF Unsubscribe
  <2>3. CASE i \notin Cleared(t)
    BY <2>3 DEF Unsubscribe, Cleared
  <2> QED BY <2>2, <2>3
<1>7. Stored' \subseteq {m \in Stored : filter[m] # t}
  BY <1>6 DEF Stored
<1>8. \A m \in Calls : heard[m] \subseteq heard'[m]
  BY DEF Unsubscribe
<1> HIDE DEF n
<1>9. ApartInv'
  <2> SUFFICES ASSUME NEW u \in Flying', type'[u] = "UNSUBSCRIBE"
               PROVE  /\ \A m \in Flying' : filter'[m] = filter'[u] => m = u
                      /\ \A m \in Stored' : filter'[m] # filter'[u]
    BY DEF ApartInv
  <2>1. CASE u = n
    <3>1. \A m \in Flying : filter'[m] # t
      BY <1>1, <1>3, FlyingAsked
    <3>2. \A m \in Stored' : filter'[m] # t
      BY <1>1, <1>7, FlyingAsked
    <3> QED BY <2>1, <3>1, <3>2, <1>2, <1>5
  <2>2. CASE u # n
    <3>1. u \in Flying /\ u \in Asked
      BY <2>2, <1>5, FlyingAsked
    <3>2. type[u] = "UNSUBSCRIBE" /\ filter'[u] = filter[u] /\ filter[u] # t
      BY <3>1, <1>1, <1>2, <1>3
    <3>3. /\ \A m \in Flying : filter[m] = filter[u] => m = u
          /\ \A m \in Stored : filter[m] # filter[u]
      BY <3>1, <3>2 DEF SyncInv, ApartInv
    <3> QED BY <3>2, <3>3, <1>1, <1>2, <1>5, <1>7, FlyingAsked
  <2> QED BY <2>1, <2>2
<1>10. AckInv'
  BY <1>1, <1>2, <1>4, FlyingAsked DEF SyncInv, AckInv
<1>11. SendInv'
  BY <1>1, <1>2, <1>4 DEF SyncInv, SendInv
<1>12. ResubInv'
  BY <1>1, <1>2, <1>3, <1>4, SubAssumption DEF SyncInv, ResubInv, Callers
<1>13. SlotInv'
  <2>1. \A m \in Waiting \ Active : m \in Waiting' \ Active'
    BY <1>1, <1>4, Parts DEF AskedInv, Waiting
  <2>2. \A i \in Slots : Left(i) => Left(i)'
    BY <1>4 DEF Left
  <2>3. \A i \in Slots : sub_handles'[i].buf # NULL => sub_handles'[i].buf = sub_handles[i].buf
    BY <1>6
  <2> QED BY <2>1, <2>2, <2>3, <1>1, <1>2, <1>4, <1>8, SlotStays DEF SyncInv, SlotInv
<1> QED
  BY <1>9, <1>10, <1>11, <1>12, <1>13 DEF SyncInv

\* What a step of a call on its way does: it may leave, and it does not touch
\* slots, events, answers or what the broker has.
CallGoes(p) ==
  /\ pc[p] # "idle" /\ call' = call
  /\ \A q \in Callers \ {p} : pc'[q] = pc[q]
  /\ UNCHANGED <<sub_handles, node_state, heard, type, filter, down, subscribed, itr, topic>>

\* Unless it is the call of resubscribe that ends, nothing changes for the slots.
LEMMA CallSync ==
  ASSUME IInv, SyncInv, NEW p \in Callers, CallGoes(p),
         pc'[p] = "idle" => Active' = Active \ {call[p]},
         pc'[p] # "idle" => Active' = Active,
         pc'[p] # "unsubscribe",
         Flying' \subseteq Flying,
         list \ {call[p]} \subseteq list' /\ ack_expired' \subseteq ack_expired,
         pc'[p] \in {"send", "remove"} => call[p] \in list' \ ack_expired',
         p # Yielder \/ pc'[p] # "idle" => UNCHANGED <<ypc, resub_failed>>,
         p = Yielder /\ pc'[p] = "idle" =>
           \/ ypc' = "read" /\ resub_failed'
           \/ ypc' = "resubscribe" /\ call[p] \in Waiting'
  PROVE  SyncInv'
<1>1. Stored' = Stored
  BY DEF CallGoes, Stored
<1>2. ApartInv'
  BY <1>1, ApartStays DEF SyncInv, CallGoes
<1>3. AckInv'
  BY DEF SyncInv, AckInv, CallGoes
<1>4. SendInv'
  <2>1. \A q \in Callers \ {p} : pc[q] # "idle" => call[q] # call[p]
    BY Parts DEF CallInv, CallGoes
  <2> QED BY <2>1 DEF SyncInv, SendInv, CallGoes
<1>5. ResubInv'
  <2>1. Yielder \in Callers
    BY DEF Callers
  <2>2. CASE p # Yielder
    BY <2>1, <2>2 DEF SyncInv, ResubInv, CallGoes
  <2>3. CASE p = Yielder /\ pc'[p] # "idle"
    BY <2>3 DEF SyncInv, ResubInv, CallGoes
  <2>4. CASE p = Yielder /\ pc'[p] = "idle"
    BY <2>4 DEF SyncInv, ResubInv, CallGoes
  <2> QED BY <2>2, <2>3, <2>4
<1>6. \A m \in Waiting \ Active : m \in Waiting' \ Active'
  BY Parts, ActiveCall DEF Waiting, CallGoes
<1>7. ASSUME NEW i \in Slots, sub_handles[i].buf # NULL, Left(i) => Left(i)'
      PROVE  Left(i)' \/ Agreed(filter[sub_handles[i].buf])'
  BY <1>6, <1>7, SlotStays DEF SyncInv, CallGoes
<1>8. SlotInv'
  <2>1. CASE UNCHANGED <<ypc, resub_failed>>
    <3>1. \A i \in Slots : Left(i) => Left(i)'
      BY <2>1 DEF Left, CallGoes
    <3> QED BY <3>1, <1>7 DEF SlotInv, CallGoes
  <2>2. CASE ypc' = "read" /\ resub_failed'
    BY <2>2 DEF SlotInv, Left
  <2>3. CASE p = Yielder /\ pc'[p] = "idle" /\ ypc' = "resubscribe" /\ call[p] \in Waiting'
    <3>1. /\ ypc = "call" /\ itr \in Slots /\ sub_handles[itr].buf = topic
          /\ type[call[p]] = "SUBSCRIBE" /\ filter[call[p]] = filter[topic]
      BY <2>3 DEF SyncInv, ResubInv, CallGoes
    <3>2. call[p] \in Waiting' \ Active' /\ call[p] \in Calls
      BY <2>3, ActiveCall DEF CallGoes
    <3>c. PICK m : m = call[p]
      OBVIOUS
    <3>3. Agreed(filter[sub_handles[itr].buf])'
      BY <3>1, <3>2, <3>c DEF Agreed, CallGoes
    <3>4. \A i \in Slots \ {itr} : Left(i) => Left(i)'
      BY <2>3, <3>1 DEF Left, CallGoes, Slots
    <3> QED BY <3>3, <3>4, <1>7 DEF SlotInv, CallGoes
  <2> QED BY <2>1, <2>2, <2>3
<1> QED
  BY <1>2, <1>3, <1>4, <1>5, <1>8 DEF SyncInv

\* A call that is on its way works on one request, and so does its step.
LEMMA CallMoves ==
  ASSUME IInv, NEW p \in Callers, NEW s, Goto(p, pc[p], s), pc[p] # "idle", call' = call,
         s \in {"lock", "send", "remove", "idle"}
  PROVE  /\ pc'[p] = s
         /\ \A q \in Callers \ {p} : pc'[q] = pc[q]
         /\ s = "idle" => Active' = Active \ {call[p]}
         /\ s # "idle" => Active' = Active
         /\ call[p] \in Active /\ call[p] \in Calls
<1>1. pc' = [pc EXCEPT ![p] = s]
  BY DEF Goto
<1>2. pc'[p] = s /\ \A q \in Callers \ {p} : pc'[q] = pc[q]
  BY <1>1, Parts DEF RequestType
<1> QED
  BY <1>1, <1>2, CallLeaves, CallGoesOn, ActiveCall

\* The connection check of qcloud_iot_mqtt_unsubscribe.
LEMMA UnsubCheckSync ==
  ASSUME IInv, SyncInv, NEW p \in Callers, UnsubCheck(p)
  PROVE  SyncInv'
<1>1. PICK s \in {"lock", "idle"} : Goto(p, pc[p], s) /\ pc[p] = "unsubscribe"
  BY DEF UnsubCheck, Goto
<1>2. /\ call' = call
      /\ UNCHANGED <<sub_handles, node_state, heard, type, filter, down, subscribed, itr, topic,
                     list, ack_expired, ypc, resub_failed, Sent, Replied>>
  BY DEF UnsubCheck, listVars, reqVars, loopVars, netVars, Sent, Replied
<1>3. p # Yielder
  BY <1>1 DEF SyncInv, ResubInv
<1>4. CallGoes(p) /\ pc'[p] = s
  BY <1>1, <1>2, CallMoves DEF CallGoes
<1>5. /\ s = "idle" => Active' = Active \ {call[p]}
      /\ s # "idle" => Active' = Active
  BY <1>1, <1>2, CallMoves
<1>6. Flying' \subseteq Flying
  BY <1>2, <1>5 DEF Flying
<1> QED
  BY <1>2, <1>3, <1>4, <1>5, <1>6, CallSync

\* lock_write_buf and push_sub_info_to.
LEMMA PushSync ==
  ASSUME IInv, SyncInv, NEW p \in Callers, Push(p)
  PROVE  SyncInv'
<1>1. PICK s \in {"send", "idle"} :
        /\ Goto(p, pc[p], s) /\ pc[p] = "lock"
        /\ s = "send" => list' = list \cup {call[p]} /\ UNCHANGED loopVars
        /\ s = "idle" => CallEnds(p, FALSE) /\ list' = list
  BY DEF Push, Goto
<1>2. /\ call' = call
      /\ UNCHANGED <<sub_handles, node_state, heard, type, filter, down, subscribed, itr, topic,
                     ack_expired, Sent, Replied>>
  BY DEF Push, reqVars, loopVars, netVars, CallEnds, Sent, Replied
<1>3. CallGoes(p) /\ pc'[p] = s
  BY <1>1, <1>2, CallMoves DEF CallGoes
<1>4. /\ s = "idle" => Active' = Active \ {call[p]}
      /\ s # "idle" => Active' = Active
      /\ call[p] \in Active
  BY <1>1, <1>2, CallMoves
<1>5. Flying' \subseteq Flying
  BY <1>1, <1>2, <1>4 DEF Flying
<1>6. call[p] \notin ack_expired
  BY <1>1, Parts DEF CallInv, ListType
<1>7. s = "send" => call[p] \in list'
  BY <1>1
<1>8. p # Yielder \/ s # "idle" => UNCHANGED <<ypc, resub_failed>>
  BY <1>1 DEF CallEnds, loopVars
<1>9. p = Yielder /\ s = "idle" => ypc' = "read" /\ resub_failed'
  BY <1>1 DEF CallEnds
<1>10. list \subseteq list'
  BY <1>1
<1> QED
  BY <1>1, <1>2, <1>3, <1>4, <1>5, <1>6, <1>7, <1>8, <1>9, <1>10, CallSync

\* send_mqtt_packet, when it succeeds, or seems to.
LEMMA SendSync ==
  ASSUME IInv, SyncInv, NEW p \in Callers, Send(p)
  PROVE  SyncInv'
<1>1. Goto(p, pc[p], "idle") /\ pc[p] = "send" /\ CallEnds(p, TRUE)
  BY DEF Send, Goto
<1>2. /\ call' = call
      /\ UNCHANGED <<sub_handles, node_state, heard, type, filter, down, subscribed, itr, topic,
                     list, ack_expired, Replied>>
  BY DEF Send, reqVars, listVars, loopVars, CallEnds, Replied
<1>3. CallGoes(p) /\ pc'[p] = "idle"
  BY <1>1, <1>2, CallMoves DEF CallGoes
<1>4. Active' = Active \ {call[p]} /\ call[p] \in Active /\ call[p] \in Calls
  BY <1>1, <1>2, CallMoves
<1>5. Sent' \subseteq Sent \cup {call[p]}
  <2>1. up \in Seq(Calls)
    BY Parts DEF WireType
  <2>2. up' = up \/ up' = Append(up, call[p])
    BY DEF Send
  <2> QED BY <2>1, <2>2, <1>4, AppendUp DEF Sent
<1>6. Flying' \subseteq Flying
  BY <1>2, <1>4, <1>5 DEF Flying
<1>7. call[p] \in Waiting'
  BY <1>1, <1>2, <1>4, Parts DEF SyncInv, SendInv, WireInv, Waiting
<1>8. p # Yielder => UNCHANGED <<ypc, resub_failed>>
  BY <1>1 DEF CallEnds, loopVars
<1>9. p = Yielder => ypc' = "resubscribe"
  BY <1>1 DEF CallEnds
<1> QED
  BY <1>2, <1>3, <1>4, <1>6, <1>7, <1>8, <1>9, CallSync

\* A send that fails.
LEMMA SendFailSync ==
  ASSUME IInv, SyncInv, NEW p \in Callers, SendFail(p) \/ SendRemove(p)
  PROVE  SyncInv'
<1>1. CASE SendFail(p)
  <2>1. Goto(p, pc[p], "remove") /\ pc[p] = "send"
    BY <1>1 DEF SendFail, Goto
  <2>2. /\ call' = call
        /\ UNCHANGED <<sub_handles, node_state, heard, type, filter, down, subscribed, itr, topic,
                       list, ack_expired, ypc, resub_failed, Sent, Replied>>
    BY <1>1 DEF SendFail, reqVars, listVars, loopVars, netVars, Sent, Replied
  <2>3. CallGoes(p) /\ pc'[p] = "remove" /\ Active' = Active
    BY <2>1, <2>2, CallMoves DEF CallGoes
  <2>4. Flying' \subseteq Flying /\ call[p] \in list' \ ack_expired'
    BY <2>1, <2>2, <2>3 DEF Flying, SyncInv, SendInv
  <2> QED BY <2>2, <2>3, <2>4, CallSync
<1>2. CASE SendRemove(p)
  <2>1. Goto(p, pc[p], "idle") /\ pc[p] = "remove" /\ CallEnds(p, FALSE)
    BY <1>2 DEF SendRemove, Goto
  <2>2. /\ call' = call
        /\ list' = list \ {call[p]} /\ ack_expired' = ack_expired \ {call[p]}
        /\ UNCHANGED <<sub_handles, node_state, heard, type, filter, down, subscribed, itr, topic,
                       Replied>>
    BY <1>2 DEF SendRemove, reqVars, loopVars, CallEnds, Replied
  <2>3. CallGoes(p) /\ pc'[p] = "idle"
    BY <2>1, <2>2, CallMoves DEF CallGoes
  <2>4. Active' = Active \ {call[p]} /\ call[p] \in Active /\ call[p] \in Calls
    BY <2>1, <2>2, CallMoves
  <2>5. Sent' \subseteq Sent \cup {call[p]}
    <3>1. up \in Seq(Calls)
      BY Parts DEF WireType
    <3>2. up' = up \/ up' = Append(up, call[p])
      BY <1>2 DEF SendRemove
    <3> QED BY <3>1, <3>2, <2>4, AppendUp DEF Sent
  <2>6. Flying' \subseteq Flying
    BY <2>2, <2>4, <2>5 DEF Flying
  <2>7. p # Yielder => UNCHANGED <<ypc, resub_failed>>
    BY <2>1 DEF CallEnds, loopVars
  <2>8. p = Yielder => ypc' = "read" /\ resub_failed'
    BY <2>1 DEF CallEnds
  <2> QED BY <2>2, <2>3, <2>4, <2>6, <2>7, <2>8, CallSync
<1> QED
  BY <1>1, <1>2

\* What an answer leaves behind it: the same events in the client, one answer
\* less under way.
LEMMA ReceivedSync ==
  ASSUME IInv, SyncInv, NEW a, Receive(a)
  PROVE  /\ AckInv' /\ SendInv'
         /\ Active' = Active /\ Flying' \subseteq Flying
         /\ Head(down).id \in Flying \cap Calls
         /\ a = "UNSUBACK" <=> type[Head(down).id] = "UNSUBSCRIBE"
         /\ a = "SUBACK" => filter[Head(down).id] \in subscribed
         /\ UNCHANGED <<type, filter, pc, call, list, ack_expired, itr, topic, resub_failed,
                        subscribed, user>>
         /\ ypc = "read"
<1>1. /\ UNCHANGED <<type, filter, pc, call, list, ack_expired, itr, topic, resub_failed,
                     subscribed, user, up>>
      /\ ypc = "read" /\ down # <<>> /\ down' = Tail(down) /\ Head(down).ack = a
  BY DEF Receive, reqVars
<1>2. down \in Seq(Packet)
  BY Parts DEF WireType
<1>3. /\ \A i \in 1..Len(Tail(down)) : i + 1 \in 1..Len(down) /\ Tail(down)[i] = down[i + 1]
      /\ 1 \in 1..Len(down) /\ Head(down) = down[1]
  BY <1>1, <1>2
<1>4. AckInv'
  BY <1>1, <1>3 DEF SyncInv, AckInv
<1>5. SendInv' /\ Active' = Active /\ Sent' = Sent
  BY <1>1 DEF SyncInv, SendInv, Active, Sent
<1>6. Replied' \subseteq Replied
  BY <1>1, <1>3 DEF Replied
<1>7. Flying' \subseteq Flying
  BY <1>1, <1>5, <1>6 DEF Flying
<1>8. Head(down).id \in Flying \cap Calls
  BY <1>3, FlyingAsked
<1> QED
  BY <1>1, <1>3, <1>4, <1>5, <1>7, <1>8 DEF SyncInv, AckInv

\* While the yield task reads, the walk of resubscribe is over.
LEMMA ReadResub ==
  ASSUME ResubInv, ypc \in {"read", "proc"}, ypc' \in {"read", "proc"}, UNCHANGED pc
  PROVE  ResubInv'
  BY DEF ResubInv

\* A SUBACK: what goes into a slot is subscribed, and stays so till it does.
LEMMA SubackSync ==
  ASSUME IInv, SyncInv, YSuback
  PROVE  SyncInv'
<1>n. PICK n : n = Head(down).id
  OBVIOUS
<1>1. /\ AckInv' /\ SendInv'
      /\ Active' = Active /\ Flying' \subseteq Flying
      /\ n \in Flying \cap Calls /\ type[n] # "UNSUBSCRIBE" /\ filter[n] \in subscribed
      /\ UNCHANGED <<type, filter, pc, list, resub_failed, subscribed, user>>
      /\ ypc = "read"
  BY <1>n, ReceivedSync DEF YSuback
<1>2. type[n] = "SUBSCRIBE"
  BY <1>1, Parts DEF RequestType
<1>3. /\ ypc' \in {"read", "proc"}
      /\ \A m \in Calls : heard[m] \subseteq heard'[m]
      /\ \A m \in Calls \ {n} : node_state'[m] = node_state[m]
      /\ \A i \in Slots : \/ sub_handles'[i].buf = sub_handles[i].buf
                          \/ sub_handles'[i].buf = n
  <2>1. heard \in [Calls -> SUBSET Event] /\ node_state \in [Calls -> {"NORMAL", "INVALID"}]
        /\ sub_handles \in [Slots -> [buf : 0..MaxCalls, by : 0..MaxCalls]]
    BY Parts DEF ListType, ClientType
  <2>2. CASE n \notin list
    BY <1>1, <2>2, <1>n DEF YSuback
  <2>3. CASE n \in list /\ Mark(n) /\ Install(n)
    <3>1. \A m \in Calls \ {n} : node_state'[m] = node_state[m]
      BY <2>1, <2>3 DEF Mark
    <3>2. /\ ypc' \in {"read", "proc"}
          /\ \A m \in Calls : heard[m] \subseteq heard'[m]
      BY <2>1, <2>3, <1>1 DEF Install, Raise
    <3>3. \A i \in Slots : \/ sub_handles'[i].buf = sub_handles[i].buf
                           \/ sub_handles'[i].buf = n
      <4>1. CASE \E j \in Slots : sub_handles' = [sub_handles EXCEPT ![j].by = user[n]]
        BY <2>1, <4>1
      <4>2. CASE \E j \in Slots :
                   sub_handles' = [sub_handles EXCEPT ![j] = [buf |-> n, by |-> user[n]]]
        BY <2>1, <4>2
      <4>3. CASE sub_handles' = sub_handles
        BY <4>3
      <4> QED BY <2>3, <4>1, <4>2, <4>3 DEF Install, FirstSlots, Holds, FreeSlots
    <3> QED BY <3>1, <3>2, <3>3
  <2> QED BY <2>2, <2>3, <1>n DEF YSuback
<1>4. Stored' \subseteq Stored \cup {n}
  BY <1>3 DEF Stored
<1>5. ApartInv'
  BY <1>1, <1>2, <1>4, ApartStays DEF SyncInv
<1>6. ResubInv'
  BY <1>1, <1>3, ReadResub DEF SyncInv
<1>7. SlotInv'
  <2> SUFFICES ASSUME NEW i \in Slots, sub_handles'[i].buf # NULL
               PROVE  Left(i)' \/ Agreed(filter[sub_handles[i].buf])'
    BY DEF SlotInv
  <2>1. CASE sub_handles'[i].buf = n
    BY <2>1, <1>1 DEF Agreed
  <2>2. CASE sub_handles'[i].buf = sub_handles[i].buf
    <3>1. Left(i) => Left(i)'
      BY <1>1, <1>3 DEF Left
    <3>2. \A m \in Waiting \ Active : m \in Waiting' \ Active' \/ filter[m] \in subscribed'
      BY <1>1, <1>3, Parts DEF Waiting, ListType
    <3> QED BY <2>2, <3>1, <3>2, <1>1, <1>3, SlotStays DEF SyncInv
  <2> QED BY <2>1, <2>2, <1>3
<1> QED
  BY <1>1, <1>5, <1>6, <1>7 DEF SyncInv

\* A refusal is told, and an UNSUBACK answers no subscription.
LEMMA RefusalSync ==
  ASSUME IInv, SyncInv, YNack \/ YUnsuback
  PROVE  SyncInv'
<1>n. PICK n : n = Head(down).id
  OBVIOUS
<1>1. /\ AckInv' /\ SendInv'
      /\ Active' = Active /\ Flying' \subseteq Flying
      /\ n \in Calls
      /\ UNCHANGED <<type, filter, pc, list, resub_failed, subscribed, sub_handles>>
      /\ ypc = "read" /\ ypc' \in {"read", "proc"}
  BY <1>n, ReceivedSync DEF YNack, YUnsuback
<1>2. YUnsuback => type[n] = "UNSUBSCRIBE"
  BY <1>n, ReceivedSync DEF YUnsuback
<1>3. heard \in [Calls -> SUBSET Event] /\ node_state \in [Calls -> {"NORMAL", "INVALID"}]
  BY Parts DEF ListType
<1>4. /\ \A m \in Calls \ {n} : node_state'[m] = node_state[m]
      /\ \A m \in Calls : heard[m] \subseteq heard'[m]
  BY <1>3, <1>n DEF YNack, YUnsuback, Mark, Raise
<1>5. YNack => Told(n)'
  BY <1>1, <1>3, <1>n DEF YNack, Raise, Told
<1>6. Stored' = Stored
  BY <1>1 DEF Stored
<1>7. ApartInv' /\ ResubInv'
  BY <1>1, <1>6, ApartStays, ReadResub DEF SyncInv
<1>8. SlotInv'
  <2>1. \A i \in Slots : Left(i) => Left(i)'
    BY <1>1 DEF Left
  <2>2. \A m \in Waiting \ Active : type[m] = "SUBSCRIBE" =>
          m \in Waiting' \ Active' \/ Told(m)'
    BY <1>1, <1>2, <1>4, <1>5, Parts DEF Waiting, ListType
  <2> QED BY <2>1, <2>2, <1>1, <1>4, SlotStays DEF SyncInv, SlotInv
<1> QED
  BY <1>1, <1>7, <1>8 DEF SyncInv

\* A pass over the list: a subscription it drops unanswered is told.
LEMMA SubInfoProcSync ==
  ASSUME IInv, SyncInv, YSubInfoProc
  PROVE  SyncInv'
<1> DEFINE Late == {n \in list : node_state[n] # "INVALID" /\ n \in ack_expired}
<1>1. /\ ypc = "proc" /\ ypc' = "read"
      /\ list' = {n \in list \ Late : node_state[n] # "INVALID"}
      /\ heard' = [n \in Calls |->
           IF n \in Late THEN heard[n] \cup {TimeoutOf(n)} ELSE heard[n]]
      /\ ack_expired' = {}
      /\ UNCHANGED <<type, filter, pc, call, resub_failed, subscribed, sub_handles, node_state,
                     down, Sent, Replied, Active, Stored>>
  BY DEF YSubInfoProc, reqVars, netVars, Sent, Replied, Active, Stored
<1>2. Flying' \subseteq Flying
  BY <1>1 DEF Flying
<1>3. ApartInv' /\ AckInv' /\ ResubInv'
  BY <1>1, <1>2, ApartStays, ReadResub DEF SyncInv, AckInv
<1>4. SendInv'
  <2> SUFFICES ASSUME NEW p \in Callers, pc[p] \in {"send", "remove"}
               PROVE  call[p] \in list' \ ack_expired'
    BY <1>1 DEF SendInv
  <2>1. call[p] \in list \ ack_expired
    BY DEF SyncInv, SendInv
  <2>2. node_state[call[p]] = "NORMAL"
    BY ActiveCall, Parts DEF WireInv
  <2> QED BY <2>1, <2>2, <1>1
<1>5. \A m \in Calls : heard[m] \subseteq heard'[m]
  BY <1>1
<1>6. \A m \in Waiting \ Active : type[m] = "SUBSCRIBE" =>
        m \in Waiting' \ Active' \/ Told(m)'
  <2> SUFFICES ASSUME NEW m \in Waiting \ Active, type[m] = "SUBSCRIBE"
               PROVE  m \in Waiting' \ Active' \/ Told(m)'
    OBVIOUS
  <2>1. m \in list /\ node_state[m] = "NORMAL" /\ m \in Calls
    BY Parts DEF Waiting, ListType
  <2>2. CASE m \in ack_expired
    <3>1. m \in Late
      BY <2>1, <2>2
    <3>2. heard'[m] = heard[m] \cup {"SUBCRIBE_TIMEOUT"}
      BY <2>1, <3>1, <1>1 DEF TimeoutOf
    <3> QED BY <3>2 DEF Told
  <2>3. CASE m \notin ack_expired
    BY <2>1, <2>3, <1>1 DEF Waiting
  <2> QED BY <2>2, <2>3
<1>7. SlotInv'
  <2>1. \A i \in Slots : Left(i) => Left(i)'
    BY <1>1 DEF Left
  <2> QED BY <2>1, <1>1, <1>5, <1>6, SlotStays DEF SyncInv, SlotInv
<1> QED
  BY <1>3, <1>4, <1>7 DEF SyncInv

\* A connection that is lost leaves all slots to resubscribe, which begins at
\* the first.
LEMMA ReconnectSync ==
  ASSUME IInv, SyncInv, YDisconnect \/ YReconnect
  PROVE  SyncInv'
<1>1. /\ UNCHANGED <<type, filter, pc, call, list, ack_expired, sub_handles, Active, Stored>>
      /\ \/ ypc = "read" /\ ypc' = "reconnect" /\ up' = <<>> /\ down' = <<>>
         \/ /\ ypc = "reconnect" /\ ypc' = "resubscribe" /\ itr' = 0
            /\ UNCHANGED <<up, down, subscribed>>
  BY DEF YDisconnect, YReconnect, listVars, reqVars, netVars, Active, Stored
<1>2. Flying' \subseteq Flying
  BY <1>1 DEF Flying, Sent, Replied
<1>3. ApartInv' /\ AckInv'
  BY <1>1, <1>2, ApartStays DEF SyncInv, AckInv
<1>4. SendInv' /\ ResubInv'
  BY <1>1 DEF SyncInv, SendInv, ResubInv
<1>5. \A i \in Slots : Left(i)'
  BY <1>1 DEF Left, Slots
<1> QED
  BY <1>3, <1>4, <1>5 DEF SyncInv, SlotInv

\* The next slot, or the end: then every slot has had its turn.
LEMMA ResubscribeSync ==
  ASSUME IInv, SyncInv, YResubscribe
  PROVE  SyncInv'
<1>1. /\ ypc = "resubscribe"
      /\ UNCHANGED <<type, filter, pc, call, list, ack_expired, sub_handles, node_state, heard,
                     up, down, subscribed, Active, Stored, Waiting, Flying>>
      /\ itr \in 0..MAX_MESSAGE_HANDLERS
  BY Parts DEF YResubscribe, listVars, reqVars, netVars, Active, Stored, Waiting, Flying,
    Sent, Replied, YieldType
<1>2. \/ itr = MAX_MESSAGE_HANDLERS /\ ypc' = "read"
      \/ /\ itr < MAX_MESSAGE_HANDLERS /\ itr' = itr + 1
         /\ topic' = sub_handles[itr + 1].buf
         /\ ypc' = IF topic' = NULL THEN "resubscribe" ELSE "copy"
  BY DEF YResubscribe
<1>3. ApartInv' /\ AckInv' /\ SendInv'
  BY <1>1, ApartStays DEF SyncInv, AckInv, SendInv
<1>4. ResubInv'
  BY <1>1, <1>2, SubAssumption DEF SyncInv, ResubInv, Slots
<1>5. SlotInv'
  <2> SUFFICES ASSUME NEW i \in Slots, sub_handles[i].buf # NULL
               PROVE  Left(i)' \/ Agreed(filter[sub_handles[i].buf])'
    BY <1>1 DEF SlotInv
  <2>1. Left(i) => Left(i)'
    BY <1>1, <1>2, SubAssumption DEF Left, Slots
  <2> QED BY <2>1, <1>1, SlotStays DEF SyncInv
<1> QED
  BY <1>3, <1>4, <1>5 DEF SyncInv

\* The copy of the slot's filter: it cannot have been freed, and resubscribe
\* makes a request for it, or fails.
LEMMA CopySync ==
  ASSUME IInv, SyncInv, YCopy
  PROVE  SyncInv'
<1>1. /\ ypc = "copy" /\ pc[Yielder] = "idle"
      /\ itr \in Slots /\ topic # NULL /\ sub_handles[itr].buf = topic
      /\ UNCHANGED <<list, ack_expired, sub_handles, node_state, heard, itr, topic,
                     up, down, subscribed, Stored, Waiting, Sent, Replied>>
  BY DEF YCopy, SyncInv, ResubInv, listVars, netVars, Stored, Waiting, Sent, Replied
<1>2. topic \in Stored /\ topic \in buffers /\ topic \in Asked
  BY <1>1, FlyingAsked, Parts DEF Stored, OwnerInv
<1>3. CASE UNCHANGED <<pc, call, reqVars>> /\ ypc' = "read" /\ resub_failed'
  <2>1. UNCHANGED <<type, filter, Active, Flying>>
    BY <1>1, <1>3 DEF reqVars, Active, Flying
  <2>2. ApartInv' /\ AckInv' /\ SendInv'
    BY <1>1, <1>3, <2>1, ApartStays DEF SyncInv, AckInv, SendInv
  <2>3. ResubInv' /\ SlotInv'
    BY <1>1, <1>3 DEF SyncInv, ResubInv, SlotInv, Left
  <2> QED BY <2>2, <2>3 DEF SyncInv
<1>4. CASE /\ ypc' = "call" /\ Goto(Yielder, "idle", "lock")
           /\ Request(Yielder, "SUBSCRIBE", filter[topic], handlers[topic],
                      sub_handles[itr].by)
           /\ UNCHANGED resub_failed
  <2> DEFINE n == calls + 1
  <2>1. /\ Asked' = Asked \cup {n} /\ n \in Calls \ Asked
        /\ Active' = Active \cup {n}
        /\ call'[Yielder] = n
        /\ \A q \in Callers \ {Yielder} : call'[q] = call[q] /\ pc'[q] = pc[q]
        /\ \A m \in Asked : filter'[m] = filter[m]
    <3>1. /\ Yielder \in Callers /\ filter[topic] \in Topics /\ handlers[topic] \in Handlers
          /\ sub_handles[itr].by \in 0..MaxCalls
      BY <1>1, <1>2, FlyingAsked, Parts DEF Callers, RequestType, ClientType
    <3> QED BY <1>4, <3>1, NewRequest
  <2>2. /\ type'[n] = "SUBSCRIBE" /\ filter'[n] = filter[topic]
        /\ \A m \in Asked : type'[m] = type[m]
        /\ pc'[Yielder] = "lock"
    BY <1>4, <2>1, Parts DEF Request, RequestType, Goto, Callers
  <2>3. Flying' = Flying \cup {n}
    BY <1>1, <2>1 DEF Flying
  <2> HIDE DEF n
  <2>4. ApartInv'
    <3> SUFFICES ASSUME NEW u \in Flying', type'[u] = "UNSUBSCRIBE"
                 PROVE  /\ \A m \in Flying' : filter'[m] = filter'[u] => m = u
                        /\ \A m \in Stored' : filter'[m] # filter'[u]
      BY DEF ApartInv
    <3>1. u \in Flying /\ u \in Asked
      BY <2>2, <2>3, FlyingAsked
    <3>2. type[u] = "UNSUBSCRIBE" /\ filter'[u] = filter[u]
      BY <3>1, <2>1, <2>2
    <3>3. /\ \A m \in Flying : filter[m] = filter[u] => m = u
          /\ \A m \in Stored : filter[m] # filter[u]
      BY <3>1, <3>2 DEF SyncInv, ApartInv
    <3> QED BY <3>2, <3>3, <1>1, <1>2, <2>1, <2>2, <2>3, FlyingAsked
  <2>5. AckInv'
    BY <1>1, <2>1, <2>2, FlyingAsked DEF SyncInv, AckInv
  <2>6. SendInv'
    BY <1>1, <2>1, <2>2 DEF SyncInv, SendInv
  <2>7. ResubInv'
    BY <1>1, <1>2, <1>4, <2>1, <2>2 DEF ResubInv
  <2>8. SlotInv'
    <3>1. \A m \in Waiting \ Active : m \in Waiting' \ Active'
      BY <1>1, <2>1, Parts DEF AskedInv, Waiting
    <3>2. \A i \in Slots : Left(i) => Left(i)'
      BY <1>1, <1>4 DEF Left
    <3> QED BY <3>1, <3>2, <1>1, <2>1, <2>2, SlotStays DEF SyncInv, SlotInv
  <2> QED
    BY <2>4, <2>5, <2>6, <2>7, <2>8 DEF SyncInv
<1> QED
  BY <1>2, <1>3, <1>4 DEF YCopy

\* The broker takes the next request: it ends no subscription but that of the
\* topic it is asked to, which no slot holds.
LEMMA BrokerSync ==
  ASSUME IInv, SyncInv, Broker
  PROVE  SyncInv'
<1>n. PICK n : n = Head(up)
  OBVIOUS
<1>1. /\ up # <<>> /\ up' = Tail(up)
      /\ UNCHANGED <<type, filter, pc, call, list, ack_expired, sub_handles, node_state, heard,
                     itr, topic, ypc, resub_failed, Active, Stored, Waiting>>
  BY DEF Broker, listVars, reqVars, loopVars, Active, Stored, Waiting
<1>2. /\ n \in Calls /\ n \in Sent /\ Sent' \subseteq Sent
  BY <1>1, <1>n, Parts, TailUp DEF WireType, Sent
<1>3. PICK a \in {"SUBACK", "NACK", "UNSUBACK"} :
        /\ down' = Append(down, [ack |-> a, id |-> n])
        /\ a = "UNSUBACK" <=> type[n] = "UNSUBSCRIBE"
        /\ a = "SUBACK" => filter[n] \in subscribed'
        /\ a # "UNSUBACK" => subscribed \subseteq subscribed'
        /\ a = "UNSUBACK" => subscribed' = subscribed \ {filter[n]}
  BY <1>n DEF Broker
<1> DEFINE m == [ack |-> a, id |-> n]
<1>4. down \in Seq(Packet) /\ m \in Packet
  BY <1>2, Parts DEF WireType, Packet
<1>5. Replied' = Replied \cup {n}
  BY <1>3, <1>4, AppendDown DEF Replied
<1>6. Flying' \subseteq Flying
  BY <1>1, <1>2, <1>5 DEF Flying
<1>7. \A i \in 1..Len(down') : \/ i \in 1..Len(down) /\ down'[i] = down[i]
                               \/ down'[i] = m
  BY <1>3, <1>4
<1>8. ASSUME NEW k \in Flying, k # n, filter[k] \in subscribed
      PROVE  filter[k] \in subscribed'
  BY <1>2, <1>3, <1>8 DEF SyncInv, ApartInv, Flying
<1>9. AckInv'
  <2> SUFFICES ASSUME NEW i \in 1..Len(down')
               PROVE  /\ down'[i].ack = "UNSUBACK" <=> type[down'[i].id] = "UNSUBSCRIBE"
                      /\ down'[i].ack = "SUBACK" => filter[down'[i].id] \in subscribed'
    BY <1>1 DEF AckInv
  <2>1. CASE down'[i] = m
    BY <2>1, <1>3
  <2>2. CASE i \in 1..Len(down) /\ down'[i] = down[i]
    <3>1. down[i].id \in Flying /\ down[i].id # n
      BY <2>2, <1>2, FlyingAsked, Parts DEF WireInv, Replied
    <3> QED BY <2>2, <3>1, <1>8 DEF SyncInv, AckInv
  <2> QED BY <2>1, <2>2, <1>7
<1>10. \A k \in Stored : filter[k] \in subscribed => filter[k] \in subscribed'
  BY <1>2, <1>3 DEF SyncInv, ApartInv, Flying
<1>11. ApartInv' /\ SendInv' /\ ResubInv'
  BY <1>1, <1>6, ApartStays DEF SyncInv, SendInv, ResubInv
<1>12. SlotInv'
  <2>1. \A i \in Slots : Left(i) => Left(i)'
    BY <1>1 DEF Left
  <2> QED BY <2>1, <1>1, <1>10, SlotStays DEF SyncInv, SlotInv
<1> QED
  BY <1>9, <1>11, <1>12 DEF SyncInv

\* Steps that change neither calls nor slots nor packets.
LEMMA OtherSync ==
  ASSUME IInv, SyncInv,
         \/ YReadOther
         \/ \E p \in Callers : SendNoHandle(p)
         \/ UNCHANGED vars
         \/ ~SendMayOverrun /\ \E n \in Calls : AckTimerExpires(n)
  PROVE  SyncInv'
<1>1. /\ UNCHANGED <<type, filter, pc, call, list, sub_handles, node_state, heard, up, down,
                     subscribed, itr, topic, resub_failed>>
      /\ ypc' = ypc \/ (ypc = "read" /\ ypc' = "proc")
  BY DEF YReadOther, SendNoHandle, vars, AckTimerExpires, listVars, reqVars, loopVars, netVars
<1>2. UNCHANGED <<Active, Stored, Waiting, Flying>>
  BY <1>1 DEF Active, Stored, Waiting, Flying, Sent, Replied
<1>3. SendInv'
  <2>1. CASE UNCHANGED ack_expired
    BY <1>1, <2>1 DEF SyncInv, SendInv
  <2>2. CASE ~SendMayOverrun /\ \E n \in Calls : AckTimerExpires(n)
    <3>1. PICK n \in Calls : AckTimerExpires(n)
      BY <2>2
    <3>2. ~Sending(n) /\ ack_expired' = ack_expired \cup {n}
      BY <2>2, <3>1 DEF AckTimerExpires
    <3> QED BY <1>1, <3>2 DEF SyncInv, SendInv, Sending
  <2> QED BY <2>1, <2>2 DEF YReadOther, SendNoHandle, vars, listVars
<1>4. ApartInv' /\ AckInv' /\ ResubInv'
  BY <1>1, <1>2, ApartStays DEF SyncInv, AckInv, ResubInv
<1>5. SlotInv'
  <2>1. \A i \in Slots : Left(i) => Left(i)'
    BY <1>1 DEF Left
  <2> QED BY <2>1, <1>1, <1>2, SlotStays DEF SyncInv, SlotInv
<1> QED
  BY <1>3, <1>4, <1>5 DEF SyncInv

\* IOT_MQTT_Destroy leaves nothing.
LEMMA DestroySync ==
  ASSUME IInv, SyncInv, Destroy
  PROVE  SyncInv'
<1>1. /\ \A p \in Callers : pc[p] = "idle"
      /\ pc' = pc /\ ypc' = "destroyed" /\ list' = {} /\ up' = <<>> /\ down' = <<>>
      /\ sub_handles' = [i \in Slots |-> [sub_handles[i] EXCEPT !.buf = NULL]]
  BY DEF Destroy
<1>2. \A i \in Slots : sub_handles'[i].buf = NULL
  <2>1. sub_handles \in [Slots -> [buf : 0..MaxCalls, by : 0..MaxCalls]]
    BY Parts DEF ClientType
  <2> QED BY <1>1, <2>1
<1>3. Flying' = {}
  BY <1>1 DEF Flying, Active, Sent, Replied
<1>4. ApartInv' /\ AckInv' /\ SendInv'
  BY <1>1, <1>3 DEF ApartInv, AckInv, SendInv
<1>5. ResubInv' /\ SlotInv'
  BY <1>1, <1>2 DEF ResubInv, SlotInv, Callers
<1> QED
  BY <1>4, <1>5 DEF SyncInv

\* Every step keeps SyncInv.
LEMMA SyncNext ==
  ASSUME IInv, SyncInv, ~MayOverlap, ~SendMayOverrun, [Next]_vars
  PROVE  SyncInv'
<1>1. ASSUME NEW p \in Callers, Call(p) PROVE SyncInv'
  BY <1>1, SubscribeSync, UnsubscribeSync, UnsubCheckSync, PushSync, SendSync, SendFailSync,
    OtherSync DEF Call
<1>2. CASE Yield
  BY <1>2, SubackSync, RefusalSync, SubInfoProcSync, ReconnectSync, ResubscribeSync, CopySync,
    OtherSync DEF Yield
<1>3. CASE Stopped \/ UNCHANGED vars
  BY <1>3, OtherSync DEF Stopped
<1> QED
  BY <1>1, <1>2, <1>3, DestroySync, BrokerSync, OtherSync DEF Next

\* When all is quiet, the slots and the broker agree, or the application knows
\* better, across any number of reconnections.
THEOREM InAgreement ==
  ASSUME ~MayOverlap, ~SendMayOverrun
  PROVE  Spec => []InSync
<1>1. Init => SyncInv
  <2> SUFFICES ASSUME Init PROVE SyncInv
    OBVIOUS
  <2>1. Flying = {} /\ \A i \in Slots : sub_handles[i].buf = NULL
    BY DEF Init, Flying, Active, Sent, Replied
  <2>2. ApartInv /\ AckInv /\ SendInv /\ ResubInv
    BY <2>1 DEF Init, ApartInv, AckInv, SendInv, ResubInv, Callers
  <2> QED BY <2>1, <2>2 DEF SyncInv, SlotInv
<1>2. IInv /\ SyncInv /\ [Next]_vars => SyncInv'
  BY SyncNext
<1>3. SyncInv => InSync
  <2> SUFFICES ASSUME SyncInv, Quiet, ~resub_failed, NEW n \in Stored
               PROVE  filter[n] \in subscribed \/ \E m \in Calls : filter[m] = filter[n] /\ Told(m)
    BY DEF InSync
  <2>1. PICK i \in Slots : sub_handles[i].buf = n /\ n # NULL
    BY DEF Stored
  <2>2. ~Left(i) /\ Waiting = {}
    BY DEF Quiet, Left, Waiting
  <2>3. Agreed(filter[n])
    BY <2>1, <2>2 DEF SyncInv, SlotInv
  <2> QED BY <2>2, <2>3 DEF Agreed
<1> QED
  BY <1>1, <1>2, <1>3, Invariance, PTL DEF Spec

-----------------------------------------------------------------------------
(***************************************************************************)
(* No string is lost, if every subscription may have a slot.               *)
(***************************************************************************)

\* What is asked for, stored, copied or granted is a subscription.
KnownInv ==
  /\ \A n \in Asked : type[n] = "SUBSCRIBE" => <<filter[n], handlers[n]>> \in Subscriptions
  /\ \A n \in Stored : type[n] = "SUBSCRIBE"
  /\ topic # NULL => topic \in Asked /\ type[topic] = "SUBSCRIBE"
  /\ \A i \in 1..Len(down) : down[i].ack # "UNSUBACK" => type[down[i].id] = "SUBSCRIBE"

\* A call whose packet is being sent has its string in the list, or it is freed;
\* and a client that is destroyed has no calls.
HeldInv ==
  \A p \in Callers :
    pc[p] \in {"send", "remove"} /\ call[p] \in buffers => call[p] \in list

EndInv == ypc = "destroyed" => \A p \in Callers : pc[p] = "idle"

LeakInv == NoLeak /\ HeldInv /\ EndInv

\* When every slot is taken, one has the subscription that is asked for: none is
\* in two slots.
LEMMA RoomForAll ==
  ASSUME IInv, KnownInv, EnoughSlots, FreeSlots = {},
         NEW n \in Asked, type[n] = "SUBSCRIBE"
  PROVE  \E i \in Slots : Holds(i, n)
<1> SUFFICES ASSUME \A i \in Slots : ~Holds(i, n)
             PROVE  FALSE
  OBVIOUS
<1> DEFINE s == <<filter[n], handlers[n]>>
           f == [i \in Slots |-> <<filter[sub_handles[i].buf], handlers[sub_handles[i].buf]>>]
           others == Subscriptions \ {s}
<1>1. ASSUME NEW i \in Slots
      PROVE  sub_handles[i].buf # NULL /\ sub_handles[i].buf \in Calls
  <2>1. sub_handles[i].buf # NULL
    BY DEF FreeSlots
  <2>2. sub_handles[i].buf \in 0 .. MaxCalls
    BY Parts DEF ClientType
  <2> QED
    BY <2>1, <2>2, SubAssumption DEF Calls, NULL
<1>2. \A i \in Slots : f[i] \in others
  <2> SUFFICES ASSUME NEW i \in Slots PROVE f[i] \in others
    OBVIOUS
  <2>1. sub_handles[i].buf \in Stored /\ sub_handles[i].buf \in Asked
    BY <1>1, Parts DEF Stored, AskedInv
  <2>2. f[i] \in Subscriptions
    BY <2>1 DEF KnownInv
  <2>3. f[i] # s
    BY <1>1 DEF Holds
  <2> QED
    BY <2>2, <2>3
<1>3. \A i, j \in Slots : i # j => f[i] # f[j]
  BY <1>1, Parts DEF NoDuplicates, Holds
<1>4. f \in [Slots -> others]
  BY <1>2
<1>5. IsFiniteSet(Slots) /\ Cardinality(Slots) = MAX_MESSAGE_HANDLERS
  BY FS_Interval, SubAssumption DEF Slots
<1>6. /\ IsFiniteSet(others) /\ Cardinality(others) = Cardinality(Subscriptions) - 1
      /\ Cardinality(Subscriptions) \in Nat
  <2>1. s \in Subscriptions
    BY DEF KnownInv
  <2> QED
    BY <2>1, FS_RemoveElement, FS_CardinalityType DEF EnoughSlots
<1>7. Cardinality(others) < Cardinality(Slots)
  BY <1>5, <1>6, SubAssumption DEF EnoughSlots
<1> HIDE DEF f, others, s
<1>8. \E i, j \in Slots : i # j /\ f[i] = f[j]
  BY <1>4, <1>5, <1>6, <1>7, FS_PigeonHole
<1> QED
  BY <1>3, <1>8

\* A step that leaves the strings, the slots, the list and the calls alone.
LEMMA StringsStay ==
  ASSUME IInv, LeakInv,
         UNCHANGED <<buffers, sub_handles, list, node_state, call, pc>>,
         ypc' = ypc \/ (ypc # "destroyed" /\ ypc' # "destroyed")
  PROVE  LeakInv'
<1>1. UNCHANGED <<Stored, Waiting, Making>>
  BY DEF Stored, Waiting, Making
<1> QED
  BY <1>1 DEF LeakInv, NoLeak, HeldInv, EndInv

\* A call that begins.
LEMMA BeginHolds ==
  ASSUME IInv, LeakInv, ypc # "destroyed", NEW p \in Callers, NEW t \in Topics,
         NEW h \in Handlers, NEW u \in 0 .. MaxCalls, Goto(p, "idle", "lock"),
         Request(p, "SUBSCRIBE", t, h, u), buffers' = buffers \cup {calls + 1},
         UNCHANGED <<sub_handles, list, node_state>>, ypc' # "destroyed"
  PROVE  LeakInv'
<1>1. /\ calls + 1 \notin Asked /\ call'[p] = calls + 1 /\ pc'[p] = "lock"
      /\ pc[p] = "idle"
      /\ \A q \in Callers \ {p} : call'[q] = call[q] /\ pc'[q] = pc[q]
  BY NewRequest, Parts DEF Goto, RequestType
<1>2. Stored' = Stored /\ Waiting' = Waiting
  BY DEF Stored, Waiting
<1>3. Making' = Making \cup {calls + 1}
  BY <1>1 DEF Making
<1>4. NoLeak'
  BY <1>2, <1>3 DEF LeakInv, NoLeak
<1>5. HeldInv'
  <2> SUFFICES ASSUME NEW q \in Callers, pc'[q] \in {"send", "remove"},
                      call'[q] \in buffers'
               PROVE  call'[q] \in list'
    BY DEF HeldInv
  <2>1. q # p /\ pc[q] # "idle"
    BY <1>1
  <2>2. call'[q] = call[q] /\ call[q] \in Asked
    BY <1>1, <2>1, ActiveCall
  <2>3. call[q] \in buffers
    BY <1>1, <2>2
  <2> QED
    BY <1>1, <2>1, <2>2, <2>3 DEF LeakInv, HeldInv
<1> QED
  BY <1>4, <1>5 DEF LeakInv, EndInv

\* A call that goes on or ends, and at most frees its own string.
LEMMA CallHolds ==
  ASSUME IInv, LeakInv, NEW p \in Callers, pc[p] # "idle",
         NEW to \in {"idle", "send", "remove"}, pc' = [pc EXCEPT ![p] = to],
         call' = call, UNCHANGED <<sub_handles, node_state>>,
         ypc' \in {ypc, "resubscribe", "read"},
         list' \subseteq list \cup {call[p]}, list \subseteq list' \cup {call[p]},
         buffers' \in {buffers, buffers \ {call[p]}},
         call[p] \in buffers' => call[p] \in list'
  PROVE  LeakInv'
<1>1. pc'[p] = to /\ \A q \in Callers \ {p} : pc'[q] = pc[q]
  BY Parts DEF RequestType
<1>2. call[p] \in Calls /\ node_state[call[p]] = "NORMAL"
  BY ActiveCall, Parts DEF WireInv
<1>3. Stored' = Stored /\ Waiting \ {call[p]} \subseteq Waiting'
      /\ Making \ {call[p]} \subseteq Making'
  BY <1>1 DEF Stored, Waiting, Making
<1>4. call[p] \in buffers' => call[p] \in Waiting'
  BY <1>2 DEF Waiting
<1>5. ypc # "destroyed" /\ ypc' # "destroyed"
  BY DEF LeakInv, EndInv
<1>6. NoLeak'
  BY <1>3, <1>4, <1>5 DEF LeakInv, NoLeak
<1>7. HeldInv'
  <2> SUFFICES ASSUME NEW q \in Callers, pc'[q] \in {"send", "remove"},
                      call[q] \in buffers'
               PROVE  call[q] \in list'
    BY DEF HeldInv
  <2>1. CASE q = p
    BY <2>1
  <2>2. CASE q # p
    <3>1. pc[q] \in {"send", "remove"} /\ call[q] \in buffers /\ call[q] # call[p]
      BY <1>1, <2>2, Parts DEF CallInv
    <3> QED
      BY <3>1 DEF LeakInv, HeldInv
  <2> QED
    BY <2>1, <2>2
<1> QED
  BY <1>5, <1>6, <1>7 DEF LeakInv, EndInv

\* qcloud_iot_mqtt_unsubscribe frees the strings it takes out of the slots.
LEMMA UnsubscribeFrees ==
  ASSUME IInv, LeakInv, NEW p \in Callers, NEW t \in Topics, Unsubscribe(p, t)
  PROVE  LeakInv'
<1> DEFINE B == {sub_handles[i].buf : i \in Cleared(t)}
<1>1. /\ call'[p] = calls + 1 /\ pc'[p] = "unsubscribe" /\ pc[p] = "idle"
      /\ \A q \in Callers \ {p} : call'[q] = call[q] /\ pc'[q] = pc[q]
  <2>1. Goto(p, "idle", "unsubscribe")
    BY DEF Unsubscribe
  <2>2. pc'[p] = "unsubscribe" /\ pc[p] = "idle"
    BY <2>1, Parts DEF Goto, RequestType
  <2> QED
    BY <2>1, <2>2, UnsubscribeRequest, NewRequest
<1>2. Waiting' = Waiting /\ Making' = Making
  BY <1>1 DEF Unsubscribe, Waiting, Making, listVars
<1>3. Stored \ B \subseteq Stored'
  <2> SUFFICES ASSUME NEW i \in Slots, sub_handles[i].buf # NULL,
                      sub_handles[i].buf \notin B
               PROVE  sub_handles[i].buf \in Stored'
    BY DEF Stored
  <2>1. i \notin Cleared(t)
    OBVIOUS
  <2>2. sub_handles'[i].buf = sub_handles[i].buf
    BY <2>1 DEF Unsubscribe
  <2> QED
    BY <2>2 DEF Stored
<1>4. buffers' = buffers \ B
  BY DEF Unsubscribe
<1>5. ypc # "destroyed" /\ ypc' = ypc /\ list' = list
  BY DEF Unsubscribe, MayCall, loopVars, listVars
<1> HIDE DEF B
<1>6. NoLeak'
  BY <1>2, <1>3, <1>4, <1>5 DEF LeakInv, NoLeak
<1>7. HeldInv' /\ EndInv'
  BY <1>1, <1>4, <1>5 DEF LeakInv, HeldInv, EndInv
<1> QED
  BY <1>6, <1>7 DEF LeakInv

\* The copy that qcloud_iot_mqtt_unsubscribe makes is in its hands.
LEMMA UnsubCheckHolds ==
  ASSUME IInv, LeakInv, NEW p \in Callers, UnsubCheck(p)
  PROVE  LeakInv'
<1>1. /\ pc[p] = "unsubscribe" /\ call' = call /\ ypc' = ypc
      /\ UNCHANGED <<sub_handles, list, node_state>>
  BY DEF UnsubCheck, Goto, loopVars, listVars
<1>2. CASE pc' = [pc EXCEPT ![p] = "lock"] /\ buffers' = buffers \cup {call[p]}
  <2>1. pc'[p] = "lock" /\ \A q \in Callers \ {p} : pc'[q] = pc[q]
    BY <1>2, Parts DEF RequestType
  <2>2. Stored' = Stored /\ Waiting' = Waiting /\ Making' = Making \cup {call[p]}
    BY <1>1, <2>1 DEF Stored, Waiting, Making
  <2>3. NoLeak' /\ EndInv'
    BY <1>1, <1>2, <2>1, <2>2 DEF LeakInv, NoLeak, EndInv
  <2>4. HeldInv'
    BY <1>1, <1>2, <2>1, Parts DEF LeakInv, HeldInv, CallInv
  <2> QED
    BY <2>3, <2>4 DEF LeakInv
<1>3. CASE pc' = [pc EXCEPT ![p] = "idle"] /\ UNCHANGED buffers
  <2>1. call[p] \notin Stored \cup Waiting \cup Making
    BY <1>1, ActiveCall, Parts DEF CallInv, Waiting, Making
  <2>2. ypc # "destroyed"
    BY <1>1 DEF LeakInv, EndInv
  <2>3. call[p] \notin buffers
    BY <2>1, <2>2 DEF LeakInv, NoLeak
  <2> QED
    BY <1>1, <1>3, <2>3, CallHolds
<1> QED
  BY <1>2, <1>3 DEF UnsubCheck, Goto

\* Push and the send: the string is in the list, or is freed.
LEMMA SendHolds ==
  ASSUME IInv, LeakInv, NEW p \in Callers,
         Push(p) \/ Send(p) \/ SendFail(p) \/ SendNoHandle(p) \/ SendRemove(p)
  PROVE  LeakInv'
<1>1. CallEnds(p, TRUE) \/ CallEnds(p, FALSE) \/ UNCHANGED loopVars
        => ypc' \in {ypc, "resubscribe", "read"}
  BY DEF CallEnds, loopVars
<1>2. pc[p] \in {"send", "remove"} /\ call[p] \in buffers => call[p] \in list
  BY DEF LeakInv, HeldInv
<1>3. CASE Push(p)
  BY <1>1, <1>3, CallHolds DEF Push, Goto, reqVars
<1>4. CASE Send(p)
  BY <1>1, <1>2, <1>4, CallHolds DEF Send, Goto, listVars
<1>5. CASE SendFail(p)
  BY <1>1, <1>2, <1>5, CallHolds DEF SendFail, Goto, listVars
<1>6. CASE SendNoHandle(p)
  BY <1>6, StringsStay DEF SendNoHandle, listVars, loopVars
<1>7. CASE SendRemove(p)
  <2>1. list' = list \ {call[p]} /\ buffers' = buffers \ {call[p]}
    BY <1>7 DEF SendRemove
  <2>2. call[p] \notin buffers'
    BY <2>1
  <2> QED
    BY <1>1, <1>7, <2>1, <2>2, CallHolds DEF SendRemove, Goto
<1> QED
  BY <1>3, <1>4, <1>5, <1>6, <1>7

\* A node that was answered or timed out gives its string to a slot, or back.
LEMMA NodesEnd ==
  ASSUME IInv, LeakInv, UNCHANGED <<pc, call>>, NEW S \in SUBSET Waiting,
         Waiting \ S \subseteq Waiting',
         \A n \in list \ S : node_state[n] = "NORMAL" => n \in list',
         buffers' \subseteq buffers, Stored \subseteq Stored',
         \A n \in S : n \notin buffers' \/ (n \in Stored' /\ n \notin Active),
         ypc # "destroyed", ypc' # "destroyed"
  PROVE  LeakInv'
<1>1. Making' = Making
  BY DEF Making
<1>2. NoLeak'
  BY <1>1 DEF LeakInv, NoLeak
<1>3. HeldInv'
  <2> SUFFICES ASSUME NEW q \in Callers, pc[q] \in {"send", "remove"},
                      call[q] \in buffers'
               PROVE  call[q] \in list'
    BY DEF HeldInv
  <2>1. call[q] \in list
    BY DEF LeakInv, HeldInv
  <2>2. call[q] \in Active /\ node_state[call[q]] = "NORMAL"
    BY ActiveCall, Parts DEF WireInv
  <2> QED
    BY <2>1, <2>2
<1> QED
  BY <1>2, <1>3 DEF LeakInv, EndInv

\* A step that makes no request, and stores, copies or answers only subscriptions.
LEMMA KnownStays ==
  ASSUME IInv, KnownInv, UNCHANGED reqVars,
         \A n \in Stored' : n \in Stored \/ type[n] = "SUBSCRIBE",
         topic' = topic \/ topic' = NULL \/ topic' \in Stored,
         \A i \in 1..Len(down') :
           down'[i].ack # "UNSUBACK" => type[down'[i].id] = "SUBSCRIBE"
  PROVE  KnownInv'
<1>1. Asked' = Asked /\ Stored \subseteq Asked
  BY Parts DEF Asked, AskedInv, reqVars
<1> QED
  BY <1>1 DEF KnownInv, reqVars, NULL

\* A request that is made.
LEMMA KnownGrows ==
  ASSUME IInv, KnownInv, NEW p \in Callers, NEW k \in {"SUBSCRIBE", "UNSUBSCRIBE"},
         NEW t \in Topics, NEW h \in Handlers, NEW u \in 0..MaxCalls,
         NEW to \in {"unsubscribe", "lock"}, Goto(p, "idle", to), Request(p, k, t, h, u),
         k = "SUBSCRIBE" => <<t, h>> \in Subscriptions,
         Stored' \subseteq Stored, UNCHANGED <<topic, down>>
  PROVE  KnownInv'
<1>1. /\ Asked' = Asked \cup {calls + 1} /\ calls + 1 \in Calls \ Asked
      /\ \A n \in Asked : filter'[n] = filter[n] /\ handlers'[n] = handlers[n]
  BY NewRequest
<1>2. /\ type'[calls + 1] = k /\ filter'[calls + 1] = t /\ handlers'[calls + 1] = h
      /\ \A n \in Asked : type'[n] = type[n]
  BY <1>1, Parts DEF Request, RequestType
<1>3. \A i \in 1..Len(down) : down[i].id \in Asked
  BY Parts DEF AskedInv, Replied
<1>4. Stored \subseteq Asked
  BY Parts DEF AskedInv
<1>5. \A n \in Asked' : type'[n] = "SUBSCRIBE" =>
        <<filter'[n], handlers'[n]>> \in Subscriptions
  BY <1>1, <1>2 DEF KnownInv
<1>6. \A n \in Stored' : type'[n] = "SUBSCRIBE"
  BY <1>2, <1>4 DEF KnownInv
<1>7. topic' # NULL => topic' \in Asked' /\ type'[topic'] = "SUBSCRIBE"
  BY <1>1, <1>2 DEF KnownInv, NULL
<1>8. \A i \in 1..Len(down') :
        down'[i].ack # "UNSUBACK" => type'[down'[i].id] = "SUBSCRIBE"
  BY <1>2, <1>3 DEF KnownInv
<1> QED
  BY <1>5, <1>6, <1>7, <1>8 DEF KnownInv

\* An answer that is read: the other answers remain.
LEMMA KnownTail ==
  ASSUME IInv, KnownInv, NEW a, Receive(a)
  PROVE  /\ \A i \in 1..Len(down') :
              down'[i].ack # "UNSUBACK" => type[down'[i].id] = "SUBSCRIBE"
         /\ a # "UNSUBACK" => type[Head(down).id] = "SUBSCRIBE"
<1>1. down \in Seq(Packet) /\ down # << >> /\ down' = Tail(down) /\ Head(down).ack = a
  BY Parts DEF Receive, WireType
<1>2. /\ Head(down) = down[1] /\ 1 \in 1..Len(down)
      /\ \A i \in 1..Len(Tail(down)) : Tail(down)[i] = down[i + 1] /\ i + 1 \in 1..Len(down)
  BY <1>1
<1> QED
  BY <1>1, <1>2 DEF KnownInv

\* A SUBACK answers a subscription.
LEMMA SubackKnown ==
  ASSUME IInv, KnownInv, YSuback
  PROVE  Head(down).id \in Asked /\ type[Head(down).id] = "SUBSCRIBE"
  BY KnownTail, Received DEF YSuback

\* Every step keeps KnownInv.
LEMMA KnownNext ==
  ASSUME IInv, KnownInv, [Next]_vars
  PROVE  KnownInv'
<1> DEFINE Answers == \A i \in 1..Len(down') :
             down'[i].ack # "UNSUBACK" => type[down'[i].id] = "SUBSCRIBE"
<1>0. down' = down \/ down' = << >> => Answers
  BY DEF KnownInv
<1> HIDE DEF Answers
<1>1. ASSUME NEW p \in Callers, Call(p)
      PROVE  KnownInv'
  <2>1. ASSUME NEW t \in Topics, NEW h \in Handlers, Subscribe(p, t, h)
        PROVE  KnownInv'
    <3>1. calls + 1 \in 0 .. MaxCalls
      BY <2>1, Parts, SubAssumption DEF Subscribe, Request, RequestType
    <3>2. Stored' = Stored /\ UNCHANGED <<topic, down>>
      BY <2>1 DEF Subscribe, Stored, loopVars, netVars
    <3> QED
      BY <2>1, <3>1, <3>2, KnownGrows DEF Subscribe
  <2>2. ASSUME NEW t \in Topics, Unsubscribe(p, t)
        PROVE  KnownInv'
    <3>1. Stored' \subseteq Stored
      <4>1. \A i \in Slots : sub_handles'[i].buf \in {sub_handles[i].buf, NULL}
        BY <2>2, Parts DEF Unsubscribe, ClientType
      <4> QED
        BY <4>1 DEF Stored
    <3>2. UNCHANGED <<topic, down>> /\ Goto(p, "idle", "unsubscribe")
      BY <2>2 DEF Unsubscribe, loopVars, netVars
    <3> QED
      BY <2>2, <3>1, <3>2, UnsubscribeRequest, KnownGrows
  <2>3. CASE \/ UnsubCheck(p) \/ Push(p) \/ Send(p) \/ SendFail(p) \/ SendNoHandle(p)
             \/ SendRemove(p)
    <3>1. UNCHANGED <<sub_handles, topic, down, reqVars>>
      BY <2>3 DEF UnsubCheck, Push, Send, SendFail, SendNoHandle, SendRemove, CallEnds,
        loopVars, netVars
    <3> QED
      BY <1>0, <3>1, KnownStays DEF Stored, Answers
  <2> QED
    BY <1>1, <2>1, <2>2, <2>3 DEF Call
<1>2. CASE YSuback
  <2>1. \A n \in Stored' : n \in Stored \/ n = Head(down).id
    <3>1. \A i \in Slots : sub_handles'[i].buf \in {sub_handles[i].buf, Head(down).id}
      BY <1>2, Parts DEF YSuback, Install, FirstSlots, FreeSlots, ClientType
    <3> QED
      BY <3>1 DEF Stored
  <2>2. UNCHANGED <<topic, reqVars>>
    BY <1>2 DEF YSuback, Receive
  <2> QED
    BY <1>2, <2>1, <2>2, SubackKnown, KnownTail, KnownStays DEF YSuback
<1>3. CASE YNack \/ YUnsuback
  <2>1. UNCHANGED <<sub_handles, topic, reqVars>>
    BY <1>3 DEF YNack, YUnsuback, Receive
  <2> QED
    BY <1>3, <2>1, KnownTail, KnownStays DEF YNack, YUnsuback, Stored
<1>4. CASE YReadOther \/ YSubInfoProc \/ YDisconnect \/ YReconnect
  <2>1. UNCHANGED <<sub_handles, topic, reqVars>> /\ (down' = down \/ down' = << >>)
    BY <1>4 DEF YReadOther, YSubInfoProc, YDisconnect, YReconnect, netVars
  <2> QED
    BY <1>0, <2>1, KnownStays DEF Stored, Answers
<1>5. CASE YResubscribe
  <2>1. UNCHANGED <<sub_handles, down, reqVars>>
    BY <1>5 DEF YResubscribe, netVars
  <2>2. topic' = topic \/ (itr + 1 \in Slots /\ topic' = sub_handles[itr + 1].buf)
    <3>1. itr \in 0..MAX_MESSAGE_HANDLERS
      BY Parts DEF YieldType
    <3> QED
      BY <1>5, <3>1, SubAssumption DEF YResubscribe, Slots
  <2>3. topic' = topic \/ topic' = NULL \/ topic' \in Stored
    BY <2>2 DEF Stored
  <2> QED
    BY <1>0, <2>1, <2>3, KnownStays DEF Stored, Answers
<1>6. CASE YCopy
  <2>1. UNCHANGED <<sub_handles, topic, down>>
    BY <1>6 DEF YCopy, netVars
  <2>2. CASE UNCHANGED reqVars
    BY <1>0, <2>1, <2>2, KnownStays DEF Stored, Answers
  <2>3. CASE /\ Goto(Yielder, "idle", "lock") /\ topic \in buffers
             /\ Request(Yielder, "SUBSCRIBE", filter[topic], handlers[topic],
                        sub_handles[itr].by)
    <3>1. itr \in Slots /\ sub_handles[itr].by \in 0 .. MaxCalls
      BY <1>6, Parts DEF YCopy, UserInv, ClientType
    <3>2. /\ filter[topic] \in Topics /\ handlers[topic] \in Handlers /\ Yielder \in Callers
          /\ topic # NULL
      BY <2>3, Parts DEF ClientType, RequestType, Callers, Calls, NULL
    <3>3. <<filter[topic], handlers[topic]>> \in Subscriptions
      BY <3>2 DEF KnownInv
    <3> QED
      BY <2>1, <2>3, <3>1, <3>2, <3>3, KnownGrows DEF Stored
  <2> QED
    BY <1>6, <2>2, <2>3 DEF YCopy
<1>7. CASE Destroy
  <2>1. UNCHANGED <<topic, reqVars>> /\ down' = << >> /\ Stored' = {}
    BY <1>7 DEF Destroy, Stored
  <2> QED
    BY <1>0, <2>1, KnownStays DEF Answers
<1>8. CASE Broker
  <2>1. UNCHANGED <<sub_handles, topic, reqVars>>
    BY <1>8 DEF Broker, loopVars
  <2>2. PICK m \in Packet : /\ down' = Append(down, m)
                            /\ m.ack # "UNSUBACK" => type[m.id] = "SUBSCRIBE"
    <3>1. Head(up) \in Calls
      BY <1>8, Parts DEF Broker, WireType
    <3> QED
      BY <1>8, <3>1 DEF Broker, Packet
  <2>3. Answers
    BY <2>2, Parts DEF Answers, KnownInv, WireType
  <2> QED
    BY <2>1, <2>3, KnownStays DEF Stored, Answers
<1>9. CASE UNCHANGED vars \/ \E n \in Calls : AckTimerExpires(n)
  <2>1. UNCHANGED <<sub_handles, topic, down, reqVars>>
    BY <1>9 DEF vars, AckTimerExpires, loopVars, netVars
  <2> QED
    BY <1>0, <2>1, KnownStays DEF Stored, Answers
<1> QED
  BY <1>1, <1>2, <1>3, <1>4, <1>5, <1>6, <1>7, <1>8, <1>9 DEF Next, Stopped, Yield

\* A SUBACK: there is room for the string, or it is freed.
LEMMA SubackHolds ==
  ASSUME IInv, LeakInv, KnownInv, EnoughSlots, YSuback
  PROVE  LeakInv'
<1> PICK n : n = Head(down).id
  OBVIOUS
<1>1. n \in Calls /\ n \notin Active /\ (n \in list => n \in Waiting)
  BY Received DEF YSuback
<1>2. UNCHANGED <<pc, call, list>> /\ ypc = "read"
  BY DEF YSuback, Receive
<1>3. CASE n \notin list
  <2>1. UNCHANGED <<buffers, sub_handles, node_state, ypc>>
    BY <1>3 DEF YSuback
  <2> QED
    BY <1>2, <2>1, StringsStay
<1>4. CASE n \in list
  <2>1. Mark(n) /\ Install(n)
    BY <1>4 DEF YSuback
  <2>2. \A m \in Calls \ {n} : node_state'[m] = node_state[m]
    BY <2>1, Parts DEF Mark, ListType
  <2>3. Waiting \ {n} \subseteq Waiting'
    BY <1>2, <2>2, Parts DEF Waiting, ListType
  <2> DEFINE Same == {i \in Slots : Holds(i, n)}
  <2>4. ASSUME NEW i \in Slots, UNCHANGED <<buffers>> \/ buffers' = buffers \ {n},
               ypc' = "proc",
               \/ /\ sub_handles' = [sub_handles EXCEPT ![i].by = user[n]]
                  /\ n \notin buffers'
               \/ /\ sub_handles[i].buf = NULL
                  /\ sub_handles' = [sub_handles EXCEPT ![i] =
                                       [buf |-> n, by |-> user[n]]]
        PROVE  LeakInv'
    <3>1. \A j \in Slots \ {i} : sub_handles'[j] = sub_handles[j]
      BY <2>4, Parts DEF ClientType
    <3>2. \/ sub_handles'[i].buf = sub_handles[i].buf /\ n \notin buffers'
          \/ sub_handles[i].buf = NULL /\ sub_handles'[i].buf = n
      BY <2>4, Parts DEF ClientType
    <3>3. Stored \subseteq Stored'
      BY <3>1, <3>2 DEF Stored
    <3>4. n # NULL
      BY <1>1 DEF Calls, NULL
    <3>5. n \notin buffers' \/ n \in Stored'
      BY <3>2, <3>4 DEF Stored
    <3>6. {n} \in SUBSET Waiting /\ buffers' \subseteq buffers
      BY <1>1, <1>4, <2>4
    <3> QED
      BY <1>1, <1>2, <2>3, <2>4, <3>3, <3>5, <3>6, NodesEnd
  <2>5. CASE Same # {}
    <3>1. PICK i \in Same : /\ sub_handles' = [sub_handles EXCEPT ![i].by = user[n]]
                            /\ buffers' = buffers \ {n} /\ ypc' = "proc"
      BY <2>1, <2>5 DEF Install, FirstSlots
    <3> QED
      BY <2>4, <3>1
  <2>6. CASE Same = {}
    <3>1. FreeSlots # {}
      BY <2>6, SubackKnown, RoomForAll
    <3>2. PICK i \in FreeSlots :
            /\ sub_handles' = [sub_handles EXCEPT ![i] = [buf |-> n, by |-> user[n]]]
            /\ UNCHANGED buffers /\ ypc' = "proc"
      BY <2>1, <2>6, <3>1 DEF Install, FirstSlots
    <3>3. i \in Slots /\ sub_handles[i].buf = NULL
      BY DEF FreeSlots
    <3> QED
      BY <2>4, <3>2, <3>3
  <2> QED
    BY <2>5, <2>6
<1> QED
  BY <1>3, <1>4

\* A refusal or an UNSUBACK: the string is freed, if its node is there.
LEMMA RefusalHolds ==
  ASSUME IInv, LeakInv, YNack \/ YUnsuback
  PROVE  LeakInv'
<1> PICK n : n = Head(down).id
  OBVIOUS
<1>1. n \in Calls /\ n \notin Active /\ (n \in list => n \in Waiting)
  BY Received DEF YNack, YUnsuback
<1>2. /\ UNCHANGED <<pc, call, list, sub_handles>> /\ ypc = "read"
      /\ ypc' \in {"read", "proc"}
      /\ \/ n \in list /\ Mark(n) /\ buffers' = buffers \ {n}
         \/ n \notin list /\ UNCHANGED <<node_state, buffers>>
  BY DEF YNack, YUnsuback, Receive
<1>3. Stored' = Stored
  BY <1>2 DEF Stored
<1>4. CASE n \notin list
  BY <1>2, <1>4, StringsStay
<1>5. CASE n \in list
  <2>1. \A m \in Calls \ {n} : node_state'[m] = node_state[m]
    BY <1>2, <1>5, Parts DEF Mark, ListType
  <2>2. Waiting \ {n} \subseteq Waiting'
    BY <1>2, <2>1, Parts DEF Waiting, ListType
  <2>3. {n} \in SUBSET Waiting /\ buffers' = buffers \ {n}
    BY <1>1, <1>2, <1>5
  <2> QED
    BY <1>2, <1>3, <2>2, <2>3, NodesEnd
<1> QED
  BY <1>4, <1>5

\* Nodes that time out lose their strings; answered ones have none.
LEMMA SubInfoProcHolds ==
  ASSUME IInv, LeakInv, YSubInfoProc
  PROVE  LeakInv'
<1> DEFINE Late == {n \in list : node_state[n] # "INVALID" /\ n \in ack_expired}
<1>1. /\ UNCHANGED <<pc, call, sub_handles, node_state>>
      /\ ypc = "proc" /\ ypc' = "read"
      /\ list' = {n \in list \ Late : node_state[n] # "INVALID"}
      /\ buffers' = buffers \ Late
  BY DEF YSubInfoProc, reqVars
<1>2. \A n \in list : node_state[n] # "INVALID" <=> node_state[n] = "NORMAL"
  BY Parts DEF ListType
<1>3. Late \in SUBSET Waiting
  BY <1>2 DEF Waiting
<1> HIDE DEF Late
<1>4. Stored' = Stored /\ Waiting \ Late \subseteq Waiting'
  BY <1>1, <1>2 DEF Stored, Waiting
<1>5. \A n \in list \ Late : node_state[n] = "NORMAL" => n \in list'
  BY <1>1, <1>2
<1> QED
  BY <1>1, <1>3, <1>4, <1>5, NodesEnd

LEMMA LeakNext ==
  ASSUME IInv, LeakInv, KnownInv, EnoughSlots, [Next]_vars
  PROVE  LeakInv'
<1>1. ASSUME NEW p \in Callers, Call(p)
      PROVE  LeakInv'
  <2>1. ASSUME NEW t \in Topics, NEW h \in Handlers, Subscribe(p, t, h)
        PROVE  LeakInv'
    <3>1. calls + 1 \in 0 .. MaxCalls
      BY <2>1, Parts, SubAssumption DEF Subscribe, Request, RequestType
    <3>2. ypc # "destroyed" /\ ypc' = ypc /\ UNCHANGED <<sub_handles, list, node_state>>
      BY <2>1 DEF Subscribe, MayCall, loopVars, listVars
    <3> QED
      BY <2>1, <3>1, <3>2, BeginHolds DEF Subscribe
  <2> QED
    BY <1>1, <2>1, UnsubscribeFrees, UnsubCheckHolds, SendHolds DEF Call
<1>2. ASSUME YReadOther \/ YDisconnect \/ YReconnect \/ YResubscribe
      PROVE  LeakInv'
  <2>1. /\ UNCHANGED <<buffers, sub_handles, list, node_state, call, pc>>
        /\ ypc # "destroyed" /\ ypc' # "destroyed"
    BY <1>2 DEF YReadOther, YDisconnect, YReconnect, YResubscribe, listVars, reqVars
  <2> QED
    BY <2>1, StringsStay
<1>3. CASE YCopy
  <2>1. /\ UNCHANGED <<sub_handles, list, node_state>>
        /\ ypc # "destroyed" /\ ypc' # "destroyed"
    BY <1>3 DEF YCopy, listVars
  <2>2. CASE UNCHANGED <<buffers, pc, call>>
    BY <2>1, <2>2, StringsStay
  <2>3. CASE /\ Goto(Yielder, "idle", "lock") /\ topic \in buffers
             /\ Request(Yielder, "SUBSCRIBE", filter[topic], handlers[topic],
                      sub_handles[itr].by)
             /\ buffers' = buffers \cup {calls + 1}
    <3>1. itr \in Slots /\ sub_handles[itr].by \in 0 .. MaxCalls
      BY <1>3, Parts DEF YCopy, UserInv, ClientType
    <3>2. filter[topic] \in Topics /\ handlers[topic] \in Handlers /\ Yielder \in Callers
      BY <2>3, Parts DEF ClientType, RequestType, Callers
    <3> QED
      BY <2>1, <2>3, <3>1, <3>2, BeginHolds
  <2> QED
    BY <1>3, <2>2, <2>3 DEF YCopy
<1>4. CASE Destroy
  BY <1>4 DEF Destroy, LeakInv, NoLeak, HeldInv, EndInv, reqVars
<1>5. ASSUME Broker \/ \E n \in Calls : AckTimerExpires(n)
      PROVE  LeakInv'
  <2>1. UNCHANGED <<buffers, sub_handles, list, node_state, call, pc, ypc>>
    BY <1>5 DEF Broker, AckTimerExpires, listVars, reqVars, loopVars
  <2> QED
    BY <2>1, StringsStay
<1>6. CASE UNCHANGED vars
  BY <1>6, StringsStay DEF vars, listVars, loopVars
<1>7. CASE Yield
  BY <1>2, <1>3, <1>7, SubackHolds, RefusalHolds, SubInfoProcHolds DEF Yield
<1> QED
  BY <1>1, <1>4, <1>5, <1>6, <1>7 DEF Next, Stopped

\* No string is lost: each that is allocated is in a slot, in a node that waits,
\* or in the hands of a call, if there are as many slots as subscriptions.
THEOREM NothingLeaks ==
  ASSUME EnoughSlots
  PROVE  Spec => []NoLeak
<1>1. Init => LeakInv /\ KnownInv
  BY DEF Init, LeakInv, NoLeak, HeldInv, EndInv, KnownInv, Asked, Stored
<1>2. IInv /\ LeakInv /\ KnownInv /\ [Next]_vars => LeakInv' /\ KnownInv'
  BY LeakNext, KnownNext
<1>3. LeakInv => NoLeak
  BY DEF LeakInv
<1> QED
  BY <1>1, <1>2, <1>3, Invariance, PTL DEF Spec
====
