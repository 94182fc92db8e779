-------------------------- MODULE MqttPublishProofs --------------------------
(***************************************************************************)
(* The safety properties of MqttPublish hold for every number of tasks,    *)
(* publishes, packet ids and disconnections: IInv holds initially, every   *)
(* action keeps it, and it implies them.                                   *)
(***************************************************************************)
EXTENDS MqttPublishInv, TLAPS

USE DEF connVars, listVars, taskVars, yieldVars, netVars

-----------------------------------------------------------------------------
(***************************************************************************)
(* Facts that several actions need.                                        *)
(***************************************************************************)

\* The ids of get_next_packet_id, counted back from the newest one, are all
\* different as long as no more publishes are made than there are ids.
LEMMA IdsApart ==
  ASSUME TypeOK, IdInv
  PROVE  \A m, n \in Numbered : m # n => msg_id[m] # msg_id[n]
  BY PublishAssumption DEF TypeOK, IdInv, IdOf, Numbered, Calls

\* What a packet is made of, and that PINGREQ, CONNECT and DISCONNECT are
\* packets.
LEMMA PacketType ==
  /\ OtherPacket \in Packet
  /\ \A m \in Packet : m.call \in 0..MaxCalls /\ m.id \in 0..MAX_PACKET_ID
  /\ \A n \in 0..MaxCalls, i \in 0..MAX_PACKET_ID :
       /\ [call |-> n, id |-> i] \in Packet
       /\ [call |-> n, id |-> i].call = n
       /\ [call |-> n, id |-> i].id = i
  BY PublishAssumption DEF OtherPacket, Packet

\* A successful HAL_TLS_Write delivers only packets that were under way or its
\* own, and leaves no record half written.
LEMMA WriteOkEffect ==
  ASSUME TypeOK, WireInv, NEW own \in SUBSET Packet, WriteOk(own),
         \A m \in own : m.call \in Numbered
  PROVE  /\ pending' = {}
         /\ broker' \in SUBSET Packet
         /\ sent' \in SUBSET Calls
         /\ sent \subseteq sent'
         /\ \A n \in sent' \ sent : \E m \in pending \cup own : n = m.call
         /\ broker' \subseteq broker \cup pending \cup own
         /\ \A m \in broker' \ broker : m.call \in sent'
  BY DEF WriteOk, Transmit, TypeOK, WireInv, Numbered

\* A failed HAL_TLS_Write delivers nothing, and may leave a record half
\* written.
LEMMA WriteFailEffect ==
  ASSUME TypeOK, NEW own \in SUBSET Packet, WriteFail(own)
  PROVE  /\ pending' \in SUBSET Packet
         /\ pending' \subseteq pending \cup own
         /\ UNCHANGED <<broker, sent>>
  BY DEF WriteFail, TypeOK

\* A task past get_next_packet_id makes the newest publish.
LEMMA CallType ==
  ASSUME TypeOK, CallInv, NEW p \in Tasks, pc[p] \in {"serialize", "push", "send", "remove"}
  PROVE  call[p] \in Calls /\ call[p] = calls
  BY PublishAssumption DEF TypeOK, CallInv, Calls

\* lock_write_buf keeps every other task out of the locked region.
LEMMA Alone ==
  ASSUME LockInv, NEW p \in Tasks, pc[p] \in Holding, NEW q \in Tasks, q # p
  PROVE  pc[q] \notin Holding
  BY DEF LockInv

\* While lock_write_buf is free no task is in the locked region.
LEMMA NobodyInside ==
  ASSUME LockInv, lock_write_buf = Free
  PROVE  \A q \in Tasks : pc[q] \notin Holding
  BY PublishAssumption DEF LockInv

-----------------------------------------------------------------------------
(***************************************************************************)
(* The invariant holds initially, and every action keeps it.               *)
(***************************************************************************)

\* IOT_MQTT_Construct leaves no node in the list and no lock held.
LEMMA InitIInv == Init => IInv
<1> SUFFICES ASSUME Init PROVE IInv
  OBVIOUS
<1> USE PublishAssumption
<1>1. TypeOK
  BY PacketType DEF Init, TypeOK, NULL
<1>2. LockInv /\ CallInv
  BY DEF Init, LockInv, CallInv, Holding
<1>3. Numbered = {}
  BY DEF Init, Numbered
<1>4. IdInv /\ UsedInv /\ WireInv /\ AckInv /\ PassInv
  BY <1>3 DEF Init, IdInv, UsedInv, WireInv, AckInv, PassInv
<1>5. AckedIsMarked /\ SuccessIsTrue
  BY DEF Init, AckedIsMarked, SuccessIsTrue
<1> QED
  BY <1>1, <1>2, <1>4, <1>5 DEF IInv

\* Passing the connection check of qcloud_iot_mqtt_publish keeps IInv.
LEMMA PubStartKeeps ==
  ASSUME NEW p \in Tasks, IInv, PubStart(p)
  PROVE  IInv'
<1> USE PublishAssumption DEF IInv
<1>1. TypeOK'
  BY DEF PubStart, TypeOK, Goto
<1>2. LockInv'
  BY DEF PubStart, LockInv, Holding, Goto
<1>3. CallInv'
  BY DEF PubStart, CallInv, Goto
<1>4. WireInv'
  BY DEF PubStart, WireInv, Numbered, Goto
<1>5. PassInv'
  BY DEF PubStart, PassInv, Goto
<1>6. IdInv' /\ UsedInv' /\ AckInv' /\ AckedIsMarked' /\ SuccessIsTrue'
  BY DEF PubStart, IdInv, UsedInv, AckInv, AckedIsMarked, SuccessIsTrue, IdOf,
    Numbered
<1> QED
  BY <1>1, <1>2, <1>3, <1>4, <1>5, <1>6 DEF IInv

\* Taking lock_write_buf for a QoS 1 publish keeps IInv.
LEMMA PubLockKeeps ==
  ASSUME NEW p \in Tasks, IInv, PubLock(p)
  PROVE  IInv'
<1> USE PublishAssumption DEF IInv
<1>1. TypeOK'
  BY DEF PubLock, TypeOK, Goto
<1>2. LockInv'
  BY DEF PubLock, LockInv, TypeOK, Holding, Goto
<1>3. CallInv'
  BY DEF PubLock, CallInv, Goto
<1>4. WireInv'
  BY DEF PubLock, WireInv, Numbered, Goto
<1>5. PassInv'
  BY DEF PubLock, PassInv, Goto
<1>6. IdInv' /\ UsedInv' /\ AckInv' /\ AckedIsMarked' /\ SuccessIsTrue'
  BY DEF PubLock, IdInv, UsedInv, AckInv, AckedIsMarked, SuccessIsTrue, IdOf,
    Numbered
<1> QED
  BY <1>1, <1>2, <1>3, <1>4, <1>5, <1>6 DEF IInv

\* A whole QoS 0 publish, which frees lock_write_buf before it ends, keeps
\* IInv.
LEMMA PubQos0Keeps ==
  ASSUME NEW p \in Tasks, IInv, PubQos0(p)
  PROVE  IInv'
<1> USE PublishAssumption DEF IInv
<1>w. /\ pending' \in SUBSET Packet
      /\ broker' \in SUBSET Packet
      /\ sent' \in SUBSET Calls
      /\ sent \subseteq sent'
      /\ \A n \in sent' \ sent : \E m \in pending : n = m.call
      /\ broker' \subseteq broker \cup pending
      /\ \A m \in broker' \ broker : m.call \in sent'
      /\ pending' \subseteq pending
  <2>1. CASE WriteOk({})
    BY <2>1, WriteOkEffect
  <2>2. CASE WriteFail({})
    BY <2>2, WriteFailEffect DEF TypeOK
  <2>3. CASE UNCHANGED netVars
    BY <2>3 DEF TypeOK
  <2> QED BY <2>1, <2>2, <2>3 DEF PubQos0
<1>f. fault' \in {"none", "freed_node", "no_handle"}
  BY DEF PubQos0, TypeOK
<1>n. \A q \in Tasks : pc'[q] \notin Holding
  BY NobodyInside DEF PubQos0, Goto, Holding, TypeOK
<1>1. TypeOK'
  BY <1>w, <1>f, PacketType DEF PubQos0, TypeOK, Goto
<1>2. LockInv'
  BY DEF PubQos0, LockInv, Holding, Goto
<1>3. CallInv'
  BY <1>n DEF CallInv, Holding
<1>4. UsedInv'
  BY <1>w DEF UsedInv, WireInv, Numbered, PubQos0
<1>5. WireInv'
  BY <1>w DEF PubQos0, WireInv, Numbered, Goto
<1>6. AckInv'
  BY <1>w DEF PubQos0, AckInv
<1>7. PassInv'
  BY DEF PubQos0, PassInv, Goto
<1>8. SuccessIsTrue'
  BY <1>w DEF PubQos0, SuccessIsTrue
<1>9. IdInv' /\ AckedIsMarked'
  BY DEF PubQos0, IdInv, AckedIsMarked, IdOf, Numbered
<1> QED
  BY <1>1, <1>2, <1>3, <1>4, <1>5, <1>6, <1>7, <1>8, <1>9 DEF IInv

\* get_next_packet_id, which wraps from MAX_PACKET_ID to 1, keeps IInv.
LEMMA PubNextIdKeeps ==
  ASSUME NEW p \in Tasks, IInv, PubNextId(p)
  PROVE  IInv'
<1> USE PublishAssumption DEF IInv
<1>c. /\ calls + 1 \in Calls
      /\ msg_id[calls + 1] = 0
      /\ \A n \in Numbered : n < calls + 1
  BY DEF PubNextId, TypeOK, IdInv, Numbered, Calls
<1>o. \A q \in Tasks : q # p => pc[q] \notin Holding /\ pc'[q] = pc[q] /\ call'[q] = call[q]
  BY Alone DEF PubNextId, Goto, Holding, TypeOK
<1>p. pc'[p] = "serialize" /\ call'[p] = calls + 1 /\ calls' = calls + 1
  BY DEF PubNextId, Goto, TypeOK
<1>1. TypeOK'
  BY DEF PubNextId, TypeOK, Goto, NextPacketId
<1>2. LockInv'
  BY DEF PubNextId, LockInv, Holding, Goto
<1>3. CallInv'
  <2> SUFFICES ASSUME NEW q \in Tasks, pc'[q] \in Holding
               PROVE  /\ q = p
                      /\ calls + 1 \notin list \cup sent
    BY <1>c, <1>p DEF CallInv, Holding, PubNextId, TypeOK
  <2>1. calls + 1 \notin Numbered
    BY <1>c DEF TypeOK
  <2> QED BY <1>o, <2>1 DEF UsedInv
<1>4. IdInv'
  <2>1. next_packet_id' \in 1..MAX_PACKET_ID
    BY DEF PubNextId, NextPacketId, TypeOK
  <2>2. ASSUME NEW n \in Numbered PROVE IdOf(n)' = IdOf(n)
    <3>1. n \in 1..calls /\ calls < MaxCalls /\ MaxCalls <= MAX_PACKET_ID
      BY DEF IdInv, Numbered, PubNextId, Calls, TypeOK
    <3>2. CASE next_packet_id = MAX_PACKET_ID
      BY <3>1, <3>2 DEF IdOf, PubNextId, NextPacketId, TypeOK
    <3>3. CASE next_packet_id # MAX_PACKET_ID
      BY <3>1, <3>3 DEF IdOf, PubNextId, NextPacketId, TypeOK
    <3> QED BY <3>2, <3>3
  <2>3. Numbered' = Numbered
    BY DEF PubNextId, Numbered
  <2>4. ASSUME NEW n \in Numbered PROVE n <= calls' /\ msg_id'[n] = IdOf(n)'
    BY <2>2, <1>c DEF IdInv, PubNextId, TypeOK, Numbered, Calls
  <2> QED BY <2>1, <2>3, <2>4 DEF IdInv
<1>5. WireInv'
  <2>1. ASSUME NEW q \in Tasks, pc'[q] \in {"serialize", "push", "send"}
        PROVE  q = p
    BY <2>1, <1>o DEF Holding
  <2>2. \A m \in pending : m.call # call'[p]
    BY <1>c, <1>p DEF WireInv, TypeOK, Numbered, Calls
  <2> QED BY <2>1, <2>2 DEF WireInv, PubNextId, Numbered
<1>6. PassInv'
  BY DEF PubNextId, PassInv, TypeOK, Goto
<1>7. UsedInv' /\ AckInv' /\ AckedIsMarked' /\ SuccessIsTrue'
  BY DEF PubNextId, UsedInv, AckInv, AckedIsMarked, SuccessIsTrue, Numbered
<1> QED
  BY <1>1, <1>2, <1>3, <1>4, <1>5, <1>6, <1>7 DEF IInv

\* Serializing the PUBLISH into write_buf keeps IInv.
LEMMA PubSerializeKeeps ==
  ASSUME NEW p \in Tasks, IInv, PubSerialize(p)
  PROVE  IInv'
<1> USE PublishAssumption DEF IInv
<1>c. pc[p] \in {"serialize", "push", "send", "remove"} /\ call[p] \in Calls /\ call[p] = calls
  BY CallType DEF PubSerialize, Goto
<1>o. \A q \in Tasks : q # p => pc[q] \notin Holding /\ pc'[q] = pc[q]
  BY Alone, <1>c DEF PubSerialize, Goto, Holding, TypeOK
<1>1. TypeOK'
  <2>1. [call |-> call[p], id |-> next_packet_id] \in Packet
    BY <1>c, PacketType DEF TypeOK, Calls
  <2>2. pc' \in [Tasks -> {"idle", "push", "lock", "id", "serialize", "send", "remove"}]
    BY DEF PubSerialize, Goto, TypeOK
  <2>3. /\ write_buf' \in Packet
        /\ lock_write_buf' \in Tasks \cup {Free}
        /\ failed' \in SUBSET Calls
    BY <1>c, <2>1 DEF PubSerialize, TypeOK
  <2>4. msg_id' \in [Calls -> 0..MAX_PACKET_ID]
    BY DEF PubSerialize, TypeOK
  <2> QED BY <2>2, <2>3, <2>4 DEF PubSerialize, TypeOK
<1>2. LockInv'
  BY <1>c DEF PubSerialize, LockInv, TypeOK, Holding, Goto
<1>3. CallInv'
  <2>1. next_packet_id # 0
    BY <1>c DEF IdInv, Calls
  <2>2. ASSUME NEW q \in Tasks, pc'[q] \in Holding
        PROVE  q = p /\ pc'[p] = "push"
    BY <2>2, <1>o DEF PubSerialize, Goto, Holding, TypeOK
  <2>3. pc'[p] = "push" =>
          /\ msg_id'[call[p]] = next_packet_id
          /\ write_buf' = [call |-> call[p], id |-> next_packet_id]
    BY <1>c DEF PubSerialize, Goto, TypeOK
  <2>4. call[p] \notin list \cup sent /\ calls # 0
    BY <1>c DEF PubSerialize, CallInv, Calls
  <2> QED BY <1>c, <2>1, <2>2, <2>3, <2>4 DEF PubSerialize, CallInv, Holding
<1>4. IdInv'
  <2>1. next_packet_id \in 1..MAX_PACKET_ID
    BY <1>c DEF IdInv, TypeOK, Calls
  <2>2. \A n \in Calls : IdOf(n)' = IdOf(n)
    BY DEF IdOf, PubSerialize
  <2>3. IdOf(call[p]) = next_packet_id
    BY <2>1, <1>c DEF IdOf, Calls, TypeOK
  <2>4. ASSUME NEW n \in Numbered' PROVE n <= calls /\ msg_id'[n] = IdOf(n)
    <3>1. CASE n = call[p]
      BY <3>1, <1>c, <2>3 DEF PubSerialize, TypeOK, Calls
    <3>2. CASE n # call[p]
      BY <3>2, <1>c DEF PubSerialize, TypeOK, Numbered, IdInv
    <3> QED BY <3>1, <3>2
  <2> QED BY <2>1, <2>2, <2>4 DEF IdInv, PubSerialize, Numbered
<1>5. UsedInv'
  BY <1>c DEF PubSerialize, UsedInv, CallInv, Numbered
<1>6. WireInv'
  BY <1>c DEF PubSerialize, WireInv, TypeOK, CallInv, Numbered, Goto
<1>7. AckInv'
  BY <1>c DEF PubSerialize, AckInv, CallInv
<1>8. PassInv'
  BY <1>c DEF PubSerialize, PassInv, TypeOK, Goto
<1>9. AckedIsMarked'
  BY <1>c DEF PubSerialize, AckedIsMarked, CallInv
<1>10. SuccessIsTrue'
  BY <1>c DEF PubSerialize, SuccessIsTrue, CallInv
<1> QED
  BY <1>1, <1>2, <1>3, <1>4, <1>5, <1>6, <1>7, <1>8, <1>9, <1>10 DEF IInv

\* _mask_push_pubInfo_to, which appends the node at the tail, keeps IInv.
LEMMA PubPushKeeps ==
  ASSUME NEW p \in Tasks, IInv, PubPush(p)
  PROVE  IInv'
<1> USE PublishAssumption DEF IInv
<1>c. pc[p] \in {"serialize", "push", "send", "remove"} /\ call[p] \in Calls /\ call[p] = calls
  BY CallType DEF PubPush, Goto
<1>o. \A q \in Tasks : q # p => pc[q] \notin Holding /\ pc'[q] = pc[q]
  BY Alone, <1>c DEF PubPush, Goto, Holding, TypeOK
<1>1. TypeOK'
  BY <1>c, ZenonT(40) DEF PubPush, TypeOK, Goto
<1>2. LockInv'
  BY <1>c DEF PubPush, LockInv, TypeOK, Holding, Goto
<1>3. CallInv'
  <2>1. ASSUME NEW q \in Tasks, pc'[q] \in Holding
        PROVE  q = p /\ pc'[p] = "send"
    BY <2>1, <1>o DEF PubPush, Goto, Holding, TypeOK
  <2> QED BY <1>c, <2>1 DEF PubPush, Goto, CallInv, Holding
<1>4. UsedInv'
  BY <1>c DEF PubPush, UsedInv, CallInv, Numbered, Goto
<1>5. WireInv'
  BY <1>c DEF PubPush, WireInv, TypeOK, Numbered, Goto
<1>6. AckInv'
  <2>1. /\ call[p] \in Numbered
        /\ call[p] \notin sent
    BY <1>c DEF PubPush, Goto, CallInv, Numbered
  <2>2. ypc = "success" => msg_id[call[p]] # ack.id
    BY <2>1, IdsApart DEF AckInv, UsedInv
  <2> QED BY <2>2, <1>c DEF AckInv, PubPush, TypeOK
<1>7. PassInv'
  BY <1>c DEF PubPush, PassInv, TypeOK, Goto
<1>8. AckedIsMarked'
  <2>1. /\ call[p] \in Numbered
        /\ call[p] \notin sent
    BY <1>c DEF PubPush, Goto, CallInv, Numbered
  <2>2. msg_id[call[p]] \notin success
    BY <2>1, IdsApart DEF SuccessIsTrue, UsedInv
  <2> QED BY <2>2, <1>c DEF AckedIsMarked, PubPush, TypeOK
<1>9. IdInv' /\ SuccessIsTrue'
  BY DEF PubPush, IdInv, SuccessIsTrue, IdOf, Numbered
<1> QED
  BY <1>1, <1>2, <1>3, <1>4, <1>5, <1>6, <1>7, <1>8, <1>9 DEF IInv

\* A send that writes the PUBLISH keeps IInv.
LEMMA PubSendOkKeeps ==
  ASSUME NEW p \in Tasks, IInv, PubSendOk(p)
  PROVE  IInv'
<1> USE PublishAssumption DEF IInv
<1>c. pc[p] \in {"serialize", "push", "send", "remove"} /\ call[p] \in Calls /\ call[p] = calls
  BY CallType DEF PubSendOk, Goto
<1>o. \A q \in Tasks : q # p => pc[q] \notin Holding /\ pc'[q] = pc[q]
  BY Alone, <1>c DEF PubSendOk, Goto, Holding, TypeOK
<1>b. write_buf \in Packet /\ write_buf.call = call[p]
      /\ write_buf.id = msg_id[call[p]] /\ call[p] \in Numbered
  BY <1>c DEF PubSendOk, Goto, CallInv, TypeOK, Numbered
<1>w. /\ pending' = {}
      /\ broker' \in SUBSET Packet
      /\ sent' \in SUBSET Calls
      /\ sent \subseteq sent'
      /\ \A n \in sent' \ sent : \E m \in pending \cup {write_buf} : n = m.call
      /\ broker' \subseteq broker \cup pending \cup {write_buf}
      /\ \A m \in broker' \ broker : m.call \in sent'
  BY <1>b, WriteOkEffect DEF PubSendOk
<1>n. \A q \in Tasks : pc'[q] \notin Holding
  BY <1>o DEF PubSendOk, Goto, Holding, TypeOK
<1>1. TypeOK'
  BY <1>c, <1>w DEF PubSendOk, TypeOK, Goto
<1>2. LockInv'
  BY <1>c DEF PubSendOk, LockInv, TypeOK, Holding, Goto
<1>3. CallInv'
  BY <1>n DEF CallInv, Holding
<1>4. UsedInv'
  BY <1>b, <1>w DEF UsedInv, WireInv, PubSendOk, Numbered
<1>5. WireInv'
  BY <1>b, <1>w DEF WireInv, PubSendOk, Numbered
<1>6. AckInv'
  BY <1>w DEF AckInv, PubSendOk
<1>7. PassInv'
  BY <1>c DEF PubSendOk, PassInv, Goto
<1>8. SuccessIsTrue'
  BY <1>w DEF SuccessIsTrue, PubSendOk
<1>9. IdInv' /\ AckedIsMarked'
  BY DEF PubSendOk, IdInv, AckedIsMarked, IdOf, Numbered
<1> QED
  BY <1>1, <1>2, <1>3, <1>4, <1>5, <1>6, <1>7, <1>8, <1>9 DEF IInv

\* A send whose command timer has already run out keeps IInv.
LEMMA PubSendNothingKeeps ==
  ASSUME NEW p \in Tasks, IInv, PubSendNothing(p)
  PROVE  IInv'
<1> USE PublishAssumption DEF IInv
<1>c. pc[p] \in {"serialize", "push", "send", "remove"} /\ call[p] \in Calls /\ call[p] = calls
  BY CallType DEF PubSendNothing, Goto
<1>1. TypeOK'
  BY <1>c DEF PubSendNothing, TypeOK, Goto
<1>2. LockInv'
  BY <1>c DEF PubSendNothing, LockInv, TypeOK, Holding, Goto
<1>3. CallInv'
  BY <1>c DEF PubSendNothing, CallInv, Goto
<1>4. WireInv'
  BY <1>c DEF PubSendNothing, WireInv, Numbered, Goto
<1>5. PassInv'
  BY <1>c DEF PubSendNothing, PassInv, Goto
<1>6. IdInv' /\ UsedInv' /\ AckInv' /\ AckedIsMarked' /\ SuccessIsTrue'
  BY DEF PubSendNothing, IdInv, UsedInv, AckInv, AckedIsMarked, SuccessIsTrue,
    IdOf, Numbered
<1> QED
  BY <1>1, <1>2, <1>3, <1>4, <1>5, <1>6 DEF IInv

\* A send that fails keeps IInv.
LEMMA PubSendFailKeeps ==
  ASSUME NEW p \in Tasks, IInv, PubSendFail(p)
  PROVE  IInv'
<1> USE PublishAssumption DEF IInv
<1>c. pc[p] \in {"serialize", "push", "send", "remove"} /\ call[p] \in Calls /\ call[p] = calls
  BY CallType DEF PubSendFail, Goto
<1>o. \A q \in Tasks : q # p => pc[q] \notin Holding /\ pc'[q] = pc[q]
  BY Alone, <1>c DEF PubSendFail, Goto, Holding, TypeOK
<1>b. write_buf \in Packet /\ write_buf.call = call[p]
      /\ write_buf.id = msg_id[call[p]] /\ call[p] \in Numbered
  BY <1>c DEF PubSendFail, Goto, CallInv, TypeOK, Numbered
<1>w. /\ pending' \in SUBSET Packet
      /\ pending' \subseteq pending \cup {write_buf}
      /\ UNCHANGED <<broker, sent>>
  BY <1>b, WriteFailEffect DEF PubSendFail
<1>1. TypeOK'
  BY <1>w DEF PubSendFail, TypeOK, Goto
<1>2. LockInv'
  BY <1>c DEF PubSendFail, LockInv, Holding, Goto
<1>3. CallInv'
  <2>1. ASSUME NEW q \in Tasks, pc'[q] \in Holding
        PROVE  q = p /\ pc'[p] = "remove"
    BY <2>1, <1>o DEF PubSendFail, Goto, Holding, TypeOK
  <2> QED BY <1>c, <1>w, <2>1 DEF PubSendFail, Goto, CallInv, Holding
<1>4. UsedInv'
  BY <1>w DEF UsedInv, PubSendFail, Numbered
<1>5. WireInv'
  <2>1. ASSUME NEW q \in Tasks, pc'[q] \in {"serialize", "push", "send"}
        PROVE  FALSE
    BY <2>1, <1>o DEF PubSendFail, Goto, Holding, TypeOK
  <2> QED BY <2>1, <1>b, <1>w DEF WireInv, PubSendFail, Numbered
<1>6. AckInv'
  BY <1>w DEF AckInv, PubSendFail
<1>7. PassInv'
  BY <1>c DEF PubSendFail, PassInv, Goto
<1>8. SuccessIsTrue'
  BY <1>w DEF SuccessIsTrue, PubSendFail
<1>9. IdInv' /\ AckedIsMarked'
  BY DEF PubSendFail, IdInv, AckedIsMarked, IdOf, Numbered
<1> QED
  BY <1>1, <1>2, <1>3, <1>4, <1>5, <1>6, <1>7, <1>8, <1>9 DEF IInv

\* A send on a session the yield task has released keeps IInv.
LEMMA PubSendNoHandleKeeps ==
  ASSUME NEW p \in Tasks, IInv, PubSendNoHandle(p)
  PROVE  IInv'
<1> USE PublishAssumption DEF IInv
<1>1. TypeOK'
  BY DEF PubSendNoHandle, TypeOK
<1>2. LockInv' /\ CallInv' /\ IdInv' /\ UsedInv' /\ WireInv' /\ AckInv' /\
  PassInv' /\ AckedIsMarked' /\ SuccessIsTrue'
  BY DEF PubSendNoHandle, LockInv, CallInv, IdInv, UsedInv, WireInv, AckInv,
    PassInv, AckedIsMarked, SuccessIsTrue, IdOf, Numbered
<1> QED
  BY <1>1, <1>2 DEF IInv

\* Taking the node of a failed send out of the list again keeps IInv.
LEMMA PubRemoveKeeps ==
  ASSUME NEW p \in Tasks, IInv, PubRemove(p)
  PROVE  IInv'
<1> USE PublishAssumption DEF IInv
<1>c. pc[p] \in {"serialize", "push", "send", "remove"} /\ call[p] \in Calls /\ call[p] = calls
  BY CallType DEF PubRemove, Goto
<1>1. TypeOK'
  BY <1>c DEF PubRemove, TypeOK, Goto
<1>2. LockInv'
  BY <1>c DEF PubRemove, LockInv, TypeOK, Holding, Goto
<1>3. CallInv'
  BY <1>c DEF PubRemove, CallInv, Goto
<1>4. UsedInv'
  BY <1>c DEF PubRemove, UsedInv, Numbered
<1>5. WireInv'
  BY <1>c DEF PubRemove, WireInv, Numbered, Goto
<1>6. AckInv'
  BY <1>c DEF PubRemove, AckInv
<1>7. PassInv'
  BY <1>c DEF PubRemove, PassInv, TypeOK, LockInv, Goto
<1>8. AckedIsMarked'
  BY <1>c DEF PubRemove, AckedIsMarked
<1>9. IdInv' /\ SuccessIsTrue'
  BY DEF PubRemove, IdInv, SuccessIsTrue, IdOf, Numbered
<1> QED
  BY <1>1, <1>2, <1>3, <1>4, <1>5, <1>6, <1>7, <1>8, <1>9 DEF IInv

\* Reading nothing, or a packet that is no PUBACK, keeps IInv.
LEMMA YReadOtherKeeps ==
  ASSUME IInv, YReadOther
  PROVE  IInv'
<1> USE PublishAssumption DEF IInv
<1>1. TypeOK'
  BY DEF YReadOther, TypeOK, YGoto
<1>2. LockInv'
  BY DEF YReadOther, LockInv, YGoto
<1>3. AckInv'
  BY DEF YReadOther, AckInv, YGoto
<1>4. PassInv'
  BY DEF YReadOther, PassInv, YGoto
<1>5. CallInv' /\ IdInv' /\ UsedInv' /\ WireInv' /\ AckedIsMarked' /\
  SuccessIsTrue'
  BY DEF YReadOther, CallInv, IdInv, UsedInv, WireInv, AckedIsMarked,
    SuccessIsTrue, IdOf, Numbered
<1> QED
  BY <1>1, <1>2, <1>3, <1>4, <1>5 DEF IInv

\* The PUBACK or PUBREC for a message received, with its contents in write_buf,
\* keeps IInv.
LEMMA YAckPublishKeeps ==
  ASSUME IInv, YAckPublish
  PROVE  IInv'
<1> USE PublishAssumption DEF IInv
<1>w. /\ pending' \in SUBSET Packet
      /\ broker' \in SUBSET Packet
      /\ sent' \in SUBSET Calls
      /\ sent \subseteq sent'
      /\ \A n \in sent' \ sent : \E m \in pending : n = m.call
      /\ broker' \subseteq broker \cup pending
      /\ \A m \in broker' \ broker : m.call \in sent'
      /\ pending' \subseteq pending
  <2>1. CASE WriteOk({})
    BY <2>1, WriteOkEffect
  <2>2. CASE WriteFail({})
    BY <2>2, WriteFailEffect DEF TypeOK
  <2> QED BY <2>1, <2>2 DEF YAckPublish
<1>n. \A q \in Tasks : pc'[q] \notin Holding
  BY NobodyInside DEF YAckPublish
<1>1. TypeOK'
  BY <1>w, PacketType DEF YAckPublish, TypeOK, YGoto
<1>2. LockInv'
  BY DEF YAckPublish, LockInv, YGoto
<1>3. CallInv'
  BY <1>n DEF CallInv, Holding
<1>4. UsedInv'
  BY <1>w DEF UsedInv, WireInv, Numbered, YAckPublish
<1>5. WireInv'
  BY <1>w DEF YAckPublish, WireInv, Numbered
<1>6. AckInv'
  BY <1>w DEF YAckPublish, AckInv, YGoto
<1>7. PassInv'
  BY DEF YAckPublish, PassInv, YGoto
<1>8. SuccessIsTrue'
  BY <1>w DEF YAckPublish, SuccessIsTrue
<1>9. IdInv' /\ AckedIsMarked'
  BY DEF YAckPublish, IdInv, AckedIsMarked, IdOf, Numbered
<1> QED
  BY <1>1, <1>2, <1>3, <1>4, <1>5, <1>6, <1>7, <1>8, <1>9 DEF IInv

\* _mask_pubInfo_from, which marks every node with the id of the PUBACK, keeps
\* IInv.
LEMMA YReadPubackKeeps ==
  ASSUME IInv, YReadPuback
  PROVE  IInv'
<1> USE PublishAssumption DEF IInv
<1>1. TypeOK'
  BY DEF YReadPuback, TypeOK, YGoto
<1>2. LockInv'
  BY DEF YReadPuback, LockInv, YGoto
<1>3. WireInv'
  BY DEF YReadPuback, WireInv, Numbered
<1>4. AckInv'
  BY DEF YReadPuback, AckInv, UsedInv, WireInv, Numbered
<1>5. PassInv'
  BY DEF YReadPuback, PassInv, YGoto
<1>6. AckedIsMarked'
  BY DEF YReadPuback, AckedIsMarked, UsedInv, Numbered
<1>7. CallInv' /\ IdInv' /\ UsedInv' /\ SuccessIsTrue'
  BY DEF YReadPuback, CallInv, IdInv, UsedInv, SuccessIsTrue, IdOf, Numbered
<1> QED
  BY <1>1, <1>2, <1>3, <1>4, <1>5, <1>6, <1>7 DEF IInv

\* Raising PUBLISH_SUCCESS keeps IInv.
LEMMA YSuccessEventKeeps ==
  ASSUME IInv, YSuccessEvent
  PROVE  IInv'
<1> USE PublishAssumption DEF IInv
<1>1. TypeOK'
  <2>1. ack.id \in 0..MAX_PACKET_ID /\ OtherPacket \in Packet
    BY PacketType DEF TypeOK
  <2>2. success' \in SUBSET (0..MAX_PACKET_ID) /\ ack' \in Packet
    BY <2>1 DEF YSuccessEvent, TypeOK
  <2> QED BY <2>2 DEF YSuccessEvent, YGoto, TypeOK
<1>2. LockInv'
  BY DEF YSuccessEvent, LockInv, YGoto
<1>3. AckInv'
  BY DEF YSuccessEvent, AckInv, YGoto
<1>4. PassInv'
  BY DEF YSuccessEvent, PassInv, YGoto
<1>5. AckedIsMarked'
  BY DEF YSuccessEvent, AckedIsMarked, AckInv, YGoto
<1>6. SuccessIsTrue'
  BY DEF YSuccessEvent, SuccessIsTrue, AckInv, YGoto
<1>7. CallInv' /\ IdInv' /\ UsedInv' /\ WireInv'
  BY DEF YSuccessEvent, CallInv, IdInv, UsedInv, WireInv, IdOf, Numbered
<1> QED
  BY <1>1, <1>2, <1>3, <1>4, <1>5, <1>6, <1>7 DEF IInv

\* A read that fails keeps IInv.
LEMMA YReadFailKeeps ==
  ASSUME IInv, YReadFail
  PROVE  IInv'
<1> USE PublishAssumption DEF IInv
<1>1. TypeOK'
  BY DEF YReadFail, TypeOK, YGoto
<1>2. LockInv'
  BY DEF YReadFail, LockInv, YGoto
<1>3. AckInv'
  BY DEF YReadFail, AckInv, YGoto
<1>4. PassInv'
  BY DEF YReadFail, PassInv, YGoto
<1>5. CallInv' /\ IdInv' /\ UsedInv' /\ WireInv' /\ AckedIsMarked' /\
  SuccessIsTrue'
  BY DEF YReadFail, CallInv, IdInv, UsedInv, WireInv, AckedIsMarked,
    SuccessIsTrue, IdOf, Numbered
<1> QED
  BY <1>1, <1>2, <1>3, <1>4, <1>5 DEF IInv

\* The start of the pass of qcloud_iot_mqtt_pub_info_proc keeps IInv.
LEMMA YProcBeginKeeps ==
  ASSUME IInv, YProcBegin
  PROVE  IInv'
<1> USE PublishAssumption DEF IInv
<1>1. TypeOK'
  <2>1. iter' \in list \cup {iter} /\ temp_node' \in {NULL, temp_node}
    BY DEF YProcBegin
  <2>2. list \subseteq 0..MaxCalls /\ NULL \in 0..MaxCalls
    BY DEF TypeOK, Calls, NULL
  <2>3. iter' \in 0..MaxCalls /\ temp_node' \in 0..MaxCalls
    BY <2>1, <2>2 DEF TypeOK
  <2>4. ypc' \in {"visit", "keep_alive"} /\ lock_list_pub' \in {lock_list_pub, Yielder}
    BY DEF YProcBegin, YGoto
  <2> QED BY <2>3, <2>4 DEF YProcBegin, TypeOK
<1>2. LockInv'
  BY DEF YProcBegin, LockInv, YGoto
<1>3. AckInv'
  BY DEF YProcBegin, AckInv, YGoto
<1>4. PassInv'
  BY DEF YProcBegin, PassInv, YGoto
<1>5. CallInv' /\ IdInv' /\ UsedInv' /\ WireInv' /\ AckedIsMarked' /\
  SuccessIsTrue'
  BY DEF YProcBegin, CallInv, IdInv, UsedInv, WireInv, AckedIsMarked,
    SuccessIsTrue, IdOf, Numbered
<1> QED
  BY <1>1, <1>2, <1>3, <1>4, <1>5 DEF IInv

\* A visit of the pass, which drops, keeps or times out a node, keeps IInv.
LEMMA YVisitKeeps ==
  ASSUME IInv, YVisit
  PROVE  IInv'
<1> USE PublishAssumption DEF IInv
<1>1. TypeOK'
  <2>1. /\ iter' \in list \cup {NULL, iter}
        /\ temp_node' \in {NULL, temp_node, iter}
        /\ node' \in {node, iter}
        /\ list' \subseteq list
        /\ UNCHANGED <<ack, success, timedout>>
    BY DEF YVisit, Prev
  <2>2. list \subseteq 0..MaxCalls /\ NULL \in 0..MaxCalls
    BY DEF TypeOK, Calls, NULL
  <2>3. /\ iter' \in 0..MaxCalls
        /\ temp_node' \in 0..MaxCalls
        /\ node' \in 0..MaxCalls
        /\ list' \in SUBSET Calls
    BY <2>1, <2>2 DEF TypeOK
  <2>4. /\ ypc' \in {"visit", "keep_alive", "window"}
        /\ lock_list_pub' \in {Free, Yielder}
        /\ fault' \in {"none", "freed_node", "no_handle"}
    BY DEF YVisit, TypeOK
  <2> QED BY <2>1, <2>3, <2>4 DEF YVisit, TypeOK
<1>2. LockInv'
  BY DEF YVisit, LockInv
<1>3. CallInv'
  BY DEF YVisit, CallInv
<1>4. UsedInv'
  BY DEF YVisit, UsedInv, Numbered
<1>5. AckInv'
  BY DEF YVisit, AckInv
<1>6. PassInv'
  BY DEF YVisit, PassInv, TypeOK, CallInv, IdInv, UsedInv, Prev
<1>7. AckedIsMarked'
  BY DEF YVisit, AckedIsMarked
<1>8. IdInv' /\ WireInv' /\ SuccessIsTrue'
  BY DEF YVisit, IdInv, WireInv, SuccessIsTrue, IdOf, Numbered
<1> QED
  BY <1>1, <1>2, <1>3, <1>4, <1>5, <1>6, <1>7, <1>8 DEF IInv

\* Raising PUBLISH_TIMEOUT with lock_list_pub free keeps IInv.
LEMMA YTimeoutEventKeeps ==
  ASSUME IInv, YTimeoutEvent
  PROVE  IInv'
<1> USE PublishAssumption DEF IInv
<1>1. TypeOK'
  <2>1. ~Stale(node) => node \in Calls
    BY DEF YTimeoutEvent, YGoto, PassInv, Stale, TypeOK
  <2>2. ~Stale(node) => msg_id[node] \in 0..MAX_PACKET_ID
    BY <2>1 DEF TypeOK
  <2>3. NULL \in 0..MaxCalls
    BY DEF NULL
  <2>4. /\ ack_expired' \in [Calls -> BOOLEAN]
        /\ timedout' \in SUBSET (0..MAX_PACKET_ID)
        /\ node' \in 0..MaxCalls
    BY <2>2, <2>3 DEF YTimeoutEvent, TypeOK
  <2>5. /\ ypc' \in {"visit", "window"}
        /\ lock_list_pub' \in {Free, Yielder}
        /\ fault' \in {"none", "freed_node", "no_handle"}
        /\ UNCHANGED <<ack, iter, temp_node, success>>
    BY DEF YTimeoutEvent, YGoto, TypeOK
  <2> QED BY <2>4, <2>5 DEF YTimeoutEvent, TypeOK
<1>2. LockInv'
  BY DEF YTimeoutEvent, LockInv, YGoto
<1>3. AckInv'
  BY DEF YTimeoutEvent, AckInv, YGoto
<1>4. PassInv'
  BY DEF YTimeoutEvent, PassInv, YGoto
<1>5. CallInv' /\ IdInv' /\ UsedInv' /\ WireInv' /\ AckedIsMarked' /\
  SuccessIsTrue'
  BY DEF YTimeoutEvent, CallInv, IdInv, UsedInv, WireInv, AckedIsMarked,
    SuccessIsTrue, IdOf, Numbered
<1> QED
  BY <1>1, <1>2, <1>3, <1>4, <1>5 DEF IInv

\* _mqtt_keep_alive, which writes PINGREQ into write_buf, keeps IInv.
LEMMA YKeepAliveKeeps ==
  ASSUME IInv, YKeepAlive
  PROVE  IInv'
<1> USE PublishAssumption DEF IInv
<1>w. /\ pending' \in SUBSET Packet
      /\ broker' \in SUBSET Packet
      /\ sent' \in SUBSET Calls
      /\ sent \subseteq sent'
      /\ \A n \in sent' \ sent : \E m \in pending : n = m.call
      /\ broker' \subseteq broker \cup pending
      /\ \A m \in broker' \ broker : m.call \in sent'
      /\ pending' \subseteq pending
  <2>1. CASE WriteOk({})
    BY <2>1, WriteOkEffect
  <2>2. CASE UNCHANGED netVars
    BY <2>2 DEF TypeOK
  <2> QED BY <2>1, <2>2 DEF YKeepAlive
<1>u. /\ UNCHANGED <<ack, iter, temp_node, node, success, timedout>>
      /\ UNCHANGED <<connVars, lock_write_buf, lock_list_pub, listVars,
                     taskVars, fault>>
      /\ ypc = "keep_alive" /\ ypc' \in {"read", "disconnect"}
      /\ write_buf' \in {write_buf, OtherPacket}
  BY DEF YKeepAlive, YGoto
<1>n. \/ UNCHANGED <<write_buf, netVars>>
      \/ \A q \in Tasks : pc'[q] \notin Holding
  BY NobodyInside, <1>u DEF YKeepAlive
<1>1. TypeOK'
  BY <1>u, <1>w, PacketType DEF TypeOK, Calls, NULL
<1>2. LockInv'
  BY <1>u DEF LockInv, TypeOK, Calls, Holding
<1>3. CallInv'
  <2>1. CASE UNCHANGED <<write_buf, netVars>>
    BY <2>1, <1>u DEF CallInv
  <2>2. CASE \A q \in Tasks : pc'[q] \notin Holding
    BY <2>2 DEF CallInv, Holding
  <2> QED BY <1>n, <2>1, <2>2
<1>4. IdInv'
  BY <1>u DEF IdInv, TypeOK, CallInv, LockInv, Numbered, IdOf, Calls
<1>5. UsedInv'
  BY <1>w, <1>u DEF UsedInv, WireInv, Numbered
<1>6. WireInv'
  BY <1>u, <1>w DEF WireInv, TypeOK, CallInv, LockInv, Numbered, UsedInv, Calls
<1>7. AckInv'
  BY <1>u, <1>w DEF AckInv, TypeOK, CallInv, UsedInv, WireInv, LockInv, Numbered, Calls
<1>8. PassInv'
  BY <1>u DEF PassInv, TypeOK, LockInv, CallInv, IdInv, UsedInv, Numbered, Calls, NULL
<1>9. AckedIsMarked'
  BY <1>u DEF AckedIsMarked, TypeOK, CallInv, LockInv, UsedInv, SuccessIsTrue, AckInv, Numbered, Calls
<1>10. SuccessIsTrue'
  BY <1>u, <1>w DEF SuccessIsTrue, TypeOK, CallInv, UsedInv, AckInv, Numbered, Calls
<1> QED
  BY <1>1, <1>2, <1>3, <1>4, <1>5, <1>6, <1>7, <1>8, <1>9, <1>10 DEF IInv

\* The DISCONNECT packet of _handle_disconnect keeps IInv.
LEMMA YDisconnectKeeps ==
  ASSUME IInv, YDisconnect
  PROVE  IInv'
<1> USE PublishAssumption DEF IInv
<1>w. /\ pending' \in SUBSET Packet
      /\ broker' \in SUBSET Packet
      /\ sent' \in SUBSET Calls
      /\ sent \subseteq sent'
      /\ \A n \in sent' \ sent : \E m \in pending : n = m.call
      /\ broker' \subseteq broker \cup pending
      /\ \A m \in broker' \ broker : m.call \in sent'
      /\ pending' \subseteq pending
  <2>1. CASE WriteOk({})
    BY <2>1, WriteOkEffect
  <2>2. CASE WriteFail({})
    BY <2>2, WriteFailEffect DEF TypeOK
  <2> QED BY <2>1, <2>2 DEF YDisconnect
<1>n. \A q \in Tasks : pc'[q] \notin Holding
  BY NobodyInside DEF YDisconnect
<1>1. TypeOK'
  BY <1>w, PacketType DEF YDisconnect, TypeOK, YGoto
<1>2. LockInv'
  BY DEF YDisconnect, LockInv, YGoto
<1>3. CallInv'
  BY <1>n DEF CallInv, Holding
<1>4. UsedInv'
  BY <1>w DEF UsedInv, WireInv, Numbered, YDisconnect
<1>5. WireInv'
  BY <1>w DEF YDisconnect, WireInv, Numbered
<1>6. AckInv'
  BY <1>w DEF YDisconnect, AckInv, YGoto
<1>7. PassInv'
  BY DEF YDisconnect, PassInv, YGoto
<1>8. SuccessIsTrue'
  BY <1>w DEF YDisconnect, SuccessIsTrue
<1>9. IdInv' /\ AckedIsMarked'
  BY DEF YDisconnect, IdInv, AckedIsMarked, IdOf, Numbered
<1> QED
  BY <1>1, <1>2, <1>3, <1>4, <1>5, <1>6, <1>7, <1>8, <1>9 DEF IInv

\* Releasing the TLS session keeps IInv.
LEMMA YTeardownKeeps ==
  ASSUME IInv, YTeardown
  PROVE  IInv'
<1> USE PublishAssumption DEF IInv
<1>1. TypeOK'
  <2>1. /\ disconnects' \in 0..MaxDisconnects
        /\ broker' \in SUBSET Packet
        /\ pending' \in SUBSET Packet
    BY DEF YTeardown, TypeOK
  <2> QED BY <2>1 DEF YTeardown, YGoto, TypeOK
<1>2. LockInv'
  BY DEF YTeardown, LockInv, YGoto
<1>3. WireInv'
  BY DEF YTeardown, WireInv
<1>4. AckInv'
  BY DEF YTeardown, AckInv, YGoto
<1>5. PassInv'
  BY DEF YTeardown, PassInv, YGoto
<1>6. CallInv' /\ IdInv' /\ UsedInv' /\ AckedIsMarked' /\ SuccessIsTrue'
  BY DEF YTeardown, CallInv, IdInv, UsedInv, AckedIsMarked, SuccessIsTrue,
    IdOf, Numbered
<1> QED
  BY <1>1, <1>2, <1>3, <1>4, <1>5, <1>6 DEF IInv

\* set_client_conn_state(NOTCONNECTED) keeps IInv.
LEMMA YSetStateKeeps ==
  ASSUME IInv, YSetState
  PROVE  IInv'
<1> USE PublishAssumption DEF IInv
<1>1. TypeOK'
  BY DEF YSetState, TypeOK, YGoto
<1>2. LockInv'
  BY DEF YSetState, LockInv, YGoto
<1>3. AckInv'
  BY DEF YSetState, AckInv, YGoto
<1>4. PassInv'
  BY DEF YSetState, PassInv, YGoto
<1>5. CallInv' /\ IdInv' /\ UsedInv' /\ WireInv' /\ AckedIsMarked' /\
  SuccessIsTrue'
  BY DEF YSetState, CallInv, IdInv, UsedInv, WireInv, AckedIsMarked,
    SuccessIsTrue, IdOf, Numbered
<1> QED
  BY <1>1, <1>2, <1>3, <1>4, <1>5 DEF IInv

\* A reconnection, with its CONNECT in write_buf, keeps IInv.
LEMMA YReconnectKeeps ==
  ASSUME IInv, YReconnect
  PROVE  IInv'
<1> USE PublishAssumption DEF IInv
<1>1. TypeOK'
  BY PacketType DEF YReconnect, TypeOK, YGoto
<1>2. LockInv'
  BY DEF YReconnect, LockInv, YGoto
<1>3. CallInv'
  <2>1. \A q \in Tasks : pc'[q] \notin Holding
    BY NobodyInside DEF YReconnect
  <2> QED BY <2>1 DEF CallInv, Holding
<1>4. AckInv'
  BY DEF YReconnect, AckInv, YGoto
<1>5. PassInv'
  BY DEF YReconnect, PassInv, YGoto
<1>6. IdInv' /\ UsedInv' /\ WireInv' /\ AckedIsMarked' /\ SuccessIsTrue'
  BY DEF YReconnect, IdInv, UsedInv, WireInv, AckedIsMarked, SuccessIsTrue,
    IdOf, Numbered
<1> QED
  BY <1>1, <1>2, <1>3, <1>4, <1>5, <1>6 DEF IInv

\* An ACK timer that runs out keeps IInv: no conjunct but the type looks at it.
LEMMA AckTimerExpiresKeeps ==
  ASSUME NEW n \in Calls, IInv, AckTimerExpires(n)
  PROVE  IInv'
<1> USE DEF IInv, AckTimerExpires
<1>1. TypeOK'
  BY DEF TypeOK
<1>2. LockInv' /\ CallInv' /\ UsedInv' /\ WireInv' /\ PassInv'
  BY DEF LockInv, CallInv, UsedInv, WireInv, PassInv, Numbered
<1>3. IdInv' /\ AckInv' /\ AckedIsMarked' /\ SuccessIsTrue'
  BY DEF IdInv, AckInv, AckedIsMarked, SuccessIsTrue, IdOf, Numbered
<1> QED
  BY <1>1, <1>2, <1>3

\* A step that changes nothing keeps IInv.
LEMMA StutterKeeps ==
  ASSUME IInv, UNCHANGED vars
  PROVE  IInv'
<1> USE DEF vars
<1>1. TypeOK' /\ LockInv' /\ CallInv' /\ UsedInv' /\ WireInv' /\ PassInv'
  BY DEF IInv, TypeOK, LockInv, CallInv, UsedInv, WireInv, PassInv, Numbered
<1>2. IdInv' /\ AckInv' /\ AckedIsMarked' /\ SuccessIsTrue'
  BY DEF IInv, IdInv, AckInv, AckedIsMarked, SuccessIsTrue, IdOf, Numbered
<1> QED
  BY <1>1, <1>2 DEF IInv

\* Every step of a publishing task keeps IInv.
LEMMA PublishKeeps ==
  ASSUME NEW p \in Tasks, IInv, Publish(p)
  PROVE  IInv'

  BY PubStartKeeps, PubLockKeeps, PubQos0Keeps, PubNextIdKeeps,
    PubSerializeKeeps, PubPushKeeps, PubSendOkKeeps, PubSendNothingKeeps,
    PubSendFailKeeps, PubSendNoHandleKeeps, PubRemoveKeeps DEF Publish

\* Every step of the yield task keeps IInv.
LEMMA YieldKeeps ==
  ASSUME IInv, Yield
  PROVE  IInv'
  BY YReadOtherKeeps, YAckPublishKeeps, YReadPubackKeeps, YSuccessEventKeeps, YReadFailKeeps,
    YProcBeginKeeps, YVisitKeeps, YTimeoutEventKeeps, YKeepAliveKeeps,
    YDisconnectKeeps, YTeardownKeeps, YSetStateKeeps, YReconnectKeeps DEF
    Yield

-----------------------------------------------------------------------------
(***************************************************************************)
(* The theorems.                                                           *)
(***************************************************************************)

\* The locks, the ids, the pointers of the pass and the packets under way
\* stay as IInv says, however publishes and yield interleave.
THEOREM Invariance == Spec => []IInv
<1>1. Init => IInv
  BY InitIInv
<1>2. IInv /\ [Next]_vars => IInv'
  <2> SUFFICES ASSUME IInv, [Next]_vars PROVE IInv'
    OBVIOUS
  <2>1. CASE \E p \in Tasks : Publish(p)
    BY <2>1, PublishKeeps
  <2>2. CASE Yield
    BY <2>2, YieldKeeps
  <2>3. CASE \E n \in Calls : AckTimerExpires(n)
    BY <2>3, AckTimerExpiresKeeps
  <2>4. CASE UNCHANGED vars
    BY <2>4, StutterKeeps
  <2> QED
    BY <2>1, <2>2, <2>3, <2>4 DEF Next, Undefined
<1> QED
  BY <1>1, <1>2, PTL DEF Spec

\* Every variable keeps its type; in particular packet ids stay within 16 bits.
THEOREM TypeCorrect == Spec => []TypeOK
<1>1. IInv => TypeOK
  BY DEF IInv
<1> QED
  BY <1>1, Invariance, PTL

\* No two publishes carry the same packet id, and all ids are in 1..MAX_PACKET_ID,
\* although they wrap around and are read after lock_generic was released: lock_write_buf
\* serializes the publishes.
THEOREM IdsUnique == Spec => []UniqueIds
<1>1. IInv => UniqueIds
  <2> SUFFICES ASSUME IInv PROVE UniqueIds
    OBVIOUS
  <2>1. \A p \in Tasks : pc[p] \in {"push", "send", "remove"} => call[p] \in Numbered
    BY CallType DEF IInv, CallInv, Numbered
  <2>2. \A n \in Numbered : msg_id[n] \in 1..MAX_PACKET_ID
    BY DEF IInv, TypeOK, Numbered
  <2> QED
    BY <2>1, <2>2, IdsApart DEF IInv, UniqueIds
<1> QED
  BY <1>1, Invariance, PTL

\* From the serialization to the end of the send, write_buf holds the packet
\* of the task that sends: nobody writes into it in between.
THEOREM BufferKept == Spec => []BufferIntact
<1>1. IInv => BufferIntact
  BY DEF IInv, CallInv, BufferIntact
<1> QED
  BY <1>1, Invariance, PTL

\* A node whose PUBACK has been reported is marked INVALID, so that the pass
\* drops it in silence.
THEOREM AckedMarked == Spec => []AckedIsMarked
<1>1. IInv => AckedIsMarked
  BY DEF IInv
<1> QED
  BY <1>1, Invariance, PTL

\* PUBLISH_SUCCESS is raised for publishes that the broker received only.
THEOREM SuccessTrue == Spec => []SuccessIsTrue
<1>1. IInv => SuccessIsTrue
  BY DEF IInv
<1> QED
  BY <1>1, Invariance, PTL

\* The pointer the iterator has saved is null or points to a node of the list,
\* also while lock_list_pub is free for the PUBLISH_TIMEOUT event.
THEOREM IteratorSound == Spec => []IteratorValid
<1>1. IInv => IteratorValid
  BY DEF IInv, PassInv, IteratorValid
<1> QED
  BY <1>1, Invariance, PTL

\* No packet id is reported lost after it was reported acknowledged: the node
\* that times out is still in the list and unmarked.
THEOREM NoTimeoutAfter == Spec => NoTimeoutAfterSuccess
<1> DEFINE Fresh == \A i \in Ids : i \in timedout' \ timedout => i \notin success
<1>1. IInv /\ [Next]_vars => Fresh
  <2> SUFFICES ASSUME IInv, [Next]_vars, NEW i \in Ids, i \in timedout' \ timedout
               PROVE  i \notin success
    OBVIOUS
  <2>1. ASSUME NEW p \in Tasks, Publish(p) PROVE timedout' = timedout
    BY <2>1 DEF Publish, PubStart, PubLock, PubQos0, PubNextId, PubSerialize, PubPush,
      PubSendOk, PubSendNothing, PubSendFail, PubSendNoHandle, PubRemove
  <2>2. CASE YTimeoutEvent
    <3>1. ypc = "window" /\ node \in list /\ i = msg_id[node]
      BY <2>2 DEF YTimeoutEvent, YGoto, Stale, IInv, PassInv
    <3>2. node_state[node] = "NORMAL"
      BY <3>1 DEF IInv, PassInv
    <3> QED
      BY <3>1, <3>2 DEF IInv, AckedIsMarked
  <2>3. ASSUME Yield, ~YTimeoutEvent PROVE timedout' = timedout
    BY <2>3 DEF Yield, YReadOther, YAckPublish, YReadPuback, YSuccessEvent, YReadFail, YProcBegin,
      YVisit, YKeepAlive, YDisconnect, YTeardown, YSetState, YReconnect
  <2>4. ASSUME NEW n \in Calls, AckTimerExpires(n) PROVE timedout' = timedout
    BY <2>4 DEF AckTimerExpires
  <2>5. ASSUME UNCHANGED vars PROVE timedout' = timedout
    BY <2>5 DEF vars
  <2> QED
    BY <2>1, <2>2, <2>3, <2>4, <2>5 DEF Next, Undefined
<1> QED
  BY <1>1, Invariance, PTL DEF Spec, NoTimeoutAfterSuccess
-----------------------------------------------------------------------------
(***************************************************************************)
(* No node is used after it was freed, and the publish path implements     *)
(* PublishPromise, if no send outlasts the ACK timer of its own node.      *)
(* KeptInv is what IInv needs beside it.                                   *)
(***************************************************************************)

\* Nothing has been published after IOT_MQTT_Construct.
LEMMA InitKept == Init => KeptInv
  BY DEF Init, KeptInv, AnswerInv, LateInv, NodeInv, OwnedInv, TimeoutIsTrue,
    NoFreedNode, Numbered, NULL

\* A step outside the pass that publishes nothing of its own keeps KeptInv: it
\* may only complete records that were left half written, with lock_write_buf
\* in hand.
LEMMA QuietKept ==
  ASSUME KeptInv,
         UNCHANGED <<taskVars, listVars, timedout>>,
         pending' \subseteq pending,
         sent' = sent \/ \A q \in Tasks : pc[q] \notin Holding,
         ypc' \notin {"visit", "window"},
         fault' # "freed_node"
  PROVE  KeptInv'
<1>1. AnswerInv'
  BY DEF KeptInv, AnswerInv, Numbered, Holding
<1>2. LateInv' /\ TimeoutIsTrue'
  BY DEF KeptInv, LateInv, TimeoutIsTrue
<1>3. NodeInv'
  BY DEF KeptInv, NodeInv, Sending
<1>4. OwnedInv' /\ NoFreedNode'
  BY DEF OwnedInv, NoFreedNode
<1> QED
  BY <1>1, <1>2, <1>3, <1>4 DEF KeptInv

\* The connection check and the wait for lock_write_buf keep KeptInv.
LEMMA PubEnterKept ==
  ASSUME NEW p \in Tasks, IInv, KeptInv, PubStart(p) \/ PubLock(p)
  PROVE  KeptInv'
<1>1. /\ UNCHANGED <<next_packet_id, calls, call, msg_id, returned, failed>>
      /\ UNCHANGED <<listVars, yieldVars, netVars, fault>>
      /\ pc[p] \in {"idle", "lock"}
      /\ pc' = [pc EXCEPT ![p] = IF pc[p] = "idle" THEN "lock" ELSE "id"]
  BY DEF PubStart, PubLock, Goto
<1>2. \A q \in Tasks, s \in {"serialize", "push", "send", "remove"} :
        pc'[q] = s <=> pc[q] = s
  BY <1>1 DEF IInv, TypeOK
<1>3. AnswerInv'
  BY <1>1, <1>2 DEF KeptInv, AnswerInv, Numbered
<1>4. LateInv' /\ TimeoutIsTrue'
  BY <1>1, <1>2 DEF KeptInv, LateInv, TimeoutIsTrue
<1>5. NodeInv'
  BY <1>1, <1>2 DEF KeptInv, NodeInv, Sending
<1>6. OwnedInv' /\ NoFreedNode'
  BY <1>1 DEF KeptInv, OwnedInv, NoFreedNode
<1> QED
  BY <1>3, <1>4, <1>5, <1>6 DEF KeptInv

\* A whole QoS 0 publish keeps KeptInv.
LEMMA PubQos0Kept ==
  ASSUME NEW p \in Tasks, IInv, KeptInv, PubQos0(p)
  PROVE  KeptInv'
<1>1. /\ UNCHANGED <<call, msg_id, returned, failed>>
      /\ UNCHANGED <<listVars, yieldVars>>
      /\ pc' = [pc EXCEPT ![p] = "idle"]
      /\ pending' \subseteq pending
      /\ fault' # "freed_node"
      /\ lock_write_buf = Free
  BY DEF PubQos0, Goto, WriteOk, WriteFail, KeptInv, NoFreedNode
<1>2. \A q \in Tasks : pc[q] \notin Holding /\ pc'[q] \notin Holding
  BY <1>1, NobodyInside DEF IInv, TypeOK, Holding
<1>3. AnswerInv'
  BY <1>1, <1>2 DEF KeptInv, AnswerInv, Numbered, Holding
<1>4. LateInv' /\ TimeoutIsTrue'
  BY <1>1, <1>2 DEF KeptInv, LateInv, TimeoutIsTrue, Holding
<1>5. NodeInv'
  BY <1>1, <1>2 DEF KeptInv, NodeInv, Sending, Holding
<1>6. OwnedInv' /\ NoFreedNode'
  BY <1>1 DEF KeptInv, OwnedInv, NoFreedNode
<1> QED
  BY <1>3, <1>4, <1>5, <1>6 DEF KeptInv

\* get_next_packet_id keeps KeptInv: the new number is nobody else's.
LEMMA PubNextIdKept ==
  ASSUME NEW p \in Tasks, IInv, KeptInv, PubNextId(p)
  PROVE  KeptInv'
<1>1. /\ UNCHANGED <<msg_id, returned, failed, listVars, yieldVars, netVars, fault>>
      /\ pc' = [pc EXCEPT ![p] = "serialize"]
      /\ pc[p] = "id"
      /\ call' = [call EXCEPT ![p] = calls + 1]
  BY DEF PubNextId, Goto
<1>2. \A q \in Tasks : q # p => pc[q] \notin Holding /\ pc'[q] \notin Holding
  BY <1>1, Alone DEF IInv, TypeOK, Holding
<1>3. /\ \A q \in Tasks : pc[q] \notin {"send", "remove"}
      /\ \A q \in Tasks : pc'[q] \notin {"push", "send", "remove"}
  BY <1>1, <1>2 DEF IInv, TypeOK, Holding
<1>4. AnswerInv'
  BY <1>1, <1>3 DEF KeptInv, AnswerInv, Numbered
<1>5. LateInv' /\ TimeoutIsTrue'
  BY <1>1, <1>3 DEF KeptInv, LateInv, TimeoutIsTrue
<1>6. NodeInv'
  BY <1>1, <1>3 DEF KeptInv, NodeInv, Sending
<1>7. OwnedInv' /\ NoFreedNode'
  BY <1>1 DEF KeptInv, OwnedInv, NoFreedNode
<1> QED
  BY <1>4, <1>5, <1>6, <1>7 DEF KeptInv

\* Serializing the PUBLISH keeps KeptInv: what was answered had an id.
LEMMA PubSerializeKept ==
  ASSUME NEW p \in Tasks, IInv, KeptInv, PubSerialize(p)
  PROVE  KeptInv'
<1>1. /\ UNCHANGED <<call, returned, listVars, yieldVars, netVars, fault>>
      /\ pc[p] = "serialize"
      /\ msg_id' = [msg_id EXCEPT ![call[p]] = next_packet_id]
      /\ pc' \in {[pc EXCEPT ![p] = "push"], [pc EXCEPT ![p] = "idle"]}
      /\ failed' \in {failed, failed \cup {call[p]}}
      /\ pc' = [pc EXCEPT ![p] = "push"] => failed' = failed
  BY DEF PubSerialize, Goto, IInv, TypeOK
<1>2. /\ call[p] \in Calls /\ call[p] = calls
      /\ call[p] \notin Numbered
      /\ call[p] \notin list \cup sent
      /\ next_packet_id # 0
  BY <1>1, CallType DEF IInv, CallInv, IdInv, Numbered, Calls
<1>3. \A q \in Tasks : q # p => pc[q] \notin Holding /\ pc'[q] \notin Holding
  BY <1>1, Alone DEF IInv, TypeOK, Holding
<1>4. \A q \in Tasks : pc[q] \notin {"send", "remove"} /\ pc'[q] \notin {"send", "remove"}
  BY <1>1, <1>3 DEF IInv, TypeOK, Holding
<1>5. Numbered' = Numbered \cup {call[p]}
  BY <1>1, <1>2 DEF Numbered, IInv, TypeOK
<1>6. call[p] \notin returned \cup failed
  BY <1>2 DEF KeptInv, AnswerInv
<1>7. AnswerInv'
  <2>1. ASSUME NEW q \in Tasks, pc'[q] = "push" PROVE q = p /\ failed' = failed
    BY <2>1, <1>1, <1>3 DEF Holding, IInv, TypeOK
  <2> QED
    BY <2>1, <1>1, <1>2, <1>4, <1>5, <1>6 DEF KeptInv, AnswerInv
<1>8. LateInv'
  BY <1>1, <1>4 DEF KeptInv, LateInv
<1>9. TimeoutIsTrue'
  BY <1>1, <1>6 DEF KeptInv, TimeoutIsTrue, AnswerInv, Numbered, IInv, TypeOK
<1>10. NodeInv'
  BY <1>1, <1>4 DEF KeptInv, NodeInv, Sending
<1>11. OwnedInv' /\ NoFreedNode'
  BY <1>1 DEF KeptInv, OwnedInv, NoFreedNode
<1> QED
  BY <1>7, <1>8, <1>9, <1>10, <1>11 DEF KeptInv

\* _mask_push_pubInfo_to keeps KeptInv: the node is unmarked and its timer
\* newly started.
LEMMA PubPushKept ==
  ASSUME NEW p \in Tasks, IInv, KeptInv, PubPush(p)
  PROVE  KeptInv'
<1>1. /\ UNCHANGED <<call, msg_id, returned, yieldVars, netVars, fault>>
      /\ pc[p] = "push"
      /\ lock_list_pub = Free
  BY DEF PubPush, Goto
<1>2. call[p] \in Calls /\ call[p] \in Numbered
  BY <1>1, CallType DEF IInv, CallInv, Numbered
<1>3. \A q \in Tasks : q # p => pc[q] \notin Holding /\ pc'[q] = pc[q]
  BY <1>1, Alone DEF PubPush, Goto, IInv, TypeOK, Holding
<1>4. call[p] \notin returned \cup failed \cup sent
  BY <1>1 DEF KeptInv, AnswerInv
<1>5. \A q \in Tasks : pc[q] \notin {"send", "remove"}
  BY <1>1, <1>3 DEF Holding
<1>6. list \subseteq returned
  BY <1>5 DEF KeptInv, NodeInv, Sending
<1>7. OwnedInv' /\ TimeoutIsTrue' /\ NoFreedNode' /\ LateInv'
  <2>1. list \subseteq list' /\ failed \subseteq failed'
    BY DEF PubPush
  <2> QED
    BY <2>1, <1>1, <1>5 DEF KeptInv, OwnedInv, TimeoutIsTrue, NoFreedNode, LateInv
<1>8. AnswerInv' /\ NodeInv'
  <2>1. CASE /\ Goto(p, "push", "send")
             /\ list' = list \cup {call[p]}
             /\ node_state' = [node_state EXCEPT ![call[p]] = "NORMAL"]
             /\ ack_expired' = [ack_expired EXCEPT ![call[p]] = FALSE]
             /\ UNCHANGED failed
    <3>1. pc'[p] = "send"
      BY <2>1 DEF Goto, IInv, TypeOK
    <3>2. AnswerInv'
      BY <2>1, <3>1, <1>1, <1>3, <1>4 DEF KeptInv, AnswerInv, Numbered, Holding
    <3>3. node_state'[call[p]] = "NORMAL" /\ ~ack_expired'[call[p]]
      BY <2>1, <1>2 DEF IInv, TypeOK
    <3>4. NodeInv'
      BY <2>1, <3>1, <3>3, <1>1, <1>3, <1>6 DEF NodeInv, Sending, Holding
    <3> QED BY <3>2, <3>4
  <2>2. CASE /\ Goto(p, "push", "idle")
             /\ failed' = failed \cup {call[p]}
             /\ UNCHANGED listVars
    <3>1. \A q \in Tasks : pc'[q] \notin {"push", "send", "remove"}
      BY <2>2, <1>3 DEF Goto, IInv, TypeOK, Holding
    <3>2. AnswerInv'
      BY <2>2, <3>1, <1>1, <1>2, <1>4 DEF KeptInv, AnswerInv, Numbered
    <3>3. NodeInv'
      BY <2>2, <3>1, <1>1, <1>6 DEF NodeInv
    <3> QED BY <3>2, <3>3
  <2> QED BY <2>1, <2>2 DEF PubPush
<1> QED
  BY <1>7, <1>8 DEF KeptInv

\* The end of a send that counts as a success keeps KeptInv.
LEMMA PubSendOkKept ==
  ASSUME NEW p \in Tasks, IInv, KeptInv, PubSendOk(p) \/ PubSendNothing(p)
  PROVE  KeptInv'
<1>1. /\ UNCHANGED <<call, msg_id, failed, listVars, yieldVars, fault>>
      /\ pc[p] = "send"
      /\ pc' = [pc EXCEPT ![p] = "idle"]
      /\ returned' = returned \cup {call[p]}
      /\ pending' \subseteq pending
  BY DEF PubSendOk, PubSendNothing, Goto, WriteOk
<1>2. call[p] \in Calls /\ call[p] \in Numbered
  BY <1>1, CallType DEF IInv, CallInv, Numbered
<1>3. \A q \in Tasks : q # p => pc[q] \notin Holding
  BY <1>1, Alone DEF IInv, Holding
<1>4. \A q \in Tasks : pc'[q] \notin Holding /\ pc[q] # "remove"
  BY <1>1, <1>3 DEF IInv, TypeOK, Holding
<1>5. call[p] \notin returned \cup failed
  BY <1>1 DEF KeptInv, AnswerInv
<1>6. AnswerInv'
  BY <1>1, <1>2, <1>4, <1>5 DEF KeptInv, AnswerInv, Numbered, Holding
<1>7. LateInv' /\ TimeoutIsTrue'
  BY <1>1, <1>4 DEF KeptInv, LateInv, TimeoutIsTrue
<1>8. NodeInv'
  <2>1. \A n \in list : Sending(n) => n = call[p]
    BY <1>1, <1>3 DEF Sending, Holding
  <2> QED
    BY <2>1, <1>1, <1>4 DEF KeptInv, NodeInv, Holding
<1>9. OwnedInv' /\ NoFreedNode'
  BY <1>1 DEF KeptInv, OwnedInv, NoFreedNode
<1> QED
  BY <1>6, <1>7, <1>8, <1>9 DEF KeptInv

\* A failed send, which may leave its record half written, keeps KeptInv.
LEMMA PubSendFailKept ==
  ASSUME NEW p \in Tasks, IInv, KeptInv, PubSendFail(p)
  PROVE  KeptInv'
<1>1. /\ UNCHANGED <<call, msg_id, returned, failed, listVars, yieldVars, fault, sent>>
      /\ pc[p] = "send"
      /\ pc' = [pc EXCEPT ![p] = "remove"]
      /\ pending' \subseteq pending \cup {write_buf}
  BY DEF PubSendFail, Goto, WriteFail
<1>2. write_buf.call = call[p]
  BY <1>1 DEF IInv, CallInv
<1>3. \A q \in Tasks : q # p => pc'[q] = pc[q]
  BY <1>1 DEF IInv, TypeOK
<1>4. pc'[p] = "remove"
  BY <1>1 DEF IInv, TypeOK
<1>5. AnswerInv'
  BY <1>1, <1>3, <1>4 DEF KeptInv, AnswerInv, Numbered
<1>6. LateInv'
  <2>1. ASSUME NEW m \in pending' PROVE m \in pending \/ m.call = call[p]
    BY <1>1, <1>2
  <2>2. ASSUME NEW m \in pending
        PROVE  m.call \in failed \/ \E q \in Tasks : pc'[q] = "remove" /\ call[q] = m.call
    BY <1>3, <1>4 DEF KeptInv, LateInv
  <2> QED
    BY <2>1, <2>2, <1>1, <1>4 DEF LateInv
<1>7. NodeInv'
  <2>1. \A n \in Calls : Sending(n) => Sending(n)'
    BY <1>1, <1>3, <1>4 DEF Sending
  <2> QED
    BY <2>1, <1>1, <1>3, <1>4 DEF KeptInv, NodeInv, IInv, TypeOK
<1>8. OwnedInv' /\ NoFreedNode' /\ TimeoutIsTrue'
  BY <1>1 DEF KeptInv, OwnedInv, NoFreedNode, TimeoutIsTrue
<1> QED
  BY <1>5, <1>6, <1>7, <1>8 DEF KeptInv

\* list_remove after a failed send takes out a node that is still in the list,
\* and keeps KeptInv.
LEMMA PubRemoveKept ==
  ASSUME NEW p \in Tasks, IInv, KeptInv, PubRemove(p)
  PROVE  KeptInv'
<1>1. /\ UNCHANGED <<call, msg_id, returned, node_state, ack_expired, yieldVars, netVars>>
      /\ pc[p] = "remove"
      /\ pc' = [pc EXCEPT ![p] = "idle"]
      /\ list' = list \ {call[p]}
      /\ failed' = failed \cup {call[p]}
      /\ fault' = IF call[p] \in list THEN fault ELSE "freed_node"
  BY DEF PubRemove, Goto
<1>2. /\ call[p] \in Calls /\ call[p] \in Numbered /\ call[p] # NULL
      /\ call[p] \in list
      /\ call[p] \notin returned
  BY <1>1, CallType DEF IInv, CallInv, Numbered, Calls, NULL, KeptInv, NodeInv, AnswerInv
<1>3. \A q \in Tasks : q # p => pc[q] \notin Holding
  BY <1>1, Alone DEF IInv, Holding
<1>4. \A q \in Tasks : pc'[q] \notin Holding
  BY <1>1, <1>3 DEF IInv, TypeOK, Holding
<1>5. AnswerInv'
  BY <1>1, <1>2, <1>4 DEF KeptInv, AnswerInv, Numbered, Holding
<1>6. LateInv'
  <2>1. \A q \in Tasks : pc[q] = "remove" => q = p
    BY <1>3 DEF Holding
  <2> QED
    BY <2>1, <1>1 DEF KeptInv, LateInv
<1>7. NodeInv'
  <2>1. \A n \in list : Sending(n) => n = call[p]
    BY <1>1, <1>3 DEF Sending, Holding
  <2> QED
    BY <2>1, <1>1, <1>4 DEF KeptInv, NodeInv, Holding
<1>8. OwnedInv' /\ NoFreedNode' /\ TimeoutIsTrue'
  BY <1>1, <1>2 DEF KeptInv, OwnedInv, NoFreedNode, TimeoutIsTrue
<1> QED
  BY <1>5, <1>6, <1>7, <1>8 DEF KeptInv

\* _mask_pubInfo_from keeps KeptInv: the nodes it marks were sent, so their
\* calls have returned.
LEMMA YReadPubackKept ==
  ASSUME IInv, KeptInv, YReadPuback
  PROVE  KeptInv'
<1>1. /\ UNCHANGED <<taskVars, list, ack_expired, timedout, temp_node, fault>>
      /\ UNCHANGED <<pending, sent>>
      /\ ypc' = "success"
  BY DEF YReadPuback, YGoto
<1>2. ASSUME NEW n \in list, node_state'[n] # node_state[n]
      PROVE  n \in returned
  <2>1. PICK m \in broker : msg_id[n] = m.id
    BY <1>2 DEF YReadPuback, IInv, TypeOK
  <2>2. n = m.call /\ n \in sent
    BY <2>1, IdsApart DEF IInv, UsedInv, WireInv
  <2>3. ~Sending(n)
    BY <2>2 DEF KeptInv, NodeInv, AnswerInv, Sending, IInv, LateInv
  <2> QED
    BY <2>3 DEF KeptInv, NodeInv
<1>3. AnswerInv' /\ LateInv' /\ TimeoutIsTrue'
  BY <1>1 DEF KeptInv, AnswerInv, LateInv, TimeoutIsTrue, Numbered
<1>4. NodeInv'
  <2>1. \A n \in list : n \in returned \/ node_state'[n] = node_state[n]
    BY <1>2
  <2> QED
    BY <2>1, <1>1 DEF KeptInv, NodeInv, Sending
<1>5. OwnedInv' /\ NoFreedNode'
  BY <1>1 DEF KeptInv, OwnedInv, NoFreedNode
<1> QED
  BY <1>3, <1>4, <1>5 DEF KeptInv

\* The start of the pass, with temp_node cleared, keeps KeptInv.
LEMMA YProcBeginKept ==
  ASSUME IInv, KeptInv, YProcBegin
  PROVE  KeptInv'
<1>1. /\ UNCHANGED <<taskVars, listVars, timedout, netVars, fault>>
      /\ ypc' = "keep_alive" \/ (ypc' = "visit" /\ temp_node' = NULL)
  BY DEF YProcBegin, YGoto
<1>2. AnswerInv' /\ LateInv' /\ TimeoutIsTrue'
  BY <1>1 DEF KeptInv, AnswerInv, LateInv, TimeoutIsTrue, Numbered
<1>3. NodeInv' /\ OwnedInv' /\ NoFreedNode'
  BY <1>1 DEF KeptInv, NodeInv, OwnedInv, NoFreedNode, Sending
<1> QED
  BY <1>2, <1>3 DEF KeptInv

\* A visit of the pass uses no freed node and keeps KeptInv: only a node that
\* is marked or has timed out becomes temp_node, and its call has returned.
LEMMA YVisitKept ==
  ASSUME IInv, KeptInv, YVisit
  PROVE  KeptInv'
<1>1. /\ UNCHANGED <<taskVars, netVars, node_state, ack_expired>>
      /\ ypc = "visit"
  BY DEF YVisit
<1>2. /\ iter \in list \cup {NULL}
      /\ temp_node \in (list \cap returned) \cup {NULL}
      /\ NULL \notin list
  BY <1>1 DEF IInv, PassInv, KeptInv, OwnedInv, TypeOK, Calls, NULL
<1>3. ~Stale(iter) /\ ~Stale(temp_node)
  BY <1>2 DEF Stale
<1>4. /\ list' = list \ {temp_node}
      /\ fault' = fault
      /\ timedout' = timedout
  BY <1>3 DEF YVisit
<1>5. iter # NULL => iter # temp_node
  BY <1>1 DEF IInv, PassInv, TypeOK
<1>6. \/ ypc' = "keep_alive"
      \/ /\ ypc' \in {"visit", "window"}
         /\ ypc' = "window" => temp_node' # NULL
         /\ temp_node' = NULL \/ (temp_node' = iter /\ iter # NULL /\ iter \in returned)
  <2>1. ASSUME iter # NULL, node_state[iter] = "INVALID" \/ ack_expired[iter]
        PROVE  iter \in returned
    BY <2>1, <1>2 DEF KeptInv, NodeInv
  <2> QED
    BY <2>1, <1>1, <1>3 DEF YVisit
<1>7. AnswerInv' /\ LateInv' /\ TimeoutIsTrue' /\ NoFreedNode'
  BY <1>1, <1>4 DEF KeptInv, AnswerInv, LateInv, TimeoutIsTrue, NoFreedNode, Numbered
<1>8. NodeInv'
  <2>1. \A p \in Tasks : pc[p] \in {"send", "remove"} => call[p] \notin returned /\ call[p] # NULL
    BY CallType DEF KeptInv, AnswerInv, IInv, Calls, NULL
  <2> QED
    BY <2>1, <1>1, <1>2, <1>4 DEF KeptInv, NodeInv, Sending
<1>9. OwnedInv'
  BY <1>1, <1>2, <1>4, <1>5, <1>6 DEF OwnedInv
<1> QED
  BY <1>7, <1>8, <1>9 DEF KeptInv

\* PUBLISH_TIMEOUT, raised after lock_list_pub was free, uses no freed node and
\* keeps KeptInv: the node was not taken out meanwhile.
LEMMA YTimeoutEventKept ==
  ASSUME IInv, KeptInv, YTimeoutEvent
  PROVE  KeptInv'
<1>1. /\ ypc = "window"
      /\ node = temp_node
      /\ node \in list /\ node \in returned
  BY DEF YTimeoutEvent, YGoto, IInv, PassInv, KeptInv, OwnedInv
<1>2. /\ UNCHANGED <<taskVars, netVars, list, node_state, temp_node, fault>>
      /\ ypc' = "visit"
      /\ ack_expired' = [ack_expired EXCEPT ![node] = FALSE]
      /\ timedout' = timedout \cup {msg_id[node]}
  BY <1>1 DEF YTimeoutEvent, YGoto, Stale
<1>3. AnswerInv' /\ LateInv' /\ TimeoutIsTrue' /\ NoFreedNode'
  BY <1>1, <1>2 DEF KeptInv, AnswerInv, LateInv, TimeoutIsTrue, NoFreedNode, Numbered
<1>4. NodeInv'
  <2>1. \A n \in list : ack_expired'[n] => ack_expired[n]
    BY <1>2 DEF IInv, TypeOK
  <2> QED
    BY <2>1, <1>2 DEF KeptInv, NodeInv, Sending
<1>5. OwnedInv'
  BY <1>1, <1>2 DEF KeptInv, OwnedInv
<1> QED
  BY <1>3, <1>4, <1>5 DEF KeptInv

\* The other steps of qcloud_iot_mqtt_yield keep KeptInv.
LEMMA YOtherKept ==
  ASSUME IInv, KeptInv,
         \/ YReadOther \/ YAckPublish \/ YSuccessEvent \/ YReadFail
         \/ YKeepAlive \/ YDisconnect \/ YTeardown \/ YSetState \/ YReconnect
  PROVE  KeptInv'
<1> DEFINE Quiet ==
      /\ UNCHANGED <<taskVars, listVars, timedout>>
      /\ pending' \subseteq pending
      /\ sent' = sent \/ \A q \in Tasks : pc[q] \notin Holding
      /\ ypc' \notin {"visit", "window"}
      /\ fault' # "freed_node"
<1>1. fault # "freed_node"
  BY DEF KeptInv, NoFreedNode
<1>2. CASE YReadOther \/ YSuccessEvent \/ YReadFail \/ YTeardown \/ YSetState \/ YReconnect
  BY <1>2, <1>1, QuietKept
    DEF YReadOther, YSuccessEvent, YReadFail, YTeardown, YSetState, YReconnect, YGoto
<1>3. CASE YAckPublish \/ YKeepAlive \/ YDisconnect
  <2>1. sent' = sent \/ \A q \in Tasks : pc[q] \notin Holding
    BY <1>3, NobodyInside DEF YAckPublish, YKeepAlive, YDisconnect, IInv
  <2>2. pending' \subseteq pending
    BY <1>3 DEF YAckPublish, YKeepAlive, YDisconnect, WriteOk, WriteFail
  <2>3. ypc' \notin {"visit", "window"}
    BY <1>3 DEF YAckPublish, YKeepAlive, YDisconnect, YGoto
  <2>4. UNCHANGED <<taskVars, listVars, timedout, fault>>
    BY <1>3 DEF YAckPublish, YKeepAlive, YDisconnect
  <2> QED
    BY <2>1, <2>2, <2>3, <2>4, <1>1, QuietKept
<1> QED
  BY <1>2, <1>3

\* An ACK timer runs out only after the send of its node, which keeps KeptInv.
LEMMA AckTimerExpiresKept ==
  ASSUME NEW n \in Calls, IInv, KeptInv, ~SendMayOverrun, AckTimerExpires(n)
  PROVE  KeptInv'
<1>1. /\ UNCHANGED <<taskVars, list, node_state, yieldVars, netVars, fault>>
      /\ ack_expired' = [ack_expired EXCEPT ![n] = TRUE]
      /\ n \in list /\ ~Sending(n)
  BY DEF AckTimerExpires
<1>2. n \in returned
  BY <1>1 DEF KeptInv, NodeInv
<1>3. \A k \in list : k = n \/ ack_expired'[k] = ack_expired[k]
  BY <1>1 DEF IInv, TypeOK
<1>4. NodeInv'
  BY <1>1, <1>2, <1>3 DEF KeptInv, NodeInv, Sending
<1>5. AnswerInv' /\ LateInv' /\ OwnedInv' /\ TimeoutIsTrue' /\ NoFreedNode'
  BY <1>1 DEF KeptInv, AnswerInv, LateInv, OwnedInv, TimeoutIsTrue, NoFreedNode, Numbered
<1> QED
  BY <1>4, <1>5 DEF KeptInv

\* KeptInv holds all the time.
LEMMA KeptInvariance ==
  ASSUME ~SendMayOverrun
  PROVE  Spec => [](IInv /\ KeptInv)
<1>1. IInv /\ KeptInv /\ [Next]_vars => KeptInv'
  <2> SUFFICES ASSUME IInv, KeptInv, [Next]_vars PROVE KeptInv'
    OBVIOUS
  <2>1. ASSUME NEW p \in Tasks, Publish(p) PROVE KeptInv'
    <3>1. CASE PubSendNoHandle(p)
      <4>1. UNCHANGED <<taskVars, listVars, yieldVars, netVars>> /\ fault' # "freed_node"
        BY <3>1 DEF PubSendNoHandle
      <4>2. AnswerInv' /\ LateInv' /\ TimeoutIsTrue' /\ NoFreedNode'
        BY <4>1 DEF KeptInv, AnswerInv, LateInv, TimeoutIsTrue, NoFreedNode, Numbered
      <4>3. NodeInv' /\ OwnedInv'
        BY <4>1 DEF KeptInv, NodeInv, OwnedInv, Sending
      <4> QED BY <4>2, <4>3 DEF KeptInv
    <3> QED
      BY <2>1, <3>1, PubEnterKept, PubQos0Kept, PubNextIdKept, PubSerializeKept, PubPushKept,
        PubSendOkKept, PubSendFailKept, PubRemoveKept DEF Publish
  <2>2. CASE Yield
    BY <2>2, YReadPubackKept, YProcBeginKept, YVisitKept, YTimeoutEventKept, YOtherKept DEF Yield
  <2>3. CASE \E n \in Calls : AckTimerExpires(n)
    BY <2>3, AckTimerExpiresKept
  <2>4. CASE UNCHANGED vars
    <3>1. AnswerInv' /\ LateInv' /\ TimeoutIsTrue' /\ NoFreedNode'
      BY <2>4 DEF vars, KeptInv, AnswerInv, LateInv, TimeoutIsTrue, NoFreedNode, Numbered
    <3>2. NodeInv' /\ OwnedInv'
      BY <2>4 DEF vars, KeptInv, NodeInv, OwnedInv, Sending
    <3> QED BY <3>1, <3>2 DEF KeptInv
  <2> QED
    BY <2>1, <2>2, <2>3, <2>4 DEF Next, Undefined
<1> QED
  BY <1>1, InitKept, Invariance, PTL DEF Spec

\* Neither the pass, nor the timeout event, nor the removal after a failed
\* send touches a node that has been freed.
THEOREM NodesLive ==
  ASSUME ~SendMayOverrun
  PROVE  Spec => []NoFreedNode
<1>1. KeptInv => NoFreedNode
  BY DEF KeptInv
<1> QED
  BY <1>1, KeptInvariance, PTL

-----------------------------------------------------------------------------
(***************************************************************************)
(* The refinement: each step is a step of PublishPromise, or changes none  *)
(* of its variables.                                                       *)
(***************************************************************************)

\* What the promise sees of a call.
LEMMA AnswerOf ==
  \A n \in Calls :
    /\ Answers[n] = "none" <=> n \notin returned \cup failed
    /\ Answers[n] = "id" <=> n \in returned
    /\ Answers[n] = "error" <=> n \in failed \ returned
  BY DEF Answers, Answer

\* A step that answers nothing, raises nothing and delivers nothing is not seen
\* by the promise.
LEMMA Unseen ==
  ASSUME UNCHANGED <<sent, returned, failed, msg_id, success, timedout>>
  PROVE  UNCHANGED Promise!vars
<1>1. Answers' = Answers
  BY DEF Answers, Answer
<1>2. Events' = Events
  BY DEF Events, Heard, Numbered
<1> QED
  BY <1>1, <1>2 DEF Promise!vars

\* With lock_write_buf free, completing half-written records delivers publishes
\* that were refused.
LEMMA LateDelivery ==
  ASSUME IInv, KeptInv, lock_write_buf = Free,
         WriteOk({}) \/ WriteFail({}) \/ UNCHANGED netVars,
         UNCHANGED <<returned, failed, msg_id, success, timedout>>
  PROVE  [Promise!Next]_(Promise!vars)
<1>1. Answers' = Answers /\ Events' = Events
  BY DEF Answers, Answer, Events, Heard, Numbered
<1>2. CASE sent' = sent
  BY <1>1, <1>2 DEF Promise!vars
<1>3. CASE sent' # sent
  <2> DEFINE S == {m.call : m \in pending}
  <2>1. sent' = sent \cup S
    BY <1>3 DEF WriteOk, WriteFail, Transmit
  <2>2. S \subseteq Promise!Refused
    <3> SUFFICES ASSUME NEW m \in pending PROVE m.call \in Promise!Refused
      OBVIOUS
    <3>1. m.call \in failed
      BY NobodyInside DEF KeptInv, LateInv, IInv, Holding
    <3>2. m.call \in Calls /\ m.call \notin returned
      BY <3>1 DEF KeptInv, AnswerInv, IInv, TypeOK
    <3> QED BY <3>1, <3>2, AnswerOf DEF Promise!Refused
  <2>3. Promise!DeliverLate
    BY <2>1, <2>2, <1>1 DEF Promise!DeliverLate
  <2> QED BY <2>3 DEF Promise!Next
<1> QED
  BY <1>2, <1>3

\* A call that returns an error is refused.
LEMMA Refusal ==
  ASSUME NEW n \in Calls, n \notin returned \cup failed,
         failed' = failed \cup {n},
         UNCHANGED <<sent, returned>>, Events' = Events
  PROVE  Promise!Next
<1>1. Answers' = [Answers EXCEPT ![n] = "error"]
  BY DEF Answers, Answer
<1>2. Promise!Refuse(n)
  BY <1>1, AnswerOf DEF Promise!Refuse
<1> QED
  BY <1>2 DEF Promise!Next

\* A call that returns its packet id is accepted; what its send delivers is its
\* own publish or publishes that were refused.
LEMMA Acceptance ==
  ASSUME NEW n \in Calls, n \notin returned \cup failed,
         returned' = returned \cup {n},
         UNCHANGED <<failed, msg_id, success, timedout>>,
         NEW S \in SUBSET (Promise!Refused \cup {n}),
         sent' = sent \cup S
  PROVE  Promise!Next
<1>1. Answers' = [Answers EXCEPT ![n] = "id"]
  BY DEF Answers, Answer
<1>2. Events' = Events
  BY DEF Events, Heard, Numbered
<1>3. Promise!Accept(n)
  BY <1>1, <1>2, AnswerOf DEF Promise!Accept
<1> QED
  BY <1>3 DEF Promise!Next

\* Getting an id is no event: no event was raised for that id before.
LEMMA PubSerializeRefines ==
  ASSUME NEW p \in Tasks, IInv, IInv', KeptInv, PubSerialize(p)
  PROVE  [Promise!Next]_(Promise!vars)
<1>1. /\ UNCHANGED <<sent, returned, success, timedout>>
      /\ pc[p] = "serialize"
      /\ msg_id' = [msg_id EXCEPT ![call[p]] = next_packet_id]
      /\ failed' = failed \/ failed' = failed \cup {call[p]}
  BY DEF PubSerialize, Goto
<1>n. call[p] = calls
  BY <1>1, CallType DEF IInv
<1>2. /\ call[p] \in Calls /\ call[p] \notin Numbered
      /\ call[p] \notin sent \cup returned \cup failed
      /\ next_packet_id # 0 /\ call[p] \in Numbered'
  BY <1>1, CallType DEF IInv, CallInv, IdInv, Numbered, Calls, KeptInv, AnswerInv, TypeOK
<1>3. \A n \in Calls : n # call[p] => msg_id'[n] = msg_id[n]
  BY <1>1 DEF IInv, TypeOK
<1>4. msg_id'[call[p]] \notin success \cup timedout
  <2>1. ASSUME NEW n \in Calls, msg_id'[n] = msg_id'[call[p]] PROVE n = call[p]
    <3> SUFFICES ASSUME n # call[p] PROVE FALSE
      OBVIOUS
    <3>1. n \in Numbered /\ msg_id[n] = next_packet_id
      BY <2>1, <1>1, <1>2, <1>3 DEF Numbered, IInv, TypeOK
    <3>2. n <= calls /\ IdOf(n) = next_packet_id
      BY <3>1 DEF IInv, IdInv
    <3>3. n # calls
      BY <1>n
    <3>4. /\ next_packet_id \in 0..MAX_PACKET_ID /\ calls \in 0..MaxCalls /\ n \in 1..MaxCalls
          /\ MAX_PACKET_ID \in Nat /\ MaxCalls \in 1..MAX_PACKET_ID
      BY PublishAssumption DEF IInv, TypeOK, Calls
    <3> QED BY <3>2, <3>3, <3>4 DEF IdOf
  <2>2. \A n \in sent : msg_id'[n] # msg_id'[call[p]]
    BY <2>1, <1>2 DEF IInv, TypeOK
  <2>3. \A n \in returned : msg_id'[n] # msg_id'[call[p]]
    BY <2>1, <1>2 DEF IInv, TypeOK
  <2>4. msg_id'[call[p]] \notin success
    BY <2>2, <1>1, <1>2, <1>3 DEF IInv, SuccessIsTrue, TypeOK
  <2>5. msg_id'[call[p]] \notin timedout
    BY <2>3, <1>1, <1>2, <1>3 DEF IInv, KeptInv, TimeoutIsTrue, TypeOK
  <2> QED BY <2>4, <2>5
<1>5. Events' = Events
  <2>1. ASSUME NEW n \in Calls PROVE Heard(n)' = Heard(n)
    <3>1. CASE n = call[p]
      BY <3>1, <1>1, <1>2, <1>4 DEF Heard
    <3>2. CASE n # call[p]
      BY <3>2, <1>1, <1>3 DEF Heard, Numbered
    <3> QED BY <3>1, <3>2
  <2> QED BY <2>1 DEF Events
<1>6. CASE failed' = failed
  <2>1. Answers' = Answers
    BY <1>1, <1>6 DEF Answers, Answer
  <2> QED BY <2>1, <1>1, <1>5 DEF Promise!vars
<1>7. CASE failed' = failed \cup {call[p]}
  BY <1>1, <1>2, <1>5, <1>7, Refusal
<1> QED
  BY <1>1, <1>6, <1>7

\* A push that fails refuses the call.
LEMMA PubPushRefines ==
  ASSUME NEW p \in Tasks, IInv, KeptInv, PubPush(p)
  PROVE  [Promise!Next]_(Promise!vars)
<1>1. /\ UNCHANGED <<sent, returned, success, timedout, msg_id>>
      /\ pc[p] = "push"
      /\ failed' = failed \/ failed' = failed \cup {call[p]}
  BY DEF PubPush, Goto
<1>2. call[p] \in Calls /\ call[p] \notin returned \cup failed
  BY <1>1, CallType DEF IInv, KeptInv, AnswerInv
<1>3. Events' = Events
  BY <1>1 DEF Events, Heard, Numbered
<1> QED
  BY <1>1, <1>2, <1>3, Unseen, Refusal

\* The removal after a failed send refuses the call.
LEMMA PubRemoveRefines ==
  ASSUME NEW p \in Tasks, IInv, KeptInv, PubRemove(p)
  PROVE  [Promise!Next]_(Promise!vars)
<1>1. /\ UNCHANGED <<sent, returned, success, timedout, msg_id>>
      /\ pc[p] = "remove"
      /\ failed' = failed \cup {call[p]}
  BY DEF PubRemove, Goto
<1>2. call[p] \in Calls /\ call[p] \notin returned \cup failed
  BY <1>1, CallType DEF IInv, KeptInv, AnswerInv
<1>3. Events' = Events
  BY <1>1 DEF Events, Heard, Numbered
<1> QED
  BY <1>1, <1>2, <1>3, Refusal

\* A send that counts as a success accepts the call, whether or not its packet
\* was written after the record left from another.
LEMMA PubSendOkRefines ==
  ASSUME NEW p \in Tasks, IInv, KeptInv, PubSendOk(p) \/ PubSendNothing(p)
  PROVE  [Promise!Next]_(Promise!vars)
<1>1. /\ UNCHANGED <<failed, success, timedout, msg_id>>
      /\ pc[p] = "send"
      /\ returned' = returned \cup {call[p]}
      /\ sent' = sent \/ WriteOk({write_buf})
  BY DEF PubSendOk, PubSendNothing, Goto
<1>2. /\ call[p] \in Calls /\ call[p] \notin returned \cup failed
      /\ write_buf.call = call[p]
  BY <1>1, CallType DEF IInv, KeptInv, AnswerInv, CallInv
<1>3. ASSUME NEW m \in pending PROVE m.call \in Promise!Refused
  <2>1. \A q \in Tasks : pc[q] # "remove"
    BY <1>1, Alone DEF IInv, Holding
  <2>2. m.call \in failed
    BY <2>1 DEF KeptInv, LateInv
  <2>3. m.call \in Calls /\ m.call \notin returned
    BY <2>2 DEF KeptInv, AnswerInv, IInv, TypeOK
  <2> QED BY <2>2, <2>3, AnswerOf DEF Promise!Refused
<1>4. CASE sent' = sent
  <2>1. sent' = sent \cup {}
    BY <1>4
  <2> QED BY <2>1, <1>1, <1>2, Acceptance
<1>5. CASE WriteOk({write_buf})
  <2>1. PICK T \in SUBSET (pending \cup {write_buf}) : sent' = sent \cup {m.call : m \in T}
    BY <1>5 DEF WriteOk, Transmit
  <2> DEFINE S == {m.call : m \in T}
  <2>2. S \in SUBSET (Promise!Refused \cup {call[p]})
    BY <1>2, <1>3
  <2>3. sent' = sent \cup S
    BY <2>1
  <2> HIDE DEF S
  <2> QED BY <2>2, <2>3, <1>1, <1>2, Acceptance
<1> QED
  BY <1>1, <1>4, <1>5

\* PUBLISH_SUCCESS is for one publish, which the broker has.
LEMMA YSuccessEventRefines ==
  ASSUME IInv, KeptInv, YSuccessEvent
  PROVE  [Promise!Next]_(Promise!vars)
<1>c. PICK c : c = ack.call
  OBVIOUS
<1>1. /\ UNCHANGED <<sent, returned, failed, msg_id, timedout>>
      /\ success' = success \cup {ack.id}
      /\ ypc = "success"
  BY DEF YSuccessEvent, YGoto
<1>2. /\ c \in sent /\ c \in Calls /\ c \in Numbered
      /\ msg_id[c] = ack.id
  BY <1>c, <1>1 DEF IInv, AckInv, UsedInv, TypeOK
<1>3. \A n \in Numbered : msg_id[n] = ack.id <=> n = c
  BY <1>2, IdsApart DEF IInv
<1>4. CASE ack.id \in success
  BY <1>1, <1>4, Unseen
<1>5. CASE ack.id \notin success
  <2>1. "success" \notin Heard(c)
    BY <1>2, <1>5 DEF Heard
  <2>2. Heard(c)' = Heard(c) \cup {"success"}
    BY <1>1, <1>2 DEF Heard, Numbered
  <2>3. \A n \in Calls : n # c => Heard(n)' = Heard(n)
    <3> SUFFICES ASSUME NEW n \in Calls, n # c PROVE Heard(n)' = Heard(n)
      OBVIOUS
    <3>1. n \in Numbered => msg_id[n] # ack.id
      BY <1>3
    <3> QED BY <3>1, <1>1 DEF Heard, Numbered
  <2>4. Events' = [Events EXCEPT ![c] = @ \cup {"success"}]
    BY <1>2, <2>2, <2>3 DEF Events
  <2>5. Answers' = Answers
    BY <1>1 DEF Answers, Answer
  <2>6. "success" \notin Events[c]
    BY <1>2, <2>1 DEF Events
  <2>7. Promise!Success(c)
    BY <1>1, <1>2, <2>4, <2>5, <2>6 DEF Promise!Success
  <2> QED BY <2>7, <1>2 DEF Promise!Next
<1> QED
  BY <1>4, <1>5

\* PUBLISH_TIMEOUT is for one publish, whose call returned an id and whose
\* PUBACK has not been reported.
LEMMA YTimeoutEventRefines ==
  ASSUME IInv, KeptInv, YTimeoutEvent
  PROVE  [Promise!Next]_(Promise!vars)
<1>1. /\ ypc = "window"
      /\ node \in list /\ node \in returned
  BY DEF YTimeoutEvent, YGoto, IInv, PassInv, KeptInv, OwnedInv
<1>c. PICK c : c = node
  OBVIOUS
<1>2. /\ UNCHANGED <<sent, returned, failed, msg_id, success>>
      /\ timedout' = timedout \cup {msg_id[c]}
  BY <1>1, <1>c DEF YTimeoutEvent, YGoto, Stale
<1>3. /\ c \in Calls /\ c \in Numbered
      /\ msg_id[c] \notin success
  BY <1>1, <1>c DEF IInv, TypeOK, UsedInv, PassInv, AckedIsMarked
<1>4. \A n \in Numbered : msg_id[n] = msg_id[c] <=> n = c
  BY <1>3, IdsApart DEF IInv
<1>5. CASE msg_id[c] \in timedout
  BY <1>2, <1>5, Unseen
<1>6. CASE msg_id[c] \notin timedout
  <2>1. Heard(c) = {}
    BY <1>3, <1>6 DEF Heard
  <2>2. Heard(c)' = {"timeout"}
    BY <1>2, <1>3 DEF Heard, Numbered
  <2>3. \A n \in Calls : n # c => Heard(n)' = Heard(n)
    <3> SUFFICES ASSUME NEW n \in Calls, n # c PROVE Heard(n)' = Heard(n)
      OBVIOUS
    <3>1. n \in Numbered => msg_id[n] # msg_id[c]
      BY <1>4
    <3> QED BY <3>1, <1>2 DEF Heard, Numbered
  <2>4. Events' = [Events EXCEPT ![c] = {"timeout"}]
    BY <1>3, <2>2, <2>3 DEF Events
  <2>5. Answers' = Answers
    BY <1>2 DEF Answers, Answer
  <2>6. Answers[c] = "id" /\ Events[c] = {}
    BY <1>1, <1>c, <1>3, <2>1, AnswerOf DEF Events
  <2>7. Promise!Timeout(c)
    BY <1>2, <2>4, <2>5, <2>6 DEF Promise!Timeout
  <2> QED BY <2>7, <1>3 DEF Promise!Next
<1> QED
  BY <1>5, <1>6

\* Tasks and locks, packet ids, the list and the pass over it, half-written
\* records and reconnections amount to the promise: each call is answered once,
\* a success is reported only for a publish the broker has, a timeout only for
\* one that returned an id and was not reported as acknowledged.
THEOREM PromiseKept ==
  ASSUME ~SendMayOverrun
  PROVE  Spec => KeepsPromise
<1>1. Init => Promise!Init
  BY DEF Init, Promise!Init, Answers, Answer, Events, Heard, Numbered
<1>2. IInv /\ IInv' /\ KeptInv /\ [Next]_vars => [Promise!Next]_(Promise!vars)
  <2> SUFFICES ASSUME IInv, IInv', KeptInv, [Next]_vars
               PROVE  [Promise!Next]_(Promise!vars)
    OBVIOUS
  <2>1. ASSUME NEW p \in Tasks, Publish(p) PROVE [Promise!Next]_(Promise!vars)
    <3>1. CASE PubStart(p) \/ PubLock(p) \/ PubNextId(p) \/ PubSendFail(p) \/ PubSendNoHandle(p)
      BY <3>1, Unseen
        DEF PubStart, PubLock, PubNextId, PubSendFail, PubSendNoHandle, WriteFail
    <3>2. CASE PubQos0(p)
      BY <3>2, LateDelivery DEF PubQos0
    <3> QED
      BY <2>1, <3>1, <3>2, PubSerializeRefines, PubPushRefines, PubRemoveRefines,
        PubSendOkRefines DEF Publish
  <2>2. CASE Yield
    <3>1. CASE \/ YReadOther \/ YReadPuback \/ YReadFail \/ YProcBegin
               \/ YTeardown \/ YSetState \/ YReconnect
      BY <3>1, Unseen
        DEF YReadOther, YReadPuback, YReadFail, YProcBegin, YTeardown, YSetState, YReconnect
    <3>2. CASE YVisit
      BY <3>2, Unseen DEF YVisit
    <3>3. CASE YAckPublish \/ YDisconnect
      BY <3>3, LateDelivery DEF YAckPublish, YDisconnect
    <3>4. CASE YKeepAlive
      <4>1. UNCHANGED <<returned, failed, msg_id, success, timedout>>
        BY <3>4 DEF YKeepAlive
      <4>2. CASE UNCHANGED netVars
        BY <4>1, <4>2, Unseen
      <4>3. CASE lock_write_buf = Free /\ WriteOk({})
        BY <4>1, <4>3, LateDelivery
      <4> QED BY <3>4, <4>2, <4>3 DEF YKeepAlive
    <3> QED
      BY <2>2, <3>1, <3>2, <3>3, <3>4, YSuccessEventRefines, YTimeoutEventRefines DEF Yield
  <2>3. CASE \E n \in Calls : AckTimerExpires(n)
    BY <2>3, Unseen DEF AckTimerExpires
  <2>4. CASE UNCHANGED vars
    BY <2>4, Unseen DEF vars
  <2> QED
    BY <2>1, <2>2, <2>3, <2>4 DEF Next, Undefined
<1> QED
  BY <1>1, <1>2, KeptInvariance, PTL DEF Spec, KeepsPromise, Promise!Spec
====
