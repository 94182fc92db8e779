--------------------------- MODULE MqttPublishInv ---------------------------
(***************************************************************************)
(* The inductive invariant of MqttPublish, in named parts, and the mapping *)
(* under which MqttPublish implements PublishPromise.                      *)
(***************************************************************************)
EXTENDS MqttPublish

Holding == {"id", "serialize", "push", "send", "remove"}

\* pc says who holds lock_write_buf, ypc whether lock_list_pub is held.
LockInv ==
  /\ \A p \in Tasks : pc[p] \in Holding <=> lock_write_buf = p
  /\ lock_list_pub = Yielder <=> ypc = "visit"

\* The task inside the locked region is making the newest publish, and it
\* has not been pushed or sent before its turn.
CallInv ==
  \A p \in Tasks :
    /\ pc[p] \in {"serialize", "push", "send", "remove"} =>
         call[p] = calls /\ calls # 0
    /\ pc[p] \in {"serialize", "push"} => call[p] \notin list \cup sent
    /\ pc[p] = "serialize" => msg_id[call[p]] = 0
    /\ pc[p] \in {"push", "send", "remove"} => msg_id[call[p]] # 0
    /\ pc[p] \in {"push", "send"} =>
         write_buf = [call |-> call[p], id |-> msg_id[call[p]]]

\* The id of publish n, counted back from the newest id handed out.
IdOf(n) ==
  LET i == next_packet_id - (calls - n) IN IF i >= 1 THEN i ELSE i + MAX_PACKET_ID

IdInv ==
  /\ calls # 0 => next_packet_id # 0
  /\ \A n \in Numbered : n <= calls /\ msg_id[n] = IdOf(n)

\* What is in the list or was sent has been serialized.
UsedInv == list \cup sent \subseteq Numbered

\* A packet under way carries the id of its publish; one that a failed write
\* left behind is not of the publish that is going on.
WireInv ==
  /\ \A m \in broker : m.call \in sent /\ m.id = msg_id[m.call]
  /\ \A m \in pending : m.call \in Numbered /\ m.id = msg_id[m.call]
  /\ \A p \in Tasks, m \in pending :
       pc[p] \in {"serialize", "push", "send"} => m.call # call[p]

\* Between the mark and the event, every node of the PUBACK is marked.
AckInv ==
  ypc = "success" =>
    /\ ack.call \in sent
    /\ ack.id = msg_id[ack.call]
    /\ \A n \in list : msg_id[n] = ack.id => node_state[n] = "INVALID"

\* The pass over the list: what its local pointers point to.
PassInv ==
  /\ ypc \in {"visit", "window"} =>
       /\ iter \in list \cup {NULL}
       /\ temp_node = NULL \/ (iter < temp_node /\ temp_node <= calls)
  /\ ypc = "window" =>
       /\ node # NULL
       /\ node = temp_node
       /\ node \in list => node_state[node] = "NORMAL"
       /\ \A p \in Tasks : pc[p] \in {"serialize", "push"} => node # call[p]

IInv ==
  /\ TypeOK
  /\ LockInv
  /\ CallInv
  /\ IdInv
  /\ UsedInv
  /\ WireInv
  /\ AckInv
  /\ PassInv
  /\ AckedIsMarked
  /\ SuccessIsTrue

-----------------------------------------------------------------------------
(***************************************************************************)
(* What more holds while no send outlasts the ACK timer of its own node.   *)
(***************************************************************************)

\* A call is answered once, and not before it returns.
AnswerInv ==
  /\ returned \cup failed \subseteq Numbered
  /\ returned \cap failed = {}
  /\ \A p \in Tasks : pc[p] \in {"push", "send", "remove"} =>
       call[p] \notin returned \cup failed \cup sent

\* A record left half written is of a call that failed, or is about to.
LateInv ==
  \A m \in pending :
    \/ m.call \in failed
    \/ \E p \in Tasks : pc[p] = "remove" /\ call[p] = m.call

\* A node belongs to the call that is sending it until that call returns.
NodeInv ==
  /\ \A p \in Tasks : pc[p] \in {"send", "remove"} => call[p] \in list
  /\ \A n \in list :
       \/ n \in returned
       \/ Sending(n) /\ node_state[n] = "NORMAL" /\ ~ack_expired[n]

\* The pass removes, and times out, nodes of calls that have returned.
OwnedInv ==
  /\ ypc \in {"visit", "window"} => temp_node \in (list \cap returned) \cup {NULL}
  /\ ypc = "window" => temp_node # NULL

TimeoutIsTrue ==
  \A i \in timedout : \E n \in returned : msg_id[n] = i

KeptInv ==
  /\ AnswerInv
  /\ LateInv
  /\ NodeInv
  /\ OwnedInv
  /\ TimeoutIsTrue
  /\ NoFreedNode

-----------------------------------------------------------------------------

Heard(n) ==
  {e \in {"success", "timeout"} :
     /\ n \in Numbered
     /\ msg_id[n] \in IF e = "success" THEN success ELSE timedout}

Answer(n) ==
  IF n \in returned THEN "id" ELSE IF n \in failed THEN "error" ELSE "none"

Answers == [n \in Calls |-> Answer(n)]
Events  == [n \in Calls |-> Heard(n)]

Promise == INSTANCE PublishPromise WITH
  delivered <- sent,
  answer    <- Answers,
  heard     <- Events

\* While no send outlasts the ACK timer of its own node, the publish path
\* implements PublishPromise.
KeepsPromise == Promise!Spec
====
