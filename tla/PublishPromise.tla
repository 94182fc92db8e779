--------------------------- MODULE PublishPromise ---------------------------
(***************************************************************************)
(* What an application may rely on when it publishes with QoS 1, without   *)
(* tasks, locks, lists or packet ids.  A publish is answered once, with a  *)
(* packet id or an error; the event handler hears at most one timeout and  *)
(* at most one success for it, a success only if the broker has the        *)
(* message, a timeout only if the call returned an id and no success came  *)
(* before it.  A success may follow a timeout, or even an error: a message *)
(* whose send failed may still reach the broker later.                     *)
(***************************************************************************)
CONSTANT Calls

VARIABLES
  delivered,  \* publishes the broker has received
  answer,     \* what each call has returned: "none", "id" or "error"
  heard       \* the events raised for each publish

vars == <<delivered, answer, heard>>

Init ==
  /\ delivered = {}
  /\ answer = [n \in Calls |-> "none"]
  /\ heard = [n \in Calls |-> {}]

\* A publish that was refused may still get through, later.
Refused == {n \in Calls : answer[n] = "error"}

DeliverLate ==
  /\ \E S \in SUBSET Refused : delivered' = delivered \cup S
  /\ UNCHANGED <<answer, heard>>

\* The call returns the packet id; the broker has the message, or never will.
Accept(n) ==
  /\ answer[n] = "none"
  /\ answer' = [answer EXCEPT ![n] = "id"]
  /\ \E S \in SUBSET (Refused \cup {n}) : delivered' = delivered \cup S
  /\ UNCHANGED heard

Refuse(n) ==
  /\ answer[n] = "none"
  /\ answer' = [answer EXCEPT ![n] = "error"]
  /\ UNCHANGED <<delivered, heard>>

Success(n) ==
  /\ n \in delivered
  /\ "success" \notin heard[n]
  /\ heard' = [heard EXCEPT ![n] = @ \cup {"success"}]
  /\ UNCHANGED <<delivered, answer>>

Timeout(n) ==
  /\ answer[n] = "id"
  /\ heard[n] = {}
  /\ heard' = [heard EXCEPT ![n] = {"timeout"}]
  /\ UNCHANGED <<delivered, answer>>

Next ==
  \/ DeliverLate
  \/ \E n \in Calls : Accept(n) \/ Refuse(n) \/ Success(n) \/ Timeout(n)

Spec == Init /\ [][Next]_vars
====
