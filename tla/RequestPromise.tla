--------------------------- MODULE RequestPromise ---------------------------
(***************************************************************************)
(* What an application may rely on when it sends CoAP requests, without    *)
(* tasks, ids, tokens, lists or datagrams.  A call says once whether the   *)
(* request is accepted.  Only a request that was accepted is ever heard    *)
(* of, and then once: its handler gets the server's answer to this very    *)
(* request, or hears that none came.  Nothing is accepted or heard of once *)
(* the client is closed.                                                   *)
(***************************************************************************)
CONSTANT Requests

VARIABLES
  returned,  \* what each call has said: "none", "success" or "error"
  outcome,   \* what each handler was told: "none", "answer" or "timeout"
  closed

vars == <<returned, outcome, closed>>

Init ==
  /\ returned = [n \in Requests |-> "none"]
  /\ outcome = [n \in Requests |-> "none"]
  /\ closed = FALSE

Return(n, rc) ==
  /\ ~closed
  /\ returned[n] = "none"
  /\ returned' = [returned EXCEPT ![n] = rc]
  /\ UNCHANGED <<outcome, closed>>

\* Requests that were accepted and are still waiting.
Waiting == {n \in Requests : returned[n] = "success" /\ outcome[n] = "none"}

Answer(n) ==
  /\ ~closed
  /\ n \in Waiting
  /\ outcome' = [outcome EXCEPT ![n] = "answer"]
  /\ UNCHANGED <<returned, closed>>

\* Several requests may run out of tries in one turn.
TimeOut(S) ==
  /\ ~closed
  /\ outcome' = [n \in Requests |-> IF n \in S THEN "timeout" ELSE outcome[n]]
  /\ UNCHANGED <<returned, closed>>

Close ==
  /\ ~closed
  /\ closed' = TRUE
  /\ UNCHANGED <<returned, outcome>>

Next ==
  \/ \E n \in Requests :
       Return(n, "success") \/ Return(n, "error") \/ Answer(n)
  \/ \E S \in SUBSET Waiting : TimeOut(S)
  \/ Close

Spec == Init /\ [][Next]_vars
====
