-------------------------- MODULE MqttClientProofs --------------------------
(***************************************************************************)
(* Proofs about two models of the MQTT client that share no variable.      *)
(*                                                                         *)
(* MqttConn, for every keep-alive interval, every range of random delays   *)
(* the assumption allows and any number of disconnections: a silent link   *)
(* is given up in time, a live one is kept, and a lost one is tried five   *)
(* times.                                                                  *)
(*                                                                         *)
(* MqttLocks, for any number of tasks, when the callbacks that call the    *)
(* client are those of events raised with no lock held: no circle of tasks *)
(* that wait, no lock of another released and none kept on return.  The    *)
(* argument is an order of the locks that every path respects: a lock is   *)
(* only taken by a task whose locks all come before it.                    *)
(***************************************************************************)
EXTENDS MqttConn, MqttLocks, SequenceTheorems, TLAPS

-----------------------------------------------------------------------------
(***************************************************************************)
(* The connection: the inductive invariant, in named parts.                *)
(***************************************************************************)

\* How long a ping is waited for, at least a turn of the loop.
Wait == Larger(1, PingWait)

\* What the open pings have added to the keep-alive interval.
Extra == CASE is_ping_outstanding = 0 -> 0
           [] is_ping_outstanding = 1 -> Wait
           [] is_ping_outstanding = 2 -> Wait + Wait

\* The time the loop may still let pass before it looks at the timer again.
StillToPass == IF checked THEN Larger(1, ping_timer) ELSE ping_timer

\* The timer never gives the link more time than the interval and the open
\* pings have granted.
SilenceInv == is_connected => since_heard + StillToPass <= KEEP_ALIVE + Extra

\* The oldest open PINGREQ is as old as the waits that have passed since.
PongInv ==
  server_alive =>
    /\ is_ping_outstanding = 1 => pong # None /\ pong + ping_timer >= PingWait
    /\ is_ping_outstanding = 2 =>
         pong # None /\ pong + ping_timer >= PingWait + PingWait

\* The delay after k failed attempts leaves room for the attempts up to five.
DelayInv ==
  ~is_connected /\ ypc # "count" /\ delay_drawn =>
    LET d == current_reconnect_wait_interval IN
    /\ attempts = 0 => 16 * d <= MAX_RECONNECT_WAIT_INTERVAL
    /\ attempts = 1 => 8 * d <= MAX_RECONNECT_WAIT_INTERVAL
    /\ attempts = 2 => 4 * d <= MAX_RECONNECT_WAIT_INTERVAL
    /\ attempts = 3 => 2 * d <= MAX_RECONNECT_WAIT_INTERVAL
    /\ attempts = 4 => d <= MAX_RECONNECT_WAIT_INTERVAL

\* CountDisconnect follows on a disconnection, before any attempt.
PlaceInv == ypc = "count" => ~is_connected /\ attempts = 0

IInv == TypeOK /\ SilenceInv /\ PongInv /\ DelayInv /\ PlaceInv

\* TypeOK in three parts, which the provers take one at a time.
FlagType ==
  /\ is_connected \in BOOLEAN /\ server_alive \in BOOLEAN /\ checked \in BOOLEAN
  /\ was_manually_disconnected \in BOOLEAN /\ auto_connect_enable \in BOOLEAN
  /\ reconnect_delay_expired \in BOOLEAN /\ delay_drawn \in BOOLEAN

NumberType ==
  /\ current_reconnect_wait_interval \in 0..(2 * MAX_RECONNECT_WAIT_INTERVAL)
  /\ is_ping_outstanding \in 0..2
  /\ ping_timer \in 0..KEEP_ALIVE
  /\ counter_network_disconnected \in Nat
  /\ pong \in 0..ServerDelay \cup {-1}
  /\ since_heard \in 0..(MaxSilence + 1)
  /\ attempts \in 0..5

PlaceType ==
  /\ ypc \in {"out", "loop", "keep_alive", "disconnect", "count"}
  /\ rc \in {"SUCCESS", "RECONNECTED", "MANUALLY_DISCONNECTED", "NO_CONN",
             "ATTEMPTING_RECONNECT", "RECONNECT_TIMEOUT", "ERROR"}
  /\ events \in {"none", "DISCONNECT", "RECONNECT"}

-----------------------------------------------------------------------------
(***************************************************************************)
(* Facts that several actions need.                                        *)
(***************************************************************************)

\* The three parts are TypeOK.
LEMMA TypeParts == TypeOK <=> FlagType /\ NumberType /\ PlaceType
  BY DEF TypeOK, FlagType, NumberType, PlaceType, TooLong, EnoughAttempts,
    MQTT_PING_RETRY_TIMES, None

\* And so they are in the next state.
LEMMA TypePartsNext == TypeOK' <=> FlagType' /\ NumberType' /\ PlaceType'
  BY DEF TypeOK, FlagType, NumberType, PlaceType, TooLong, EnoughAttempts,
    MQTT_PING_RETRY_TIMES, None

\* A ping is waited for no longer than the keep-alive interval.
LEMMA WaitType ==
  /\ PingWait \in 0..KEEP_ALIVE
  /\ Wait \in 1..KEEP_ALIVE
  /\ PingWait <= Wait
  /\ MaxSilence = KEEP_ALIVE + Wait + Wait
  BY ConnAssumption DEF PingWait, Wait, Smaller, Larger, MaxSilence,
    MQTT_PING_RETRY_TIMES

\* A step that leaves the connection, its pings and its delay alone keeps what
\* IInv says of them.
LEMMA PingsUntouched ==
  ASSUME IInv, UNCHANGED <<is_connected, server_alive, pingVars>>
  PROVE  SilenceInv' /\ PongInv'
  BY DEF IInv, SilenceInv, StillToPass, Extra, PongInv, pingVars

LEMMA DelayUntouched ==
  ASSUME IInv, ypc # "count", UNCHANGED <<is_connected, delayVars>>
  PROVE  DelayInv'
  BY DEF IInv, DelayInv, delayVars

-----------------------------------------------------------------------------
(***************************************************************************)
(* The invariant holds initially, and every action keeps it.               *)
(***************************************************************************)

\* IOT_MQTT_Construct has started the keep-alive timer and no ping is open.
LEMMA InitIInv == Init => IInv
<1> SUFFICES ASSUME Init PROVE IInv
  OBVIOUS
<1> USE ConnAssumption, WaitType DEF Init
<1>1. FlagType
  BY DEF FlagType
<1>2. NumberType
  BY DEF NumberType, None
<1>3. PlaceType
  BY DEF PlaceType
<1>4. SilenceInv
  BY DEF SilenceInv, StillToPass, Extra
<1>5. PongInv /\ DelayInv /\ PlaceInv
  BY DEF PongInv, DelayInv, PlaceInv
<1> QED
  BY <1>1, <1>2, <1>3, <1>4, <1>5, TypeParts DEF IInv

\* Entering yield, leaving it, set_autoreconnect, and the steps of the loop
\* that neither hear anything nor change the connection keep IInv.
IdleStep ==
  \/ Enter \/ Leave \/ set_autoreconnect
  \/ ReadNothing \/ ReadRefused \/ ReadFail \/ GiveUpLink
  \/ LoopGivenUp \/ WaitForDelay

LEMMA IdleKeeps ==
  ASSUME IInv, IdleStep
  PROVE  IInv'
<1> USE DEF IdleStep, Enter, Leave, set_autoreconnect, Reading, ReadNothing,
    ReadRefused, ReadFail, GiveUpLink, Reconnecting, LoopGivenUp, WaitForDelay
<1>0. FlagType /\ NumberType /\ PlaceType /\ PlaceInv
  BY TypeParts DEF IInv
<1>1. UNCHANGED <<is_connected, server_alive, pingVars, delayVars>>
  OBVIOUS
<1>2. UNCHANGED <<was_manually_disconnected, counter_network_disconnected, events>>
  BY DEF flagVars
<1>3. auto_connect_enable' \in BOOLEAN
  BY <1>0 DEF flagVars, FlagType
<1>4. FlagType'
  BY <1>0, <1>1, <1>2, <1>3 DEF FlagType, delayVars, pingVars
<1>5. NumberType'
  BY <1>0, <1>1, <1>2 DEF NumberType, delayVars, pingVars
<1>6. PlaceType'
  BY <1>0, <1>2 DEF PlaceType
<1>7. ypc # "count" \/ UNCHANGED ypc
  OBVIOUS
<1>8. DelayInv' /\ PlaceInv'
  BY <1>0, <1>1, <1>7 DEF IInv, DelayInv, PlaceInv, delayVars
<1> QED
  BY <1>1, <1>4, <1>5, <1>6, <1>8, PingsUntouched, TypePartsNext DEF IInv

\* An acknowledgement or a PUBLISH that was read keeps IInv: nothing is open,
\* and the silence is over.
LEMMA HearKeeps ==
  ASSUME IInv, ReadAck \/ ReadPublish
  PROVE  IInv'
<1> USE DEF Reading, ReadAck, ReadPublish
<1>0. FlagType /\ NumberType /\ PlaceType
  BY TypeParts DEF IInv
<1>1. FlagType'
  BY <1>0 DEF FlagType, delayVars, flagVars
<1>2. NumberType'
  BY <1>0, ConnAssumption, WaitType DEF NumberType, delayVars, None
<1>3. PlaceType'
  BY <1>0 DEF PlaceType
<1>4. is_ping_outstanding' = 0 /\ since_heard' = 0
  OBVIOUS
<1>5. SilenceInv'
  BY <1>2, <1>4, ConnAssumption DEF SilenceInv, Extra, StillToPass, Larger, NumberType
<1>6. PongInv'
  BY <1>4 DEF PongInv
<1>7. DelayInv' /\ PlaceInv'
  BY DEF IInv, DelayInv, PlaceInv, delayVars
<1> QED
  BY <1>1, <1>2, <1>3, <1>5, <1>6, <1>7, TypePartsNext DEF IInv

\* A PINGREQ, or a look at the timer that finds none due, keeps IInv.  A ping
\* that goes out adds its wait to what the link has been granted.
LEMMA KeepAliveKeeps ==
  ASSUME IInv, Ping \/ NoPingDue
  PROVE  IInv'
<1>0. FlagType /\ NumberType /\ PlaceType
  BY TypeParts DEF IInv
<1>1. FlagType'
  BY <1>0 DEF FlagType, delayVars, flagVars, Ping, NoPingDue
<1>2. NumberType'
  BY <1>0, ConnAssumption, WaitType DEF NumberType, delayVars, Ping, NoPingDue,
    None, MQTT_PING_RETRY_TIMES
<1>3. PlaceType'
  BY <1>0 DEF PlaceType, Ping, NoPingDue
<1>4. SilenceInv'
  <2> USE ConnAssumption, WaitType, <1>0 DEF IInv, SilenceInv, StillToPass, Extra,
      NumberType, Larger
  <2>1. CASE NoPingDue
    BY <2>1 DEF NoPingDue
  <2>2. CASE Ping /\ is_ping_outstanding' = is_ping_outstanding + 1
    BY <2>2 DEF Ping, MQTT_PING_RETRY_TIMES
  <2>3. CASE Ping /\ UNCHANGED <<is_ping_outstanding, ping_timer, pong, checked>>
    BY <2>3 DEF Ping
  <2> QED
    BY <2>1, <2>2, <2>3 DEF Ping
<1>5. PongInv'
  <2> USE <1>0, WaitType DEF PongInv, NumberType
  <2>1. CASE UNCHANGED <<is_ping_outstanding, ping_timer, pong, server_alive>>
    BY <2>1 DEF IInv
  <2>2. CASE Ping /\ is_ping_outstanding' = is_ping_outstanding + 1
    <3>1. PICK age \in Nat : pong' = age /\ pong' # None
      BY <2>2, ConnAssumption DEF Ping, None
    <3>2. pong # None => pong' = pong
      BY <2>2 DEF Ping
    <3>3. server_alive' = server_alive /\ ping_timer = 0 /\ ping_timer' = PingWait
      BY <2>2 DEF Ping
    <3>4. CASE is_ping_outstanding = 0
      BY <2>2, <3>1, <3>3, <3>4, ConnAssumption
    <3>5. CASE is_ping_outstanding = 1
      BY <2>2, <3>1, <3>2, <3>3, <3>5, ConnAssumption DEF IInv
    <3> QED
      BY <2>2, <3>4, <3>5 DEF Ping, MQTT_PING_RETRY_TIMES
  <2> QED
    BY <2>1, <2>2 DEF Ping, NoPingDue
<1>6. DelayInv' /\ PlaceInv'
  BY DEF IInv, DelayInv, PlaceInv, delayVars, Ping, NoPingDue
<1> QED
  BY <1>1, <1>2, <1>3, <1>4, <1>5, <1>6, TypePartsNext DEF IInv

\* _handle_disconnect, and the delay that is drawn after it, keep IInv: the
\* first delay leaves room for five attempts.
LEMMA DisconnectKeeps ==
  ASSUME IInv, HandleDisconnect \/ CountDisconnect
  PROVE  IInv'
<1> USE DEF HandleDisconnect, CountDisconnect
<1>a. \A i \in RandomIntervals : i \in Nat /\ 16 * i <= MAX_RECONNECT_WAIT_INTERVAL
  BY ConnAssumption
<1>b. \A i \in Nat : 16 * i <= MAX_RECONNECT_WAIT_INTERVAL =>
        i \in 0..(2 * MAX_RECONNECT_WAIT_INTERVAL)
  BY ConnAssumption
<1>0. FlagType /\ NumberType /\ PlaceType /\ PlaceInv
  BY TypeParts DEF IInv
<1>1. FlagType'
  BY <1>0 DEF FlagType, flagVars, pingVars
<1>2. NumberType'
  BY <1>0, <1>a, <1>b DEF NumberType, pingVars
<1>3. PlaceType'
  BY <1>0 DEF PlaceType
<1>4. is_connected' = FALSE
  BY <1>0 DEF PlaceInv
<1>5. SilenceInv'
  BY <1>4 DEF SilenceInv
<1>6. PongInv'
  BY DEF IInv, PongInv, pingVars
<1>7. DelayInv'
  <2>1. CASE HandleDisconnect
    BY <2>1 DEF DelayInv
  <2>2. CASE CountDisconnect /\ auto_connect_enable
    BY <2>2, <1>0, <1>a DEF DelayInv, PlaceInv
  <2>3. CASE CountDisconnect /\ ~auto_connect_enable
    BY <2>3 DEF DelayInv
  <2> QED
    BY <2>1, <2>2, <2>3
<1>8. PlaceInv'
  BY <1>4 DEF PlaceInv
<1> QED
  BY <1>1, <1>2, <1>3, <1>5, <1>6, <1>7, <1>8, TypePartsNext DEF IInv

\* A failed attempt keeps IInv: the delay doubles and the attempts left are
\* one fewer.
LEMMA AttemptFailsKeeps ==
  ASSUME IInv, AttemptFails
  PROVE  IInv'
<1> USE DEF AttemptFails, Attempt, Reconnecting, GivenUp, Backoff
<1>0. FlagType /\ NumberType /\ PlaceType
  BY TypeParts DEF IInv
<1>1. FlagType'
  BY <1>0 DEF FlagType, flagVars, pingVars
<1>2. NumberType'
  BY <1>0, ConnAssumption DEF NumberType, pingVars, Smaller, EnoughAttempts
<1>3. PlaceType'
  BY <1>0 DEF PlaceType
<1>4. DelayInv'
  BY <1>0, ConnAssumption DEF IInv, DelayInv, NumberType, Smaller, EnoughAttempts
<1>5. PlaceInv'
  BY DEF PlaceInv
<1> QED
  BY <1>1, <1>2, <1>3, <1>4, <1>5, PingsUntouched, TypePartsNext DEF IInv

\* An attempt that connects, resubscribed or not, keeps IInv: the keep-alive
\* starts anew.
LEMMA ReconnectKeeps ==
  ASSUME IInv, Reconnects \/ ReconnectsNoResubscribe
  PROVE  IInv'
<1> USE DEF Reconnects, ReconnectsNoResubscribe, Attempt, Reconnecting, Connected,
    GivenUp, Backoff
<1>0. FlagType /\ NumberType /\ PlaceType
  BY TypeParts DEF IInv
<1>1. FlagType'
  BY <1>0 DEF FlagType, delayVars
<1>2. NumberType'
  BY <1>0, ConnAssumption, WaitType DEF NumberType, delayVars, None
<1>3. PlaceType'
  BY <1>0 DEF PlaceType
<1>4. SilenceInv'
  BY ConnAssumption, WaitType DEF SilenceInv, StillToPass, Extra
<1>5. PongInv' /\ DelayInv' /\ PlaceInv'
  BY DEF PongInv, DelayInv, PlaceInv
<1> QED
  BY <1>1, <1>2, <1>3, <1>4, <1>5, TypePartsNext DEF IInv

\* Time that passes keeps IInv: it is time the loop had left, and an open
\* PINGREQ grows as old as its wait grows short.
LEMMA TickKeeps ==
  ASSUME IInv, Tick
  PROVE  IInv'
<1> USE DEF Tick
<1>0. FlagType /\ NumberType /\ PlaceType
  BY TypeParts DEF IInv
<1>1. FlagType'
  BY <1>0 DEF FlagType, delayVars, flagVars
<1>2. NumberType'
  BY <1>0, ConnAssumption, WaitType DEF NumberType, delayVars, None, Smaller, TooLong
<1>3. PlaceType'
  BY <1>0 DEF PlaceType
<1>4. SilenceInv'
  BY <1>0, ConnAssumption, WaitType DEF IInv, SilenceInv, StillToPass, Extra,
    NumberType, Larger, Smaller, TooLong
<1>5. PongInv'
  BY <1>0, ConnAssumption, WaitType DEF IInv, PongInv, NumberType, Smaller, None
<1>6. DelayInv' /\ PlaceInv'
  BY DEF IInv, DelayInv, PlaceInv, delayVars
<1> QED
  BY <1>1, <1>2, <1>3, <1>4, <1>5, <1>6, TypePartsNext DEF IInv

\* The end of a delay, and a broker that falls silent, keep IInv.
LEMMA WorldKeeps ==
  ASSUME IInv, DelayExpires \/ FallSilent
  PROVE  IInv'
<1> USE DEF DelayExpires, FallSilent
<1>0. FlagType /\ NumberType /\ PlaceType
  BY TypeParts DEF IInv
<1>1. FlagType'
  BY <1>0 DEF FlagType, delayVars, flagVars, pingVars
<1>2. NumberType'
  BY <1>0 DEF NumberType, delayVars, pingVars
<1>3. PlaceType'
  BY <1>0 DEF PlaceType
<1>4. SilenceInv'
  <2>1. UNCHANGED <<is_connected, pingVars>>
    OBVIOUS
  <2> QED
    BY <2>1 DEF IInv, SilenceInv, StillToPass, Extra, pingVars
<1>5. PongInv'
  BY DEF IInv, PongInv, pingVars
<1>6. DelayInv' /\ PlaceInv'
  BY DEF IInv, DelayInv, PlaceInv, delayVars
<1> QED
  BY <1>1, <1>2, <1>3, <1>4, <1>5, <1>6, TypePartsNext DEF IInv

\* Every step keeps IInv.
LEMMA NextKeeps == IInv /\ [Next]_vars => IInv'
<1> SUFFICES ASSUME IInv, [Next]_vars PROVE IInv'
  OBVIOUS
<1>1. CASE Next
  BY <1>1, IdleKeeps, HearKeeps, KeepAliveKeeps, DisconnectKeeps, AttemptFailsKeeps,
    ReconnectKeeps, TickKeeps, WorldKeeps
  DEF Next, IdleStep, ReadStep, KeepAlive, ReconnectStep
<1>2. CASE UNCHANGED vars
  <2>1. UNCHANGED <<is_connected, server_alive, pingVars>>
    BY <1>2 DEF vars
  <2>2. TypeOK'
    BY <1>2 DEF IInv, TypeOK, vars, flagVars, delayVars, pingVars
  <2>3. DelayInv' /\ PlaceInv'
    BY <1>2 DEF IInv, DelayInv, PlaceInv, vars, delayVars
  <2> QED
    BY <2>1, <2>2, <2>3, PingsUntouched DEF IInv
<1> QED
  BY <1>1, <1>2

-----------------------------------------------------------------------------
(***************************************************************************)
(* What follows.                                                           *)
(***************************************************************************)

\* In every behaviour of the connection the invariant holds.
THEOREM Invariance == Spec => []IInv
  BY InitIInv, NextKeeps, PTL DEF Spec

\* Every variable keeps its type.
THEOREM TypeCorrect == Spec => []TypeOK
<1>1. IInv => TypeOK
  BY DEF IInv
<1> QED
  BY <1>1, Invariance, PTL

\* However reads, pings and time interleave, the loop gives a link up on which
\* nothing is heard before the interval and the waits for two pings are over.
THEOREM SilenceIsBounded == Spec => []SilenceBounded
<1>1. IInv => SilenceBounded
  <2> SUFFICES ASSUME IInv, is_connected PROVE since_heard <= MaxSilence
    BY DEF SilenceBounded
  <2>1. NumberType
    BY TypeParts DEF IInv
  <2>2. StillToPass >= 0 /\ StillToPass \in Nat
    BY <2>1 DEF StillToPass, Larger, NumberType
  <2>3. Extra <= Wait + Wait /\ Extra \in Nat
    BY <2>1, WaitType, ConnAssumption DEF Extra, NumberType
  <2> QED
    BY <2>1, <2>2, <2>3, WaitType, ConnAssumption DEF IInv, SilenceInv, NumberType
<1> QED
  BY <1>1, Invariance, PTL

\* The doubling delay never ends the attempts to reconnect before the fifth.
THEOREM TriedEnough == Spec => []TriesEnough
<1>1. IInv => TriesEnough
  <2>1. IInv => NumberType
    BY TypeParts DEF IInv
  <2> QED
    BY <2>1, ConnAssumption DEF IInv, TriesEnough, DelayInv, GivenUp, NumberType,
      EnoughAttempts
<1> QED
  BY <1>1, Invariance, PTL

\* A broker that answers a ping in less time than two pings are waited for is
\* never given up by _mqtt_keep_alive.
THEOREM LiveServerIsKept ==
  ASSUME ServerDelay < 2 * PingWait
  PROVE  Spec => LiveServerKept
<1>1. IInv /\ [Next]_vars => [GiveUpLink => ~server_alive]_vars
  <2> SUFFICES ASSUME IInv, GiveUpLink, server_alive PROVE FALSE
    OBVIOUS
  <2>1. NumberType
    BY TypeParts DEF IInv
  <2>2. is_ping_outstanding = 2 /\ ping_timer = 0
    BY <2>1 DEF GiveUpLink, NumberType, MQTT_PING_RETRY_TIMES
  <2>3. pong # None /\ pong >= PingWait + PingWait
    BY <2>1, <2>2, WaitType DEF IInv, PongInv, NumberType
  <2> QED
    BY <2>1, <2>3, WaitType, ConnAssumption DEF NumberType, None
<1> QED
  BY <1>1, Invariance, PTL DEF Spec, LiveServerKept

-----------------------------------------------------------------------------
(***************************************************************************)
(* The locks: what a path does to those of the worker that runs it.        *)
(***************************************************************************)
Rank(l) ==
  CASE l = "write_buf" -> 1
    [] l = "generic"   -> 2
    [] l = "list_pub"  -> 3
    [] l = "list_sub"  -> 4

\* A step turns the locks A of a worker into B: a lock is taken in order, one
\* that is held is released, an event whose callback may call the client is
\* raised with no lock held.
Moves(A, s, B) ==
  \/ /\ s.do = "lock"
     /\ s.what \in Locks
     /\ \A l \in A : Rank(l) < Rank(s.what)
     /\ B = A \cup {s.what}
  \/ /\ s.do = "unlock"
     /\ s.what \in A
     /\ B = A \ {s.what}
  \/ /\ s.do = "event"
     /\ s.what \in EventsUnderLock \/ A = {}
     /\ B = A

\* h[i] is what is held before the i-th step of the path r.
Holdings(h, r) ==
  /\ h \in [1 .. Len(r) + 1 -> SUBSET Locks]
  /\ \A i \in 1 .. Len(r) : Moves(h[i], r[i], h[i + 1])

\* The path r turns the locks A into B.
Leads(A, r, B) ==
  \E h : Holdings(h, r) /\ h[1] = A /\ h[Len(r) + 1] = B

\* The paths that may be run by who holds A, and that give back what they take.
Keeps(A) == {r \in Seq(Step) : Leads(A, r, A)}

-----------------------------------------------------------------------------
\* The steps are steps.
LEMMA StepType ==
  /\ \A l \in Locks : Take(l) \in Step /\ Give(l) \in Step
  /\ \A e \in EventsUnderLock \cup EventsFree : Event(e) \in Step
BY DEF Step, Take, Give, Event

\* A path that does nothing.
LEMMA EmptyLeads ==
  ASSUME NEW A \in SUBSET Locks
  PROVE  Leads(A, <<>>, A)
<1>1. Holdings([i \in 1 .. 1 |-> A], <<>>)
  BY DEF Holdings
<1> QED
  BY <1>1 DEF Leads

\* A path of one step.
LEMMA StepLeads ==
  ASSUME NEW A \in SUBSET Locks, NEW B \in SUBSET Locks, NEW s \in Step,
         Moves(A, s, B)
  PROVE  Leads(A, <<s>>, B)
<1> DEFINE h == [i \in 1 .. 2 |-> IF i = 1 THEN A ELSE B]
<1>1. Len(<<s>>) = 1 /\ <<s>>[1] = s
  OBVIOUS
<1>2. h \in [1 .. 2 -> SUBSET Locks] /\ h[1] = A /\ h[2] = B
  OBVIOUS
<1> HIDE DEF h
<1>3. Holdings(h, <<s>>)
  BY <1>1, <1>2 DEF Holdings
<1> QED
  BY <1>1, <1>2, <1>3 DEF Leads

\* One path after the other.
LEMMA ConcatLeads ==
  ASSUME NEW p \in Seq(Step), NEW q \in Seq(Step),
         NEW A, NEW B, NEW C,
         Leads(A, p, B), Leads(B, q, C)
  PROVE  Leads(A, p \o q, C)
<1>1. PICK f : Holdings(f, p) /\ f[1] = A /\ f[Len(p) + 1] = B
  BY DEF Leads
<1>2. PICK g : Holdings(g, q) /\ g[1] = B /\ g[Len(q) + 1] = C
  BY DEF Leads
<1> DEFINE m == Len(p)
           n == Len(q)
           h == [i \in 1 .. m + n + 1 |-> IF i <= m THEN f[i] ELSE g[i - m]]
<1>3. /\ m \in Nat /\ n \in Nat
      /\ Len(p \o q) = m + n
      /\ \A i \in 1 .. m : (p \o q)[i] = p[i]
      /\ \A i \in m + 1 .. m + n : (p \o q)[i] = q[i - m]
  BY ConcatProperties, LenProperties
<1>4. /\ f \in [1 .. m + 1 -> SUBSET Locks]
      /\ \A i \in 1 .. m : Moves(f[i], p[i], f[i + 1])
      /\ g \in [1 .. n + 1 -> SUBSET Locks]
      /\ \A i \in 1 .. n : Moves(g[i], q[i], g[i + 1])
  BY <1>1, <1>2 DEF Holdings
<1>5. f[m + 1] = g[1]
  BY <1>1, <1>2
<1>6. f[1] = A /\ g[n + 1] = C
  BY <1>1, <1>2
<1>7. h \in [1 .. m + n + 1 -> SUBSET Locks]
  <2> HIDE DEF m, n
  <2> QED
    BY <1>3, <1>4
<1>8. /\ \A i \in 1 .. m + 1 : h[i] = f[i]
      /\ \A i \in m + 1 .. m + n + 1 : h[i] = g[i - m]
  <2> HIDE DEF m, n
  <2> QED
    BY <1>3, <1>5
<1> HIDE DEF m, n, h
<1>9. ASSUME NEW i \in 1 .. m + n
      PROVE  Moves(h[i], (p \o q)[i], h[i + 1])
  <2>1. CASE i <= m
    <3>1. i \in 1 .. m /\ i \in 1 .. m + 1 /\ i + 1 \in 1 .. m + 1
      BY <1>3, <2>1
    <3> QED
      BY <3>1, <1>3, <1>4, <1>8
  <2>2. CASE ~(i <= m)
    <3>1. /\ i \in m + 1 .. m + n
          /\ i \in m + 1 .. m + n + 1
          /\ i + 1 \in m + 1 .. m + n + 1
          /\ i - m \in 1 .. n
          /\ (i + 1) - m = (i - m) + 1
      BY <1>3, <2>2
    <3>2. \A j \in m + 1 .. m + n + 1 : h[j] = g[j - m]
      BY <1>8
    <3>3. h[i] = g[i - m]
      BY <3>1, <3>2
    <3>4. h[i + 1] = g[(i - m) + 1]
      <4>1. h[i + 1] = g[(i + 1) - m]
        BY <3>1, <3>2
      <4> QED
        BY <3>1, <4>1
    <3>5. \A j \in m + 1 .. m + n : (p \o q)[j] = q[j - m]
      BY <1>3
    <3>6. (p \o q)[i] = q[i - m]
      BY <3>1, <3>5
    <3>7. Moves(g[i - m], q[i - m], g[(i - m) + 1])
      BY <3>1, <1>4
    <3> QED
      BY <3>3, <3>4, <3>6, <3>7
  <2> QED
    BY <2>1, <2>2
<1>10. Holdings(h, p \o q)
  BY <1>3, <1>7, <1>9 DEF Holdings
<1>11. h[1] = A /\ h[m + n + 1] = C
  <2>1. 1 \in 1 .. m + 1 /\ m + n + 1 \in m + 1 .. m + n + 1 /\ (m + n + 1) - m = n + 1
    BY <1>3
  <2> QED
    BY <2>1, <1>6, <1>8
<1> QED
  BY <1>3, <1>10, <1>11 DEF Leads

\* The first step of a path, and what is left of it.
LEMMA FirstStep ==
  ASSUME NEW r \in Seq(Step), r # <<>>, NEW A, NEW C, Leads(A, r, C)
  PROVE  \E B \in SUBSET Locks :
           Moves(A, Head(r), B) /\ Leads(B, Tail(r), C)
<1>1. PICK h : Holdings(h, r) /\ h[1] = A /\ h[Len(r) + 1] = C
  BY DEF Leads
<1> DEFINE n == Len(r)
           g == [i \in 1 .. n |-> h[i + 1]]
<1>2. /\ n \in Nat /\ n >= 1
      /\ Head(r) = r[1]
      /\ Tail(r) \in Seq(Step)
      /\ Len(Tail(r)) = n - 1
      /\ \A i \in 1 .. n - 1 : Tail(r)[i] = r[i + 1]
  BY HeadTailProperties, LenProperties, EmptySeq
<1>3. /\ h \in [1 .. n + 1 -> SUBSET Locks]
      /\ \A i \in 1 .. n : Moves(h[i], r[i], h[i + 1])
  BY <1>1 DEF Holdings
<1>4. h[1] = A /\ h[n + 1] = C
  BY <1>1
<1> HIDE DEF n
<1>5. /\ g \in [1 .. (n - 1) + 1 -> SUBSET Locks]
      /\ g[1] = h[2]
      /\ g[(n - 1) + 1] = C
  BY <1>2, <1>3, <1>4
<1>6. \A i \in 1 .. n - 1 : Moves(g[i], Tail(r)[i], g[i + 1])
  BY <1>2, <1>3
<1> HIDE DEF g
<1>7. Holdings(g, Tail(r))
  BY <1>2, <1>5, <1>6 DEF Holdings
<1>8. Leads(h[2], Tail(r), C)
  BY <1>2, <1>5, <1>7 DEF Leads
<1>9. Moves(A, Head(r), h[2]) /\ h[2] \in SUBSET Locks
  BY <1>2, <1>3, <1>4
<1> QED
  BY <1>8, <1>9

-----------------------------------------------------------------------------
(***************************************************************************)
(* The paths that keep what is held.                                       *)
(***************************************************************************)
LEMMA EmptyKeeps ==
  ASSUME NEW A \in SUBSET Locks
  PROVE  <<>> \in Keeps(A)
BY EmptyLeads DEF Keeps

LEMMA ConcatKeeps ==
  ASSUME NEW A, NEW p \in Keeps(A), NEW q \in Keeps(A)
  PROVE  p \o q \in Keeps(A)
BY ConcatLeads, ConcatProperties DEF Keeps

\* An event under a lock is one whose callback calls nothing.
LEMMA EventKeeps ==
  ASSUME NEW A \in SUBSET Locks, NEW e \in EventsUnderLock \cup EventsFree,
         e \in EventsUnderLock \/ A = {}
  PROVE  <<Event(e)>> \in Keeps(A)
<1>1. Event(e) \in Step
  BY StepType
<1>2. Moves(A, Event(e), A)
  BY DEF Moves, Event
<1> QED
  BY <1>1, <1>2, StepLeads DEF Keeps

\* A lock taken in order round a path that keeps it.
LEMMA WithKeeps ==
  ASSUME NEW A \in SUBSET Locks, NEW l \in Locks,
         l \notin A, \A k \in A : Rank(k) < Rank(l),
         NEW p \in Keeps(A \cup {l})
  PROVE  With(l, p) \in Keeps(A)
<1> DEFINE B == A \cup {l}
<1>1. Take(l) \in Step /\ Give(l) \in Step /\ B \in SUBSET Locks
  BY StepType
<1>2. Moves(A, Take(l), B)
  BY DEF Moves, Take
<1>3. Moves(B, Give(l), A)
  BY DEF Moves, Give
<1>4. p \in Seq(Step) /\ Leads(B, p, B)
  BY DEF Keeps
<1>5. Leads(A, <<Take(l)>>, B) /\ Leads(B, <<Give(l)>>, A)
  <2> HIDE DEF B
  <2> QED
    BY <1>1, <1>2, <1>3, StepLeads
<1> HIDE DEF B
<1>6. <<Take(l)>> \in Seq(Step) /\ <<Give(l)>> \in Seq(Step)
  BY <1>1
<1>7. /\ <<Take(l)>> \o p \in Seq(Step)
      /\ Leads(A, <<Take(l)>> \o p, B)
  BY <1>4, <1>5, <1>6, ConcatLeads, ConcatProperties
<1>8. /\ (<<Take(l)>> \o p) \o <<Give(l)>> \in Seq(Step)
      /\ Leads(A, (<<Take(l)>> \o p) \o <<Give(l)>>, A)
  BY <1>5, <1>6, <1>7, ConcatLeads, ConcatProperties
<1> QED
  BY <1>8 DEF Keeps, With

LEMMA TouchKeeps ==
  ASSUME NEW A \in SUBSET Locks, NEW l \in Locks,
         l \notin A, \A k \in A : Rank(k) < Rank(l)
  PROVE  Touch(l) \in Keeps(A)
<1>1. A \cup {l} \in SUBSET Locks
  OBVIOUS
<1>2. <<>> \in Keeps(A \cup {l})
  BY <1>1, EmptyKeeps
<1> QED
  BY <1>2, WithKeeps DEF Touch

\* The order, and the locks a path below is run with.
LEMMA Order ==
  /\ Rank("write_buf") = 1 /\ Rank("generic") = 2
  /\ Rank("list_pub") = 3 /\ Rank("list_sub") = 4
  /\ {} \in SUBSET Locks
  /\ \A l \in Locks : {} \cup {l} = {l} /\ {l} \in SUBSET Locks
  /\ {"write_buf", "generic", "list_pub", "list_sub"} \subseteq Locks
BY DEF Rank, Locks

\* Locks taken and given back at once, by who holds nothing or holds a lock
\* that comes before.
LEMMA Touches ==
  /\ \A l \in Locks : Touch(l) \in Keeps({})
  /\ Touch("generic") \in Keeps({"write_buf"})
  /\ Touch("list_pub") \in Keeps({"write_buf"})
  /\ Touch("list_sub") \in Keeps({"write_buf"})
  /\ Touch("list_sub") \in Keeps({"generic"})
<1>1. \A l \in Locks : Touch(l) \in Keeps({})
  BY Order, TouchKeeps
<1>2. ASSUME NEW k \in Locks, NEW l \in Locks, k # l, Rank(k) < Rank(l)
      PROVE  Touch(l) \in Keeps({k})
  <2>1. {k} \in SUBSET Locks /\ l \notin {k} /\ \A j \in {k} : Rank(j) < Rank(l)
    BY <1>2
  <2> QED
    BY <2>1, TouchKeeps
<1> QED
  BY <1>1, <1>2, Order

\* A lock taken by who holds nothing.
LEMMA WithAlone ==
  ASSUME NEW l \in Locks, NEW p \in Keeps({l})
  PROVE  With(l, p) \in Keeps({})
BY Order, WithKeeps

-----------------------------------------------------------------------------
(***************************************************************************)
(* Every path of the client keeps nothing and takes locks in order.        *)
(***************************************************************************)
LEMMA RequestsKeep ==
  ASSUME NEW list \in {"list_pub", "list_sub"}
  PROVE  Requests(list) \subseteq Keeps({})
<1>1. ConnState \in Keeps({})
  BY Touches, Order DEF ConnState
<1>2. Touch(list) \in Keeps({"write_buf"})
  BY Touches
<1>3. \A p \in {<<>>, Touch(list), Touch(list) \o Touch(list)} :
        p \in Keeps({"write_buf"})
  <2>1. <<>> \in Keeps({"write_buf"})
    BY EmptyKeeps, Order
  <2>2. Touch(list) \o Touch(list) \in Keeps({"write_buf"})
    BY <1>2, ConcatKeeps
  <2> QED
    BY <1>2, <2>1, <2>2
<1>4. \A p \in {<<>>, Touch(list), Touch(list) \o Touch(list)} :
        Touch("generic") \o p \in Keeps({"write_buf"})
  BY <1>3, ConcatKeeps, Touches
<1>5. \A p \in {<<>>, Touch(list), Touch(list) \o Touch(list)} :
        With("write_buf", Touch("generic") \o p) \in Keeps({})
  BY <1>4, WithAlone, Order
<1>6. \A p \in {<<>>, Touch(list), Touch(list) \o Touch(list)} :
        ConnState \o With("write_buf", Touch("generic") \o p) \in Keeps({})
  BY <1>1, <1>5, ConcatKeeps
<1> QED
  BY <1>1, <1>6 DEF Requests

\* The calls of the application.
LEMMA CallsKeep ==
  ASSUME NEW name \in Names
  PROVE  CallPaths(name) \subseteq Keeps({})
<1>1. ConnState \in Keeps({}) /\ Touch("write_buf") \in Keeps({})
  BY Touches, Order DEF ConnState
<1>2. PublishQos0 \subseteq Keeps({})
  <2>1. ConnState \o Touch("write_buf") \in Keeps({})
    BY <1>1, ConcatKeeps
  <2> QED
    BY <2>1 DEF PublishQos0
<1>3. Publish \subseteq Keeps({}) /\ Subscribe \subseteq Keeps({})
  BY RequestsKeep DEF Publish, Subscribe
<1>4. Unsubscribe \subseteq Keeps({})
  <2>1. <<Event("UNSUBSCRIBE")>> \in Keeps({"generic"})
    <3>1. "UNSUBSCRIBE" \in EventsUnderLock
      BY DEF EventsUnderLock
    <3> QED
      BY <3>1, EventKeeps, Order
  <2>2. With("generic", <<Event("UNSUBSCRIBE")>>) \in Keeps({})
    BY <2>1, WithAlone, Order
  <2>3. Touch("generic") \in Keeps({})
    BY Touches, Order
  <2>4. \A c \in Clears : c \in Keeps({})
    BY <2>2, <2>3 DEF Clears
  <2> DEFINE after == {<<>>} \cup Requests("list_sub")
  <2>5. Unsubscribe = {c \o q : c \in Clears, q \in after}
    BY DEF Unsubscribe
  <2>6. \A q \in after : q \in Keeps({})
    BY EmptyKeeps, RequestsKeep, Order
  <2> HIDE DEF after
  <2>7. \A c \in Clears : \A q \in after : c \o q \in Keeps({})
    BY <2>4, <2>6, ConcatKeeps
  <2>8. ASSUME NEW p \in {c \o q : c \in Clears, q \in after}
        PROVE  \E c \in Clears : \E q \in after : p = c \o q
    OBVIOUS
  <2>9. ASSUME NEW p \in Unsubscribe
        PROVE  p \in Keeps({})
    <3>1. p \in {c \o q : c \in Clears, q \in after}
      BY <2>5
    <3>2. \E c \in Clears : \E q \in after : p = c \o q
      BY <3>1, <2>8
    <3> QED
      BY <3>2, <2>7
  <2> QED
    BY <2>9
<1> QED
  BY <1>2, <1>3, <1>4 DEF Names, CallPaths

LEMMA EventsKeep ==
  /\ \A e \in EventsFree : <<Event(e)>> \in Keeps({})
  /\ \A e \in EventsUnderLock : \A A \in SUBSET Locks : <<Event(e)>> \in Keeps(A)
BY EventKeeps, Order

\* What is read from the network.
LEMMA ReadsKeep == Reads \subseteq Keeps({})
<1>1. /\ Touch("generic") \in Keeps({}) /\ Touch("write_buf") \in Keeps({})
      /\ Touch("list_pub") \in Keeps({}) /\ Touch("list_sub") \in Keeps({})
      /\ <<>> \in Keeps({})
  BY Touches, EmptyKeeps, Order
<1>2. \A e \in EventsFree : <<Event(e)>> \in Keeps({})
  BY EventsKeep
<1>3. Puback \in Keeps({})
  <2>1. Touch("list_pub") \o <<Event("PUBLISH_SUCCESS")>> \in Keeps({})
    BY <1>1, <1>2, ConcatKeeps DEF EventsFree
  <2> QED
    BY <1>1, <2>1, ConcatKeeps DEF Puback
<1>4. Suback \subseteq Keeps({})
  <2> DEFINE mask == With("generic", Touch("list_sub"))
  <2>1. mask \in Keeps({})
    BY WithAlone, Touches, Order
  <2> HIDE DEF mask
  <2>2. /\ <<Event("SUBCRIBE_SUCCESS")>> \in Keeps({})
        /\ <<Event("SUBCRIBE_NACK")>> \in Keeps({})
    BY <1>2 DEF EventsFree
  <2>3. mask \o <<Event("SUBCRIBE_SUCCESS")>> \o Touch("generic") \in Keeps({})
    <3>1. mask \o <<Event("SUBCRIBE_SUCCESS")>> \in Keeps({})
      BY <2>1, <2>2, ConcatKeeps
    <3> QED
      BY <3>1, <1>1, ConcatKeeps
  <2>4. <<Event("SUBCRIBE_NACK")>> \o mask \o <<Event("SUBCRIBE_NACK")>>
          \o Touch("generic") \in Keeps({})
    <3>1. <<Event("SUBCRIBE_NACK")>> \o mask \in Keeps({})
      BY <2>1, <2>2, ConcatKeeps
    <3>2. <<Event("SUBCRIBE_NACK")>> \o mask \o <<Event("SUBCRIBE_NACK")>>
            \in Keeps({})
      BY <3>1, <2>2, ConcatKeeps
    <3> QED
      BY <3>2, <1>1, ConcatKeeps
  <2>5. mask \o Touch("generic") \in Keeps({})
    BY <2>1, <1>1, ConcatKeeps
  <2> QED
    BY <2>3, <2>4, <2>5 DEF Suback, mask
<1>5. Unsuback \in Keeps({})
  <2>1. <<Event("UNSUBCRIBE_SUCCESS")>> \in Keeps({"generic"})
    BY EventsKeep, Order DEF EventsUnderLock
  <2>2. With("generic", <<Event("UNSUBCRIBE_SUCCESS")>>) \in Keeps({})
    BY <2>1, WithAlone, Order
  <2>3. Touch("list_sub") \o With("generic", <<Event("UNSUBCRIBE_SUCCESS")>>)
          \in Keeps({})
    BY <1>1, <2>2, ConcatKeeps
  <2> QED
    BY <1>1, <2>3, ConcatKeeps DEF Unsuback
<1>6. Message \in Keeps({})
  BY <1>1, <1>2, ConcatKeeps DEF Message, EventsFree
<1>7. /\ Message \o Touch("generic") \in Keeps({})
      /\ Message \o Touch("write_buf") \o Touch("generic") \in Keeps({})
  <2>1. Message \o Touch("write_buf") \in Keeps({})
    BY <1>1, <1>6, ConcatKeeps
  <2> QED
    BY <1>1, <1>6, <2>1, ConcatKeeps
<1> QED
  BY <1>1, <1>3, <1>4, <1>5, <1>7 DEF Reads

\* The walks over the two lists.
LEMMA ProcsKeep ==
  /\ PubInfoProc \subseteq Keeps({})
  /\ SubInfoProc \subseteq Keeps({})
<1>1. Touch("list_pub") \in Keeps({}) /\ Touch("list_sub") \in Keeps({})
  BY Touches, Order
<1>2. With("list_pub",
           <<Give("list_pub"), Take("list_pub"), Event("PUBLISH_TIMEOUT")>>)
        \in Keeps({})
  <2> DEFINE A == {"list_pub"}
             r == <<Give("list_pub"), Take("list_pub"), Event("PUBLISH_TIMEOUT")>>
             h == [i \in 1 .. 4 |-> IF i = 2 THEN {} ELSE A]
  <2>1. /\ r \in Seq(Step) /\ Len(r) = 3
        /\ r[1] = Give("list_pub") /\ r[2] = Take("list_pub")
        /\ r[3] = Event("PUBLISH_TIMEOUT")
    <3>1. /\ Give("list_pub") \in Step /\ Take("list_pub") \in Step
          /\ Event("PUBLISH_TIMEOUT") \in Step
      BY StepType DEF Locks, EventsUnderLock
    <3> QED
      BY <3>1
  <2>2. /\ h \in [1 .. 4 -> SUBSET Locks]
        /\ h[1] = A /\ h[2] = {} /\ h[3] = A /\ h[4] = A
    BY Order
  <2> HIDE DEF r, h
  <2>3. /\ Moves(h[1], r[1], h[2]) /\ Moves(h[2], r[2], h[3])
        /\ Moves(h[3], r[3], h[4])
    BY <2>1, <2>2 DEF Moves, Give, Take, Event, Locks, EventsUnderLock
  <2>4. \A i \in 1 .. 3 : Moves(h[i], r[i], h[i + 1])
    BY <2>3
  <2> HIDE DEF A
  <2>5. Leads(A, r, A)
    BY <2>1, <2>2, <2>4 DEF Leads, Holdings
  <2>6. r \in Keeps({"list_pub"})
    BY <2>1, <2>5 DEF Keeps, A
  <2> QED
    BY <2>6, WithAlone, Order DEF r
<1>3. ASSUME NEW e \in {"SUBCRIBE_TIMEOUT", "UNSUBCRIBE_TIMEOUT"}
      PROVE  With("list_sub", <<Event(e)>>) \in Keeps({})
  <2>1. <<Event(e)>> \in Keeps({"list_sub"})
    BY EventsKeep, Order DEF EventsUnderLock
  <2> QED
    BY <2>1, WithAlone, Order
<1> QED
  BY <1>1, <1>2, <1>3 DEF PubInfoProc, SubInfoProc

\* Disconnections, keep-alive and attempts to reconnect.
LEMMA LinkKeeps ==
  /\ Disconnects \in Keeps({})
  /\ KeepAlives \subseteq Keeps({})
  /\ ReconnectPaths \subseteq Keeps({})
<1>1. /\ ConnState \in Keeps({}) /\ Touch("write_buf") \in Keeps({})
      /\ Touch("generic") \in Keeps({}) /\ <<>> \in Keeps({})
  BY Touches, EmptyKeeps, Order DEF ConnState
<1>2. /\ <<Event("DISCONNECT")>> \in Keeps({})
      /\ <<Event("RECONNECT")>> \in Keeps({})
  BY EventsKeep DEF EventsFree
<1>3. Disconnects \in Keeps({})
  <2>1. ConnState \o Touch("write_buf") \in Keeps({})
    BY <1>1, ConcatKeeps
  <2>2. ConnState \o Touch("write_buf") \o ConnState \in Keeps({})
    BY <1>1, <2>1, ConcatKeeps
  <2> QED
    BY <1>2, <2>2, ConcatKeeps DEF Disconnects
<1>4. KeepAlives \subseteq Keeps({})
  <2>1. Touch("write_buf") \o Touch("generic") \in Keeps({})
    BY <1>1, ConcatKeeps
  <2>2. Touch("write_buf") \o Disconnects \in Keeps({})
    BY <1>1, <1>3, ConcatKeeps
  <2> QED
    BY <1>1, <1>3, <2>1, <2>2 DEF KeepAlives
<1>5. ReconnectPaths \subseteq Keeps({})
  <2> DEFINE attempt == ConnState \o Touch("write_buf")
             connected == attempt \o ConnState \o Touch("generic") \o ConnState
  <2>1. attempt \in Keeps({})
    BY <1>1, ConcatKeeps
  <2> HIDE DEF attempt
  <2>2. attempt \o ConnState \in Keeps({})
    BY <1>1, <2>1, ConcatKeeps
  <2>3. attempt \o ConnState \o Touch("generic") \in Keeps({})
    BY <1>1, <2>2, ConcatKeeps
  <2>4. connected \in Keeps({})
    BY <1>1, <2>3, ConcatKeeps
  <2>5. \A p \in {<<>>} \cup Subscribe :
          connected \o p \o <<Event("RECONNECT")>> \in Keeps({})
    <3> HIDE DEF connected
    <3>1. \A p \in {<<>>} \cup Subscribe : p \in Keeps({})
      BY <1>1, CallsKeep DEF CallPaths, Names
    <3>2. \A p \in {<<>>} \cup Subscribe : connected \o p \in Keeps({})
      BY <3>1, <2>4, ConcatKeeps
    <3> QED
      BY <3>2, <1>2, ConcatKeeps
  <2> QED
    BY <1>1, <2>2, <2>5 DEF ReconnectPaths, attempt, connected
<1> QED
  BY <1>3, <1>4, <1>5

LEMMA YieldsKeep ==
  ASSUME NEW st \in Stages
  PROVE  Yields(st) \subseteq Keeps({})
BY ReadsKeep, ProcsKeep, LinkKeeps DEF Stages, Yields

-----------------------------------------------------------------------------
(***************************************************************************)
(* The inductive invariant: what a worker has left to do gives back, in    *)
(* the order of the locks, all that it holds.                              *)
(***************************************************************************)
Held(w) == {l \in Locks : holder[l] = w}

PathInv == \A w \in Workers : Leads(Held(w), rest[w], {})

LockIInv == LockTypeOK /\ PathInv

\* The callbacks that call the client are those of events raised with no lock
\* held: what an application has to respect, and what the other events rule out.
CallsFromFreeEvents == Reenters \subseteq EventsFree

\* A path with nothing left has given everything back.
LEMMA EndLeads ==
  ASSUME NEW A, NEW C, Leads(A, <<>>, C)
  PROVE  A = C
BY DEF Leads

LEMMA HeldType == \A w : Held(w) \in SUBSET Locks
BY DEF Held

LEMMA LockInitInv == LockInit => LockIInv
<1> SUFFICES ASSUME LockInit
             PROVE  LockIInv
  OBVIOUS
<1>1. LockTypeOK
  BY DEF LockInit, LockTypeOK, Stages
<1>2. ASSUME NEW w \in Workers
      PROVE  Leads(Held(w), rest[w], {})
  <2>1. Held(w) = {} /\ rest[w] = <<>>
    BY LocksAssumption DEF LockInit, Held
  <2> QED
    BY <2>1, EmptyLeads, Order
<1> QED
  BY <1>1, <1>2 DEF LockIInv, PathInv

\* A worker with nothing left starts on a path that keeps nothing.
LEMMA StartPreserves ==
  ASSUME LockIInv, NEW w \in Workers, rest[w] = <<>>, NEW p \in Keeps({}),
         rest' = [rest EXCEPT ![w] = p], holder' = holder
  PROVE  PathInv' /\ rest' \in [Workers -> Seq(Step)]
<1>1. p \in Seq(Step) /\ Leads({}, p, {})
  BY DEF Keeps
<1>2. Held(w) = {}
  BY EndLeads DEF LockIInv, PathInv
<1>3. rest' \in [Workers -> Seq(Step)]
  BY <1>1 DEF LockIInv, LockTypeOK
<1>4. ASSUME NEW v \in Workers
      PROVE  Leads(Held(v)', rest'[v], {})
  <2>1. Held(v)' = Held(v)
    BY DEF Held
  <2>2. CASE v = w
    <3>1. rest'[v] = p
      BY <2>2 DEF LockIInv, LockTypeOK
    <3> QED
      BY <1>1, <1>2, <2>1, <2>2, <3>1
  <2>3. CASE v # w
    <3>1. rest'[v] = rest[v]
      BY <2>3 DEF LockIInv, LockTypeOK
    <3> QED
      BY <2>1, <3>1 DEF LockIInv, PathInv
  <2> QED
    BY <2>2, <2>3
<1> QED
  BY <1>3, <1>4 DEF PathInv

\* A worker does a step, which turns what it holds into B, and has a path left
\* that gives B back; the locks of the others are not touched.
LEMMA StepPreserves ==
  ASSUME LockIInv, NEW w \in Workers, NEW p \in Seq(Step), NEW B,
         rest' = [rest EXCEPT ![w] = p],
         Held(w)' = B, Leads(B, p, {}),
         \A v \in Workers \ {w} : Held(v)' = Held(v)
  PROVE  PathInv' /\ rest' \in [Workers -> Seq(Step)]
<1>1. rest' \in [Workers -> Seq(Step)]
  BY DEF LockIInv, LockTypeOK
<1>2. ASSUME NEW v \in Workers
      PROVE  Leads(Held(v)', rest'[v], {})
  <2>1. CASE v = w
    <3>1. rest'[v] = p
      BY <2>1 DEF LockIInv, LockTypeOK
    <3> QED
      BY <2>1, <3>1
  <2>2. CASE v # w
    <3>1. rest'[v] = rest[v]
      BY <2>2 DEF LockIInv, LockTypeOK
    <3> QED
      BY <2>2, <3>1 DEF LockIInv, PathInv
  <2> QED
    BY <2>1, <2>2
<1> QED
  BY <1>1, <1>2 DEF PathInv

LEMMA LockNextInv ==
  ASSUME CallsFromFreeEvents, LockIInv, [LockNext]_lockVars
  PROVE  LockIInv'
<1>1. ASSUME NEW t \in Tasks, Call(t)
      PROVE  LockIInv'
  <2>1. PICK n \in Calls : \E path \in CallPaths(n) :
          rest' = [rest EXCEPT ![t] = path]
    BY <1>1 DEF Call
  <2>2. PICK path \in CallPaths(n) : rest' = [rest EXCEPT ![t] = path]
    BY <2>1
  <2>3. t \in Workers /\ n \in Names
    BY LocksAssumption DEF Workers
  <2>4. path \in Keeps({})
    BY <2>3, CallsKeep
  <2>5. rest[t] = <<>> /\ holder' = holder /\ stage' = stage
    BY <1>1 DEF Call
  <2>6. PathInv' /\ rest' \in [Workers -> Seq(Step)]
    BY <2>2, <2>3, <2>4, <2>5, StartPreserves
  <2> QED
    BY <2>5, <2>6 DEF LockIInv, LockTypeOK
<1>2. ASSUME Yield
      PROVE  LockIInv'
  <2>1. PICK path \in Yields(stage) : rest' = [rest EXCEPT ![Yielder] = path]
    BY <1>2 DEF Yield
  <2>2. Yielder \in Workers /\ path \in Keeps({})
    BY YieldsKeep DEF Workers, LockIInv, LockTypeOK
  <2>3. rest[Yielder] = <<>> /\ holder' = holder
    BY <1>2 DEF Yield
  <2>4. stage' \in Stages
    BY <1>2 DEF Yield, After, Stages, LockIInv, LockTypeOK
  <2>5. PathInv' /\ rest' \in [Workers -> Seq(Step)]
    BY <2>1, <2>2, <2>3, StartPreserves
  <2> QED
    BY <2>3, <2>4, <2>5 DEF LockIInv, LockTypeOK
<1>3. ASSUME NEW w \in Workers, Act(w)
      PROVE  LockIInv'
  <2> DEFINE s == Head(rest[w])
             A == Held(w)
  <2>1. rest[w] # <<>> /\ stage' = stage
    BY <1>3 DEF Act, HAL_MutexLock, HAL_MutexUnlock, Callback, Does
  <2>2. rest[w] \in Seq(Step) /\ Leads(A, rest[w], {})
    BY DEF LockIInv, LockTypeOK, PathInv
  <2>3. s \in Step /\ Tail(rest[w]) \in Seq(Step)
    BY <2>1, <2>2, HeadTailProperties
  <2>4. PICK B \in SUBSET Locks : Moves(A, s, B) /\ Leads(B, Tail(rest[w]), {})
    BY <2>1, <2>2, FirstStep
  <2>5. holder \in [Locks -> Workers \cup {Free}] /\ Free \notin Workers
    BY LocksAssumption DEF LockIInv, LockTypeOK
  <2>6. CASE HAL_MutexLock(w)
    <3>1. /\ s.do = "lock" /\ holder[s.what] = Free
          /\ holder' = [holder EXCEPT ![s.what] = w]
          /\ rest' = [rest EXCEPT ![w] = Tail(rest[w])]
      BY <2>6 DEF HAL_MutexLock, Does
    <3>2. s.what \in Locks /\ B = A \cup {s.what}
      BY <3>1, <2>4 DEF Moves
    <3> HIDE DEF s
    <3>3. Held(w)' = B
      BY <2>5, <3>1, <3>2 DEF Held
    <3>4. \A v \in Workers \ {w} : Held(v)' = Held(v)
      BY <2>5, <3>1, <3>2 DEF Held
    <3>5. holder' \in [Locks -> Workers \cup {Free}]
      BY <2>5, <3>1, <3>2
    <3>6. PathInv' /\ rest' \in [Workers -> Seq(Step)]
      BY <2>3, <2>4, <3>1, <3>3, <3>4, StepPreserves
    <3> QED
      BY <2>1, <3>5, <3>6 DEF LockIInv, LockTypeOK
  <2>7. CASE HAL_MutexUnlock(w)
    <3>1. /\ s.do = "unlock"
          /\ holder' = [holder EXCEPT ![s.what] = Free]
          /\ rest' = [rest EXCEPT ![w] = Tail(rest[w])]
      BY <2>7 DEF HAL_MutexUnlock, Does
    <3>2. s.what \in A /\ B = A \ {s.what}
      BY <3>1, <2>4 DEF Moves
    <3> HIDE DEF s
    <3>3. s.what \in Locks /\ holder[s.what] = w
      BY <3>2 DEF Held
    <3>4. Held(w)' = B
      BY <2>5, <3>1, <3>2, <3>3 DEF Held
    <3>5. \A v \in Workers \ {w} : Held(v)' = Held(v)
      BY <2>5, <3>1, <3>3 DEF Held
    <3>6. holder' \in [Locks -> Workers \cup {Free}]
      BY <2>5, <3>1, <3>3
    <3>7. PathInv' /\ rest' \in [Workers -> Seq(Step)]
      BY <2>3, <2>4, <3>1, <3>4, <3>5, StepPreserves
    <3> QED
      BY <2>1, <3>6, <3>7 DEF LockIInv, LockTypeOK
  <2>8. CASE Callback(w)
    <3>1. s.do = "event" /\ holder' = holder
      BY <2>8 DEF Callback, Does
    <3>2. B = A /\ (s.what \in EventsUnderLock \/ A = {})
      BY <3>1, <2>4 DEF Moves
    <3>3. \E path \in Keeps(A) :
            rest' = [rest EXCEPT ![w] = path \o Tail(rest[w])]
      <4>1. <<>> \in Keeps(A)
        BY EmptyKeeps, HeldType
      <4>2. CASE rest' = [rest EXCEPT ![w] = <<>> \o Tail(rest[w])]
        BY <4>1, <4>2
      <4>3. CASE s.what \in Reenters
        <5>1. A = {}
          BY <3>2, <4>3 DEF CallsFromFreeEvents, EventsFree, EventsUnderLock
        <5>2. \A n \in CallbackCalls : CallPaths(n) \subseteq Keeps(A)
          BY <5>1, CallsKeep, LocksAssumption
        <5>3. \A path \in {<<>>} \cup UNION {CallPaths(n) : n \in CallbackCalls} :
                path \in Keeps(A)
          BY <4>1, <5>2
        <5>4. \E path \in {<<>>} \cup UNION {CallPaths(n) : n \in CallbackCalls} :
                rest' = [rest EXCEPT ![w] = path \o Tail(rest[w])]
          BY <2>8, <4>3 DEF Callback
        <5> QED
          BY <5>3, <5>4
      <4>4. CASE s.what \notin Reenters
        <5>1. \E path \in {<<>>} :
                rest' = [rest EXCEPT ![w] = path \o Tail(rest[w])]
          BY <2>8, <4>4 DEF Callback
        <5> QED
          BY <5>1, <4>2
      <4> QED
        BY <4>3, <4>4
    <3>4. PICK path \in Keeps(A) :
            rest' = [rest EXCEPT ![w] = path \o Tail(rest[w])]
      BY <3>3
    <3>5. path \in Seq(Step) /\ Leads(A, path, A)
      BY DEF Keeps
    <3>6. /\ path \o Tail(rest[w]) \in Seq(Step)
          /\ Leads(A, path \o Tail(rest[w]), {})
      BY <2>3, <2>4, <3>2, <3>5, ConcatLeads, ConcatProperties
    <3>7. \A v : Held(v)' = Held(v)
      BY <3>1 DEF Held
    <3>8. PathInv' /\ rest' \in [Workers -> Seq(Step)]
      BY <3>4, <3>6, <3>7, StepPreserves
    <3> QED
      BY <2>1, <3>1, <3>8 DEF LockIInv, LockTypeOK
  <2> QED
    BY <1>3, <2>6, <2>7, <2>8 DEF Act
<1>4. CASE UNCHANGED lockVars
  BY <1>4 DEF lockVars, LockIInv, LockTypeOK, PathInv, Held
<1> QED
  BY <1>1, <1>2, <1>3, <1>4 DEF LockNext

-----------------------------------------------------------------------------
(***************************************************************************)
(* The theorems.                                                           *)
(***************************************************************************)

\* On every path of every task, what is left to do gives back all the task
\* holds, each lock taken after those that come before it.
THEOREM LockInvariance ==
  ASSUME CallsFromFreeEvents
  PROVE  LockSpec => []LockIInv
<1>1. LockIInv /\ [LockNext]_lockVars => LockIInv'
  BY LockNextInv
<1> QED
  BY <1>1, LockInitInv, PTL DEF LockSpec

\* No call on a path releases a lock of another task, or one already released.
THEOREM OwnLocksReleased ==
  ASSUME CallsFromFreeEvents
  PROVE  LockSpec => []ReleasesItsOwn
<1>1. LockIInv => ReleasesItsOwn
  <2> SUFFICES ASSUME LockIInv, NEW w \in Workers, Does(w, "unlock")
               PROVE  holder[Head(rest[w]).what] = w
    BY DEF ReleasesItsOwn
  <2>1. rest[w] # <<>> /\ Head(rest[w]).do = "unlock"
    BY DEF Does
  <2>2. \E B \in SUBSET Locks : Moves(Held(w), Head(rest[w]), B)
    BY <2>1, FirstStep DEF LockIInv, LockTypeOK, PathInv
  <2> QED
    BY <2>1, <2>2 DEF Moves, Held
<1> QED
  BY <1>1, LockInvariance, PTL

\* A call that has returned has left no lock taken.
THEOREM NothingHeldOnReturn ==
  ASSUME CallsFromFreeEvents
  PROVE  LockSpec => []ReturnsUnlocked
<1>1. LockIInv => ReturnsUnlocked
  <2> SUFFICES ASSUME LockIInv, NEW w \in Workers, rest[w] = <<>>
               PROVE  \A l \in Locks : holder[l] # w
    BY DEF ReturnsUnlocked
  <2>1. Held(w) = {}
    BY EndLeads DEF LockIInv, PathInv
  <2> QED
    BY <2>1 DEF Held
<1> QED
  BY <1>1, LockInvariance, PTL

\* Tasks, however many, never wait for each other in a circle: who waits for a
\* lock waits for someone that waits for a later lock, and the locks are four.
THEOREM NoDeadlock ==
  ASSUME CallsFromFreeEvents
  PROVE  LockSpec => []NoCircularWait
<1>1. LockIInv => NoCircularWait
  <2> SUFFICES ASSUME LockIInv, NEW S \in SUBSET Workers, S # {},
                      \A v \in S : \E w \in S : WaitsFor(v, w)
               PROVE  FALSE
    BY DEF NoCircularWait
  <2> DEFINE Wanted(v) == Head(rest[v]).what
  <2>1. ASSUME NEW v \in S
        PROVE  /\ Wanted(v) \in Locks
               /\ \A l \in Held(v) : Rank(l) < Rank(Wanted(v))
    <3>1. rest[v] # <<>> /\ Head(rest[v]).do = "lock"
      BY DEF WaitsFor, Does
    <3>2. \E B \in SUBSET Locks : Moves(Held(v), Head(rest[v]), B)
      BY <3>1, FirstStep DEF LockIInv, LockTypeOK, PathInv
    <3> QED
      BY <3>1, <3>2 DEF Moves
  <2>2. ASSUME NEW v \in S
        PROVE  \E w \in S : Rank(Wanted(v)) < Rank(Wanted(w))
    <3>1. PICK w \in S : WaitsFor(v, w)
      OBVIOUS
    <3>2. Wanted(v) \in Held(w)
      BY <2>1, <3>1 DEF WaitsFor, Held
    <3> QED
      BY <2>1, <3>2
  <2>3. \A v \in S : Rank(Wanted(v)) \in 1 .. 4
    BY <2>1 DEF Rank, Locks
  <2> HIDE DEF Wanted
  <2>4. PICK v1 \in S : TRUE
    OBVIOUS
  <2>5. PICK v2 \in S : Rank(Wanted(v1)) < Rank(Wanted(v2))
    BY <2>2
  <2>6. PICK v3 \in S : Rank(Wanted(v2)) < Rank(Wanted(v3))
    BY <2>2
  <2>7. PICK v4 \in S : Rank(Wanted(v3)) < Rank(Wanted(v4))
    BY <2>2
  <2>8. PICK v5 \in S : Rank(Wanted(v4)) < Rank(Wanted(v5))
    BY <2>2
  <2> QED
    BY <2>3, <2>5, <2>6, <2>7, <2>8
<1> QED
  BY <1>1, LockInvariance, PTL
====
