------------------------------ MODULE MqttConn ------------------------------
(***************************************************************************)
(* The life of a connection as qcloud_iot_mqtt_yield drives it: reading,   *)
(* keep-alive pings, giving a dead link up, reconnecting with a doubling   *)
(* delay, giving up for good.  Only the task that calls yield changes this *)
(* state, so an action is one step of its loop.  Time passes in ticks (one *)
(* second of keep-alive time) while the client is connected; the delays    *)
(* between attempts to reconnect, which are longer, pass at any time.      *)
(***************************************************************************)
EXTENDS Integers

CONSTANTS
  KEEP_ALIVE,                  \* options.keep_alive_interval, in ticks
  RandomIntervals,             \* what _get_random_interval returns: 1000..1990
  MAX_RECONNECT_WAIT_INTERVAL, \* 60000
  ServerDelay,                 \* ticks a live server takes to answer a ping
  MayToggle,                   \* is set_autoreconnect called?
  MaxDisconnects               \* bound: disconnections

ASSUME ConnAssumption ==
  /\ KEEP_ALIVE \in Nat \ {0}
  /\ RandomIntervals \subseteq Nat \ {0}
  /\ RandomIntervals # {}
  /\ MAX_RECONNECT_WAIT_INTERVAL \in Nat
  /\ \A i \in RandomIntervals : 16 * i <= MAX_RECONNECT_WAIT_INTERVAL
  /\ ServerDelay \in Nat
  /\ MayToggle \in BOOLEAN
  /\ MaxDisconnects \in Nat

VARIABLES
  is_connected, was_manually_disconnected, auto_connect_enable,
  current_reconnect_wait_interval,
  reconnect_delay_expired,       \* has reconnect_delay_timer run out?
  is_ping_outstanding,
  ping_timer,                    \* ticks left
  counter_network_disconnected,
  ypc,                           \* where yield is
  rc,                            \* its local rc
  server_alive,                  \* does the broker answer on this connection?
  pong,                          \* ticks since the oldest open PINGREQ, or None
  checked,                       \* has keep-alive been looked at in this tick?
  since_heard,                   \* history: ticks since the last packet read
  attempts,                      \* history: attempts failed since disconnecting
  delay_drawn,                   \* history: was a delay drawn at that time?
  events                         \* history: the last event raised

pingVars  == <<is_ping_outstanding, ping_timer, pong, checked, since_heard>>
delayVars == <<current_reconnect_wait_interval, reconnect_delay_expired,
               attempts, delay_drawn>>
flagVars  == <<was_manually_disconnected, auto_connect_enable>>
vars == <<is_connected, flagVars, delayVars, pingVars,
          counter_network_disconnected, ypc, rc, server_alive, events>>

None == -1
\* Bound: attempts are counted up to the number TriesEnough asks for.
EnoughAttempts == 5
MQTT_PING_RETRY_TIMES == 2

Smaller(m, n) == IF m < n THEN m ELSE n
Larger(m, n)  == IF m < n THEN n ELSE m

\* The delay before an unanswered ping counts: Min(5, keep_alive_interval / 2).
PingWait == Smaller(5, KEEP_ALIVE \div 2)

\* The longest silence the loop can let pass.  A wait of no time takes a turn of
\* the loop all the same, which is a tick.
MaxSilence == KEEP_ALIVE + MQTT_PING_RETRY_TIMES * Larger(1, PingWait)

\* Bound: longer silences are not told apart.
TooLong == MaxSilence + 1

TypeOK ==
  /\ is_connected \in BOOLEAN /\ server_alive \in BOOLEAN /\ checked \in BOOLEAN
  /\ was_manually_disconnected \in BOOLEAN /\ auto_connect_enable \in BOOLEAN
  /\ reconnect_delay_expired \in BOOLEAN /\ delay_drawn \in BOOLEAN
  /\ current_reconnect_wait_interval \in 0..(2 * MAX_RECONNECT_WAIT_INTERVAL)
  /\ is_ping_outstanding \in 0..MQTT_PING_RETRY_TIMES
  /\ ping_timer \in 0..KEEP_ALIVE
  /\ counter_network_disconnected \in Nat
  /\ ypc \in {"out", "loop", "keep_alive", "disconnect", "count"}
  /\ rc \in {"SUCCESS", "RECONNECTED", "MANUALLY_DISCONNECTED", "NO_CONN",
             "ATTEMPTING_RECONNECT", "RECONNECT_TIMEOUT", "ERROR"}
  /\ pong \in 0..ServerDelay \cup {None}
  /\ since_heard \in 0..TooLong
  /\ attempts \in 0..EnoughAttempts
  /\ events \in {"none", "DISCONNECT", "RECONNECT"}

\* IOT_MQTT_Construct has zeroed the client and connected: no delay has been
\* chosen yet, and a timer at 0 counts as expired.
Init ==
  /\ is_connected = TRUE
  /\ was_manually_disconnected = FALSE
  /\ auto_connect_enable \in BOOLEAN
  /\ current_reconnect_wait_interval = 0
  /\ reconnect_delay_expired = TRUE
  /\ is_ping_outstanding = 0
  /\ ping_timer = KEEP_ALIVE
  /\ counter_network_disconnected = 0
  /\ ypc = "out"
  /\ rc = "SUCCESS"
  /\ server_alive = TRUE
  /\ pong = None
  /\ checked = FALSE
  /\ since_heard = 0
  /\ attempts = 0
  /\ delay_drawn = FALSE
  /\ events = "none"

-----------------------------------------------------------------------------
(***************************************************************************)
(* The call and its loop.                                                  *)
(***************************************************************************)

\* The checks on entry, then rc = SUCCESS and the loop.
Enter ==
  /\ ypc = "out"
  /\ \/ /\ ~is_connected /\ was_manually_disconnected
        /\ rc' = "MANUALLY_DISCONNECTED"
        /\ ypc' = "out"
     \/ /\ ~is_connected /\ ~was_manually_disconnected /\ ~auto_connect_enable
        /\ rc' = "NO_CONN"
        /\ ypc' = "out"
     \/ /\ is_connected \/ (~was_manually_disconnected /\ auto_connect_enable)
        /\ rc' = "SUCCESS"
        /\ ypc' = "loop"
  /\ UNCHANGED <<is_connected, flagVars, delayVars, pingVars,
                 counter_network_disconnected, server_alive, events>>

\* The time given to yield is over.
Leave ==
  /\ ypc = "loop"
  /\ ypc' = "out"
  /\ UNCHANGED <<is_connected, flagVars, delayVars, pingVars,
                 counter_network_disconnected, rc, server_alive, events>>

\* qcloud_iot_mqtt_set_autoreconnect, from any task at any time.
set_autoreconnect ==
  /\ MayToggle
  /\ auto_connect_enable' = ~auto_connect_enable
  /\ UNCHANGED <<is_connected, was_manually_disconnected, delayVars, pingVars,
                 counter_network_disconnected, ypc, rc, server_alive, events>>

-----------------------------------------------------------------------------
(***************************************************************************)
(* Connected: cycle_for_read, then the lists, then _mqtt_keep_alive.       *)
(***************************************************************************)

Reading == ypc = "loop" /\ is_connected

\* Mutant: without its early return, cycle_for_read takes the type of the packet
\* before for a new one.
ReadNothingClears ==
  /\ Reading
  /\ is_ping_outstanding' = 0
  /\ ypc' = "keep_alive"
  /\ rc' = "SUCCESS"
  /\ UNCHANGED <<is_connected, flagVars, delayVars, ping_timer, pong, checked,
                 since_heard, counter_network_disconnected, server_alive,
                 events>>

\* Nothing to read, or a packet that does not count as a sign of life.
ReadNothing ==
  /\ Reading
  /\ ypc' = "keep_alive"
  /\ rc' = "SUCCESS"
  /\ UNCHANGED <<is_connected, flagVars, delayVars, pingVars,
                 counter_network_disconnected, server_alive, events>>

\* Mutant: PINGRESP restarts the timer but does not forget the pings.
ReadAckKeepsOutstanding ==
  /\ Reading
  /\ server_alive
  /\ pong' = None
  /\ ping_timer' = KEEP_ALIVE
  /\ since_heard' = 0
  /\ ypc' = "keep_alive"
  /\ rc' = "SUCCESS"
  /\ UNCHANGED <<is_ping_outstanding, checked>>
  /\ UNCHANGED <<is_connected, flagVars, delayVars,
                 counter_network_disconnected, server_alive, events>>

\* PUBACK, SUBACK, UNSUBACK or PINGRESP: _handle_pingresp_packet.  (An ACK
\* other than PINGRESP may come before the PINGRESP that is still due.)  A
\* packet whose handler reports an error makes yield return.
ReadAck ==
  /\ Reading
  /\ server_alive
  /\ pong' \in {pong, None}
  /\ is_ping_outstanding' = 0
  /\ ping_timer' = KEEP_ALIVE
  /\ since_heard' = 0
  /\ \/ ypc' = "keep_alive" /\ rc' = "SUCCESS"
     \/ ypc' = "out" /\ rc' = "ERROR"
  /\ UNCHANGED <<is_connected, flagVars, delayVars,
                 counter_network_disconnected, checked, server_alive, events>>

\* PUBLISH: the link is well, but a ping is still sent when its time comes.
ReadPublish ==
  /\ Reading
  /\ server_alive
  /\ is_ping_outstanding' = 0
  /\ since_heard' = 0
  /\ \/ ypc' = "keep_alive" /\ rc' = "SUCCESS"
     \/ ypc' = "out" /\ rc' = "ERROR"
  /\ UNCHANGED <<is_connected, flagVars, delayVars,
                 counter_network_disconnected, ping_timer, pong, checked,
                 server_alive, events>>

\* A packet that cannot be used: yield returns the error.
ReadRefused ==
  /\ Reading
  /\ ypc' = "out"
  /\ rc' = "ERROR"
  /\ UNCHANGED <<is_connected, flagVars, delayVars, pingVars,
                 counter_network_disconnected, server_alive, events>>

\* The read failed.
ReadFail ==
  /\ Reading
  /\ counter_network_disconnected < MaxDisconnects
  /\ ypc' = "disconnect"
  /\ UNCHANGED <<is_connected, flagVars, delayVars, pingVars,
                 counter_network_disconnected, rc, server_alive, events>>

\* Mutant: the number of pings is not looked at.
PingUnlimited ==
  /\ ypc = "keep_alive"
  /\ ping_timer = 0
  /\ is_ping_outstanding' = is_ping_outstanding + 1
  /\ ping_timer' = PingWait
  /\ pong' = IF pong = None THEN 0 ELSE pong
  /\ checked' = TRUE
  /\ ypc' = "loop"
  /\ UNCHANGED <<is_connected, flagVars, delayVars,
                 counter_network_disconnected, since_heard, rc, server_alive,
                 events>>

\* Two pings in a row have gone unanswered.
GiveUpLink ==
  /\ ypc = "keep_alive"
  /\ ping_timer = 0
  /\ is_ping_outstanding >= MQTT_PING_RETRY_TIMES
  /\ ypc' = "disconnect"
  /\ UNCHANGED <<is_connected, flagVars, delayVars, pingVars,
                 counter_network_disconnected, rc, server_alive, events>>

\* Mutant: a ping restarts the whole keep-alive interval.
PingWaitsLong ==
  /\ ypc = "keep_alive"
  /\ ping_timer = 0
  /\ is_ping_outstanding < MQTT_PING_RETRY_TIMES
  /\ is_ping_outstanding' = is_ping_outstanding + 1
  /\ ping_timer' = KEEP_ALIVE
  /\ pong' = IF pong = None THEN 0 ELSE pong
  /\ checked' = TRUE
  /\ ypc' = "loop"
  /\ UNCHANGED <<is_connected, flagVars, delayVars,
                 counter_network_disconnected, since_heard, rc, server_alive,
                 events>>

\* A ping is due: PINGREQ goes out, or three attempts to send it fail.
Ping ==
  /\ ypc = "keep_alive"
  /\ ping_timer = 0
  /\ is_ping_outstanding < MQTT_PING_RETRY_TIMES
  /\ \/ /\ is_ping_outstanding' = is_ping_outstanding + 1
        /\ ping_timer' = PingWait
        /\ pong' = IF pong = None THEN 0 ELSE pong
        /\ checked' = TRUE
        /\ ypc' = "loop"
     \/ /\ counter_network_disconnected < MaxDisconnects
        /\ ypc' = "disconnect"
        /\ UNCHANGED <<is_ping_outstanding, ping_timer, pong, checked>>
  /\ UNCHANGED <<is_connected, flagVars, delayVars,
                 counter_network_disconnected, since_heard, rc, server_alive,
                 events>>

NoPingDue ==
  /\ ypc = "keep_alive"
  /\ ping_timer > 0
  /\ checked' = TRUE
  /\ ypc' = "loop"
  /\ UNCHANGED <<is_connected, flagVars, delayVars,
                 counter_network_disconnected, is_ping_outstanding, ping_timer,
                 pong, since_heard, rc, server_alive, events>>

\* Mutant: the flag qcloud_iot_mqtt_disconnect has set is not taken back.
HandleDisconnectStaysManual ==
  /\ ypc = "disconnect"
  /\ is_connected' = FALSE
  /\ events' = "DISCONNECT"
  /\ was_manually_disconnected' = TRUE
  /\ attempts' = 0
  /\ ypc' = "count"
  /\ UNCHANGED <<auto_connect_enable, current_reconnect_wait_interval,
                 reconnect_delay_expired, delay_drawn, pingVars,
                 counter_network_disconnected, rc, server_alive>>

\* _handle_disconnect: DISCONNECT packet or none, the session goes, the event
\* handler hears DISCONNECT, and the disconnection is no manual one.
HandleDisconnect ==
  /\ ypc = "disconnect"
  /\ is_connected' = FALSE
  /\ events' = "DISCONNECT"
  /\ was_manually_disconnected' = FALSE
  /\ attempts' = 0
  /\ ypc' = "count"
  /\ UNCHANGED <<auto_connect_enable, current_reconnect_wait_interval,
                 reconnect_delay_expired, delay_drawn, pingVars,
                 counter_network_disconnected, rc, server_alive>>

\* Back in the loop with NO_CONN.
CountDisconnect ==
  /\ ypc = "count"
  /\ counter_network_disconnected' = counter_network_disconnected + 1
  /\ delay_drawn' = auto_connect_enable
  /\ \/ /\ auto_connect_enable
        /\ current_reconnect_wait_interval' \in RandomIntervals
        /\ reconnect_delay_expired' = FALSE
        /\ rc' = "ATTEMPTING_RECONNECT"
        /\ ypc' = "loop"
     \/ /\ ~auto_connect_enable
        /\ rc' = "NO_CONN"
        /\ ypc' = "out"
        /\ UNCHANGED <<current_reconnect_wait_interval,
                       reconnect_delay_expired>>
  /\ UNCHANGED <<is_connected, flagVars, attempts, pingVars, server_alive,
                 events>>

-----------------------------------------------------------------------------
(***************************************************************************)
(* Not connected: _handle_reconnect.                                       *)
(***************************************************************************)

GivenUp == current_reconnect_wait_interval > MAX_RECONNECT_WAIT_INTERVAL

Reconnecting == ypc = "loop" /\ ~is_connected

LoopGivenUp ==
  /\ Reconnecting
  /\ GivenUp
  /\ rc' = "RECONNECT_TIMEOUT"
  /\ ypc' = "out"
  /\ UNCHANGED <<is_connected, flagVars, delayVars, pingVars,
                 counter_network_disconnected, server_alive, events>>

WaitForDelay ==
  /\ Reconnecting
  /\ ~GivenUp
  /\ ~reconnect_delay_expired
  /\ rc' = "ATTEMPTING_RECONNECT"
  /\ UNCHANGED <<is_connected, flagVars, delayVars, pingVars,
                 counter_network_disconnected, ypc, server_alive, events>>

\* After an attempt that failed: twice the delay, or the end of all attempts.
Backoff(r) ==
  /\ current_reconnect_wait_interval' = 2 * current_reconnect_wait_interval
  /\ \/ /\ current_reconnect_wait_interval' > MAX_RECONNECT_WAIT_INTERVAL
        /\ rc' = "RECONNECT_TIMEOUT"
        /\ UNCHANGED reconnect_delay_expired
     \/ /\ current_reconnect_wait_interval' <= MAX_RECONNECT_WAIT_INTERVAL
        /\ rc' = r
        /\ reconnect_delay_expired' = FALSE

Attempt == Reconnecting /\ ~GivenUp /\ reconnect_delay_expired

\* Mutant: the first failed attempt is the last.
AttemptFailsTooFast ==
  /\ Attempt
  /\ current_reconnect_wait_interval' = 2 * MAX_RECONNECT_WAIT_INTERVAL
  /\ rc' = "RECONNECT_TIMEOUT"
  /\ attempts' = Smaller(EnoughAttempts, attempts + 1)
  /\ UNCHANGED <<is_connected, flagVars, reconnect_delay_expired, delay_drawn, pingVars,
                 counter_network_disconnected, ypc, server_alive, events>>

AttemptFails ==
  /\ Attempt
  /\ Backoff("ATTEMPTING_RECONNECT")
  /\ attempts' = Smaller(EnoughAttempts, attempts + 1)
  /\ UNCHANGED <<is_connected, flagVars, delay_drawn, pingVars,
                 counter_network_disconnected, ypc, server_alive, events>>

\* _mqtt_connect has succeeded.
Connected ==
  /\ is_connected' = TRUE
  /\ was_manually_disconnected' = FALSE
  /\ is_ping_outstanding' = 0
  /\ ping_timer' = KEEP_ALIVE
  /\ pong' = None
  /\ checked' = FALSE
  /\ since_heard' = 0
  /\ server_alive' = TRUE

\* Connected and resubscribed: RECONNECT.
Reconnects ==
  /\ Attempt
  /\ Connected
  /\ events' = "RECONNECT"
  /\ rc' = "RECONNECTED"
  /\ UNCHANGED <<auto_connect_enable, delayVars, counter_network_disconnected,
                 ypc>>

\* Connected, but qcloud_iot_mqtt_resubscribe failed: treated as an attempt
\* that failed, although the client is connected now.
ReconnectsNoResubscribe ==
  /\ Attempt
  /\ Connected
  /\ Backoff("ATTEMPTING_RECONNECT")
  /\ UNCHANGED <<auto_connect_enable, attempts, delay_drawn,
                 counter_network_disconnected, ypc, events>>

-----------------------------------------------------------------------------
(***************************************************************************)
(* Time and the broker.  A tick passes once keep-alive has been looked at: *)
(* the application calls yield at least that often.  A live broker answers *)
(* a ping within ServerDelay ticks; it may fall silent at any time.        *)
(***************************************************************************)

Tick ==
  /\ is_connected
  /\ ypc \in {"out", "loop"}
  /\ checked
  /\ server_alive => pong < ServerDelay
  /\ checked' = FALSE
  /\ ping_timer' = IF ping_timer > 0 THEN ping_timer - 1 ELSE 0
  /\ pong' = IF pong = None THEN None ELSE Smaller(ServerDelay, pong + 1)
  /\ since_heard' = Smaller(TooLong, since_heard + 1)
  /\ UNCHANGED <<is_connected, flagVars, delayVars, is_ping_outstanding,
                 counter_network_disconnected, ypc, rc, server_alive, events>>

DelayExpires ==
  /\ ~is_connected
  /\ ~reconnect_delay_expired
  /\ reconnect_delay_expired' = TRUE
  /\ UNCHANGED <<is_connected, flagVars, current_reconnect_wait_interval,
                 attempts, delay_drawn, pingVars, counter_network_disconnected, ypc, rc,
                 server_alive, events>>

FallSilent ==
  /\ is_connected
  /\ server_alive
  /\ counter_network_disconnected < MaxDisconnects
  /\ server_alive' = FALSE
  /\ UNCHANGED <<is_connected, flagVars, delayVars, pingVars,
                 counter_network_disconnected, ypc, rc, events>>

ReadStep ==
  ReadNothing \/ ReadAck \/ ReadPublish \/ ReadRefused \/ ReadFail

KeepAlive == GiveUpLink \/ Ping \/ NoPingDue

ReconnectStep ==
  \/ LoopGivenUp \/ WaitForDelay \/ AttemptFails \/ Reconnects
  \/ ReconnectsNoResubscribe

Next ==
  \/ Enter \/ Leave \/ set_autoreconnect
  \/ ReadStep \/ KeepAlive \/ HandleDisconnect \/ CountDisconnect
  \/ ReconnectStep
  \/ Tick \/ DelayExpires \/ FallSilent

Spec == Init /\ [][Next]_vars

(***************************************************************************)
(* The application goes on calling yield with time enough for a turn of    *)
(* the loop, and time passes.                                              *)
(***************************************************************************)
Fairness ==
  /\ WF_vars(Enter)
  /\ SF_vars(ReadNothing)
  /\ WF_vars(KeepAlive)
  /\ WF_vars(HandleDisconnect)
  /\ WF_vars(CountDisconnect)
  /\ SF_vars(AttemptFails \/ Reconnects \/ ReconnectsNoResubscribe)
  /\ SF_vars(LoopGivenUp)
  /\ WF_vars(DelayExpires)
  /\ SF_vars(Tick)

FairSpec == Spec /\ Fairness

-----------------------------------------------------------------------------
(***************************************************************************)
(* Properties.                                                             *)
(***************************************************************************)

\* However acknowledgements, messages and pings interleave, a link on which
\* nothing is heard is given up before the keep-alive interval and the waits
\* for two pings have passed.
SilenceBounded == is_connected => since_heard <= MaxSilence

\* A broker that answers every ping before the second one has been waited for
\* is never given up, not even on the first ping after a reconnection.
LiveServerKept == [][GiveUpLink => ~server_alive]_vars

\* A client that lost its connection with automatic reconnection on stops
\* trying to reconnect only after five attempts, however attempts that fail,
\* that succeed and that connect without resubscribing follow each other.
\* (Switched on later, it goes by whatever delay it is left with.)
TriesEnough ==
  ~is_connected /\ ypc # "count" /\ delay_drawn /\ GivenUp =>
    attempts >= EnoughAttempts

\* Such a client reconnects or gives up for good, unless automatic
\* reconnection is switched off: it never waits for a delay that does not
\* end, and is never taken for a client disconnected by hand.
ReconnectsOrGivesUp ==
  ~is_connected /\ delay_drawn
    ~> is_connected \/ GivenUp \/ ~auto_connect_enable

\* A connection whose broker has fallen silent for good is noticed as long as
\* the application goes on calling yield.
SilenceNoticed == is_connected /\ ~server_alive ~> ~is_connected
====
