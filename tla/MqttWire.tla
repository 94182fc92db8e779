------------------------------ MODULE MqttWire ------------------------------
(***************************************************************************)
(* The MQTT packets on the wire: how the client serializes what it sends,  *)
(* how _read_mqtt_packet takes a packet off the TLS stream byte by byte    *)
(* (mqtt_client_common.c:594-694), how cycle_for_read takes it apart, and  *)
(* to which handler _deliver_message hands a message.                      *)
(*                                                                         *)
(* A byte is a natural number.  The code writes lengths to the base 128;   *)
(* the base is a constant here, so that short packets have long lengths.   *)
(* The broker sends and reads packets as the MQTT standard codes them      *)
(* (Standard), whichever client it talks to.                               *)
(***************************************************************************)
EXTENDS Integers, SequencesExt

CONSTANTS
  BASE,             \* 128 in the code
  MAX_NO_OF_REMAINING_LENGTH_BYTES,
  BUF_SIZE,         \* read_buf_size and write_buf_size
  MAX_TOPIC,        \* MAX_SIZE_OF_CLOUD_TOPIC
  HandlerTables,    \* the subscriptions the client may have: sub_handles
  BrokerPackets,    \* what the broker may send
  ClientPackets,    \* what the application may ask the client to send
  ConnackCodes,     \* how the broker may answer a CONNECT
  Stalls,           \* whether the network may stall inside a packet
  MaxSent           \* bound: packets of either side in a behaviour

ASSUME WireAssumption ==
  /\ BASE \in Nat /\ BASE > 1 /\ BUF_SIZE \in Nat
  /\ MAX_NO_OF_REMAINING_LENGTH_BYTES \in Nat \ {0}
  /\ Stalls \in BOOLEAN /\ MaxSent \in Nat

SLASH == 47  PLUS == 43  HASH == 35

CONNECT == 1  CONNACK == 2  PUBLISH == 3  PUBACK == 4  PUBREC == 5
PUBREL == 6  SUBSCRIBE == 8  SUBACK == 9  UNSUBSCRIBE == 10
UNSUBACK == 11  PINGREQ == 12  PINGRESP == 13  DISCONNECT == 14

VARIABLES
  sub_handles, \* the slots, in order: [filter, handler]
  link,        \* "down", "wait" for the CONNACK, "up"
  closed,      \* the broker's end is gone; what is in the stream still arrives
  stream,      \* bytes the broker sent and the client has not read
  meant,       \* the packets it sent and the client has not done with
  pc,          \* what _read_mqtt_packet reads next
  head,        \* the bytes of the fixed header read so far
  left,        \* bytes of an oversized packet still to be discarded
  buf,         \* the packet in read_buf
  heard,       \* the last packet handled, as sent and as understood
  asked,       \* the last packet the client was to send,
  written,     \*   and the bytes it sent for it, or <<>> for an error
  sent         \* packets sent, for the bound

linkVars == <<link, closed, stream, meant>>
readVars == <<pc, head, left, buf>>
vars == <<sub_handles, linkVars, readVars, heard, asked, written, sent>>

Drop(s, n) == SubSeq(s, n + 1, Len(s))
None == [type |-> 0]

-----------------------------------------------------------------------------
(***************************************************************************)
(* Writing.                                                                *)
(***************************************************************************)

Digits(n) == CHOOSE k \in 1..8 : n < BASE^k /\ (k > 1 => n >= BASE^(k - 1))

\* Least significant digit first; all but the last carry the top bit.
mqtt_write_packet_rem_len(n) ==
  [i \in 1..Digits(n) |->
     ((n \div BASE^(i - 1)) % BASE) + (IF i < Digits(n) THEN BASE ELSE 0)]

\* An upper bound of the length of a packet: the header byte is counted before
\* the number of digits is looked up, and the third limit is one short.
get_mqtt_packet_len(rem_len) ==
  LET n == rem_len + 1
  IN  CASE n < BASE                        -> n + 1
        [] n >= BASE /\ n < BASE^2         -> n + 2
        [] n >= BASE^2 /\ n < BASE^3 - 1   -> n + 3
        [] n >= BASE^3 - 1                 -> n + 4

mqtt_init_packet_header(type, qos, dup, retained) ==
  16 * type + 8 * dup + 2 * qos + retained

mqtt_write_uint_16(n) == <<n \div 256, n % 256>>
mqtt_write_utf8_string(s) == mqtt_write_uint_16(Len(s) % 65536) \o s

Flags(p) == (IF p.clean THEN 2 ELSE 0) + 128  \* and MQTT_CONNECT_FLAG_USERNAME

get_packet_connect_rem_len(p) ==
  (IF p.version = 3 THEN 12 ELSE 10) + Len(p.client_id) + 2 + Len(p.username) + 2

get_publish_packet_len(p) ==
  2 + Len(p.topic) + Len(p.payload) + (IF p.qos > 0 THEN 2 ELSE 0)

\* Mutant: the byte of the requested QoS is not counted.
NoQosCounted(p) == 2 + (2 + Len(p.topic))

get_subscribe_packet_rem_len(p) == 2 + (2 + Len(p.topic) + 1)
get_unsubscribe_packet_rem_len(p) == 2 + (2 + Len(p.topic))

\* A packet is refused when the upper bound of its length exceeds the buffer.
Framed(header, rem_len, rest) ==
  IF get_mqtt_packet_len(rem_len) > BUF_SIZE THEN <<>>
  ELSE <<header>> \o mqtt_write_packet_rem_len(rem_len) \o rest

serialize_connect_packet(p) ==
  Framed(mqtt_init_packet_header(CONNECT, 0, 0, 0),
         get_packet_connect_rem_len(p),
         (IF p.version = 4 THEN mqtt_write_utf8_string(<<77, 81, 84, 84>>) \o <<4>>
          ELSE mqtt_write_utf8_string(<<77, 81, 73, 115, 100, 112>>) \o <<3>>)
         \o <<Flags(p)>> \o mqtt_write_uint_16(p.keep_alive)
         \o mqtt_write_utf8_string(p.client_id) \o mqtt_write_utf8_string(p.username))

serialize_publish_packet(p) ==
  Framed(mqtt_init_packet_header(PUBLISH, p.qos, p.dup, p.retained),
         get_publish_packet_len(p),
         mqtt_write_utf8_string(p.topic)
         \o (IF p.qos > 0 THEN mqtt_write_uint_16(p.id) ELSE <<>>) \o p.payload)

serialize_subscribe_packet(p) ==
  Framed(mqtt_init_packet_header(SUBSCRIBE, 1, 0, 0),
         get_subscribe_packet_rem_len(p),
         mqtt_write_uint_16(p.id) \o mqtt_write_utf8_string(p.topic) \o <<p.qos>>)

serialize_unsubscribe_packet(p) ==
  Framed(mqtt_init_packet_header(UNSUBSCRIBE, 1, 0, 0),
         get_unsubscribe_packet_rem_len(p),
         mqtt_write_uint_16(p.id) \o mqtt_write_utf8_string(p.topic))

serialize_pub_ack_packet(type, id) ==
  <<mqtt_init_packet_header(type, IF type = PUBREL THEN 1 ELSE 0, 0, 0)>>
  \o mqtt_write_packet_rem_len(2) \o mqtt_write_uint_16(id)

serialize_packet_with_zero_payload(type) ==
  <<mqtt_init_packet_header(type, 0, 0, 0)>> \o mqtt_write_packet_rem_len(0)

Serialized(p) ==
  CASE p.type = CONNECT            -> serialize_connect_packet(p)
    [] p.type = PUBLISH            -> serialize_publish_packet(p)
    [] p.type = SUBSCRIBE          -> serialize_subscribe_packet(p)
    [] p.type = UNSUBSCRIBE        -> serialize_unsubscribe_packet(p)
    [] p.type \in {PUBACK, PUBREC, PUBREL} ->
         serialize_pub_ack_packet(p.type, p.id)
    [] OTHER                       -> serialize_packet_with_zero_payload(p.type)

\* A packet that fills the buffer to the last byte is not sent.
send_mqtt_packet(bytes) == IF Len(bytes) >= BUF_SIZE THEN <<>> ELSE bytes

-----------------------------------------------------------------------------
(***************************************************************************)
(* Reading a packet apart.  body is what follows the fixed header; None    *)
(* stands for an error return.                                             *)
(***************************************************************************)

More(c) == (c \div BASE) % 2 = 1
RemLen(digits) == FoldRight(LAMBDA c, n : (c % BASE) + BASE * n, digits, 0)

mqtt_read_uint16_t(s) == 256 * s[1] + s[2]

LenEnd(b) == CHOOSE i \in 2..Len(b) : ~More(b[i]) /\ \A j \in 2..(i - 1) : More(b[j])
Body(b) == SubSeq(b, LenEnd(b) + 1, LenEnd(b) + RemLen(SubSeq(b, 2, LenEnd(b))))

TypeOf(b) == b[1] \div 16

\* The topic is copied to a buffer of MAX_TOPIC bytes; a longer one is cut.
FixTopic(t) == IF Len(t) > MAX_TOPIC THEN SubSeq(t, 1, MAX_TOPIC - 1) ELSE t

\* Mutant: the packet id is taken for part of the payload.
DeserializePublishNoId(b) ==
  LET body == Body(b)
      n    == mqtt_read_uint16_t(body)
  IN  [type |-> PUBLISH, dup |-> (b[1] \div 8) % 2, qos |-> (b[1] \div 2) % 4,
       retained |-> b[1] % 2, id |-> 0, topic |-> SubSeq(body, 3, 2 + n),
       payload |-> Drop(body, 2 + n)]

\* Whether the packet id lies within the packet is not looked at: outside it,
\* the id is what an older packet left behind and the payload's length wraps.
deserialize_publish_packet(b) ==
  LET body == Body(b)
      qos  == (b[1] \div 2) % 4
      n    == mqtt_read_uint16_t(body)
      rest == Drop(body, 2 + n)
      publish(id, payload) ==
        [type |-> PUBLISH, dup |-> (b[1] \div 8) % 2, qos |-> qos,
         retained |-> b[1] % 2, id |-> id,
         topic |-> FixTopic(SubSeq(body, 3, 2 + n)), payload |-> payload]
  IN  CASE Len(body) < 2 \/ n > BUF_SIZE \/ 2 + n > Len(body) -> None
        [] qos = 0                                   -> publish(0, rest)
        [] qos > 0 /\ Len(rest) >= 2 ->
             publish(mqtt_read_uint16_t(rest), Drop(rest, 2))
        [] OTHER                                     -> publish(-1, <<-1>>)

deserialize_ack_packet(b) ==
  LET body == Body(b)
  IN  IF Len(body) < 2 \/ (Len(body) >= 3 /\ body[3] # 0) THEN None
      ELSE [type |-> TypeOf(b), id |-> mqtt_read_uint16_t(body)]

\* One code is asked for; the third is the first that is refused.
deserialize_suback_packet(b) ==
  LET body == Body(b)
  IN  IF Len(body) \notin 2..4 THEN None
      ELSE [type |-> SUBACK, id |-> mqtt_read_uint16_t(body), codes |-> Drop(body, 2)]

deserialize_connack_packet(b) ==
  LET body == Body(b)
  IN  IF Len(body) # 2 THEN None
      ELSE [type |-> CONNACK, session |-> body[1] % 2, code |-> body[2]]

Understood(b) ==
  CASE TypeOf(b) = PUBLISH                      -> deserialize_publish_packet(b)
    [] TypeOf(b) \in {PUBACK, UNSUBACK, PUBREC} -> deserialize_ack_packet(b)
    [] TypeOf(b) = SUBACK                       -> deserialize_suback_packet(b)
    [] TypeOf(b) = CONNACK                      -> deserialize_connack_packet(b)
    [] OTHER                                    -> [type |-> TypeOf(b)]

-----------------------------------------------------------------------------
(***************************************************************************)
(* Whose message it is.                                                    *)
(***************************************************************************)

\* The last position of the level of the topic that n lies in.
LevelEnd(topic, n) ==
  CHOOSE m \in n..Len(topic) :
    /\ m = Len(topic) \/ topic[m + 1] = SLASH
    /\ \A i \in (n + 1)..m : topic[i] # SLASH

\* The two strings are walked in step; 0 is the end of the filter.
is_topic_matched(filter, topic) ==
  LET at(f) == IF f <= Len(filter) THEN filter[f] ELSE 0
      ends(f, n) ==
        IF at(f) = 0 THEN n > Len(topic)
        ELSE \/ HASH \in {at(f), at(f + 1)}
             \/ at(f) = PLUS /\ n > 1 /\ topic[n - 1] = SLASH
      match[f \in 1..(Len(filter) + 1), n \in 1..(Len(topic) + 1)] ==
        CASE at(f) = 0 \/ n > Len(topic) -> ends(f, n)
          [] at(f) = PLUS /\ n <= Len(topic) ->
               match[f + 1, IF topic[n] = SLASH THEN n ELSE LevelEnd(topic, n) + 1]
          [] at(f) = HASH /\ n <= Len(topic) ->
               IF topic[n] = SLASH THEN ends(f, n) ELSE match[f + 1, Len(topic) + 1]
          [] OTHER -> IF at(f) = topic[n] THEN match[f + 1, n + 1] ELSE ends(f, n)
  IN  match[1, 1]

\* The slot whose handler is called: the first that matches and has one.  0
\* is the event PUBLISH_RECVEIVED.
deliver_message(topic) ==
  LET fits == {i \in DOMAIN sub_handles :
                 /\ sub_handles[i].handler
                 /\ \/ topic = sub_handles[i].filter
                    \/ is_topic_matched(sub_handles[i].filter, topic)}
  IN  IF fits = {} THEN 0 ELSE Min(fits)

-----------------------------------------------------------------------------
(***************************************************************************)
(* The broker: the coding of the MQTT standard.                            *)
(***************************************************************************)

Standard(p) ==
  LET two(n)  == <<n \div 256, n % 256>>
      text(s) == two(Len(s)) \o s
      length[n \in Nat] ==
        IF n < BASE THEN <<n>> ELSE <<BASE + (n % BASE)>> \o length[n \div BASE]
      flags == CASE p.type = PUBLISH -> 8 * p.dup + 2 * p.qos + p.retained
                 [] p.type \in {PUBREL, SUBSCRIBE, UNSUBSCRIBE} -> 2
                 [] OTHER -> 0
      body ==
        CASE p.type = CONNECT ->
               text(IF p.version = 4 THEN <<77, 81, 84, 84>>
                    ELSE <<77, 81, 73, 115, 100, 112>>)
               \o <<p.version, 128 + (IF p.clean THEN 2 ELSE 0)>>
               \o two(p.keep_alive) \o text(p.client_id) \o text(p.username)
          [] p.type = CONNACK -> <<p.session, p.code>>
          [] p.type = PUBLISH ->
               text(p.topic) \o (IF p.qos > 0 THEN two(p.id) ELSE <<>>) \o p.payload
          [] p.type \in {PUBACK, PUBREC, PUBREL, UNSUBACK} -> two(p.id)
          [] p.type = SUBSCRIBE   -> two(p.id) \o text(p.topic) \o <<p.qos>>
          [] p.type = UNSUBSCRIBE -> two(p.id) \o text(p.topic)
          [] p.type = SUBACK      -> two(p.id) \o p.codes
          [] OTHER                -> <<>>
  IN  <<16 * p.type + flags>> \o length[Len(body)] \o body

\* A filter matches level by level; a last level # stands for any number of
\* levels, + for one.
Levels(s) ==
  LET cuts == SetToSortSeq({0, Len(s) + 1} \cup {i \in DOMAIN s : s[i] = SLASH}, <)
  IN  [i \in 1..(Len(cuts) - 1) |-> SubSeq(s, cuts[i] + 1, cuts[i + 1] - 1)]

Matches(filter, topic) ==
  LET f == Levels(filter)
      t == Levels(topic)
      upTo(k) == \A i \in 1..k : f[i] \in {<<PLUS>>, t[i]}
  IN  IF Last(f) = <<HASH>>
      THEN Len(t) >= Len(f) - 1 /\ upTo(Len(f) - 1)
      ELSE Len(t) = Len(f) /\ upTo(Len(f))

-----------------------------------------------------------------------------
(***************************************************************************)
(* The connection and the reads of _read_mqtt_packet.                      *)
(***************************************************************************)

Init ==
  /\ sub_handles \in HandlerTables
  /\ link = "down" /\ closed = FALSE /\ stream = <<>> /\ meant = <<>>
  /\ pc = "first" /\ head = <<>> /\ left = 0 /\ buf = <<>>
  /\ heard = None /\ asked = None /\ written = <<>> /\ sent = 0

\* The next read is that of the first byte of a packet.
Again == pc' = "first" /\ head' = <<>> /\ left' = 0 /\ buf' = <<>>

\* The network is disconnected; the next connection starts with a new stream.
Down == /\ link' = "down" /\ closed' = FALSE /\ stream' = <<>> /\ meant' = <<>>
        /\ Again

Writes(p) == asked' = p /\ written' = send_mqtt_packet(Serialized(p))

\* _mqtt_connect sends the CONNECT and waits for the CONNACK.
Connect ==
  /\ link = "down" /\ sent < MaxSent
  /\ \E p \in {q \in ClientPackets : q.type = CONNECT}, code \in ConnackCodes :
       LET answer == [type |-> CONNACK, session |-> 0, code |-> code]
       IN  /\ Writes(p)
           /\ IF written' = <<>> THEN UNCHANGED <<linkVars, readVars>>
              ELSE /\ link' = "wait" /\ closed' = FALSE
                   /\ stream' = Standard(answer) /\ meant' = <<answer>>
                   /\ Again
  /\ sent' = sent + 1
  /\ UNCHANGED <<sub_handles, heard>>

\* wait_for_read: the command time-out passes without a CONNACK.
ConnectTimesOut ==
  /\ link = "wait" /\ pc = "first"
  /\ Down
  /\ UNCHANGED <<sub_handles, heard, asked, written, sent>>

\* The application, or yield, sends something else.
ClientSends ==
  /\ link = "up" /\ sent < MaxSent
  /\ \E p \in {q \in ClientPackets : q.type # CONNECT} :
       /\ Writes(p)
       /\ IF p.type = DISCONNECT THEN Down ELSE UNCHANGED <<linkVars, readVars>>
  /\ sent' = sent + 1
  /\ UNCHANGED <<sub_handles, heard>>

Accepted ==
  \/ link = "up"
  \/ link = "wait" /\ meant # <<>> /\ Head(meant).type = CONNACK /\ Head(meant).code = 0

BrokerSends ==
  /\ Accepted /\ ~closed /\ sent < MaxSent
  /\ \E p \in BrokerPackets :
       stream' = stream \o Standard(p) /\ meant' = Append(meant, p)
  /\ sent' = sent + 1
  /\ UNCHANGED <<sub_handles, link, closed, readVars, heard, asked, written>>

\* The connection breaks: what was under way arrives up to some byte.
BrokerCloses ==
  /\ link # "down" /\ ~closed
  /\ closed' = TRUE
  /\ \E n \in 0..Len(stream) : stream' = SubSeq(stream, 1, n)
  /\ UNCHANGED <<sub_handles, link, meant, readVars, heard, asked, written, sent>>

Taken(n) == SubSeq(stream, 1, n)

ReadFirst ==
  /\ link # "down" /\ pc = "first" /\ stream # <<>>
  /\ head' = Taken(1) /\ stream' = Tail(stream) /\ pc' = "length"
  /\ UNCHANGED <<sub_handles, link, closed, meant, left, buf, heard, asked, written, sent>>

\* An error of this read, or of the discarding, comes back from yield without
\* a disconnection; only a connection that is being made is given up.
Abandon == IF link = "wait" THEN Down
           ELSE Again /\ UNCHANGED <<link, closed, meant>>

\* A packet that read_buf cannot hold, with its fixed header, is discarded.
AfterLength(n) ==
  CASE n >= BUF_SIZE \/ (n > 0 /\ 1 + Digits(n) + n > BUF_SIZE) -> "discard"
    [] n = 0  -> "handle"
    [] OTHER  -> "payload"

ReadLength ==
  /\ pc = "length" /\ stream # <<>>
  /\ LET digits == Append(Tail(head), Head(stream))
         n      == RemLen(digits)
     IN  IF More(Head(stream)) /\ Len(digits) = MAX_NO_OF_REMAINING_LENGTH_BYTES
         THEN Abandon /\ (link = "up" => stream' = Tail(stream))
         ELSE /\ head' = Append(head, Head(stream))
              /\ stream' = Tail(stream)
              /\ IF More(Head(stream)) THEN UNCHANGED <<pc, left, buf>>
                 ELSE /\ pc' = AfterLength(n)
                      /\ left' = n
                      /\ buf' = <<head[1]>> \o mqtt_write_packet_rem_len(n)
              /\ UNCHANGED <<link, closed, meant>>
  /\ UNCHANGED <<sub_handles, heard, asked, written, sent>>

\* Mutant: a full buffer is read to the last.
BytesAlwaysFull == BUF_SIZE

\* How much of an oversized packet is read at once: what the buffer holds.
BytesToBeRead == IF left >= BUF_SIZE THEN BUF_SIZE ELSE left

Discard ==
  /\ pc = "discard" /\ Len(stream) >= BytesToBeRead
  /\ IF left > BytesToBeRead
     THEN /\ left' = left - BytesToBeRead
          /\ stream' = Drop(stream, BytesToBeRead)
          /\ UNCHANGED <<link, closed, meant, pc, head, buf>>
     ELSE IF link = "wait" THEN Down
     ELSE /\ stream' = Drop(stream, BytesToBeRead)
          /\ meant' = Tail(meant)
          /\ Again
          /\ UNCHANGED <<link, closed>>
  /\ UNCHANGED <<sub_handles, heard, asked, written, sent>>

ReadPayload ==
  /\ pc = "payload" /\ Len(stream) >= left
  /\ buf' = buf \o Taken(left)
  /\ stream' = Drop(stream, left)
  /\ pc' = "handle"
  /\ UNCHANGED <<sub_handles, link, closed, meant, head, left, heard, asked, written, sent>>

Wanted == CASE pc \in {"first", "length"} -> 1
            [] pc = "payload"             -> left
            [] OTHER                      -> BytesToBeRead

\* The read ends early, after k bytes.  Without Stalls the client, which waits
\* two seconds and more inside a packet, hears what the broker has sent; part
\* of a payload may still come too late.  A connection is only dropped when
\* the broker's end is gone or a payload was cut: HAL_TLS_Read then returns
\* QCLOUD_ERR_SSL_READ or QCLOUD_ERR_SSL_READ_TIMEOUT.
ReadShort ==
  /\ link # "down" /\ pc # "handle" /\ (pc = "first" => closed)
  /\ \E k \in 0..(Wanted - 1) :
       /\ k <= Len(stream)
       /\ k = Len(stream) \/ Stalls \/ (pc = "payload" /\ k > 0)
       /\ IF \/ pc = "first"
             \/ pc = "payload" /\ (k > 0 \/ (closed /\ stream = <<>>))
             \/ link = "wait"
          THEN Down
          ELSE /\ stream' = Drop(stream, k)
               /\ Again
               /\ UNCHANGED <<link, closed, meant>>
  /\ UNCHANGED <<sub_handles, heard, asked, written, sent>>

\* What the client sends back; None for nothing.
Reply(got) ==
  CASE got.type = PUBLISH /\ got.qos > 0 ->
         [type |-> IF got.qos = 1 THEN PUBACK ELSE PUBREC, id |-> got.id]
    [] got.type = PUBREC -> [type |-> PUBREL, id |-> got.id]
    [] OTHER -> None

\* cycle_for_read: the packet is taken apart, delivered and answered.
Handle ==
  /\ pc = "handle"
  /\ LET got == Understood(buf)
         by  == IF got.type = PUBLISH THEN deliver_message(got.topic) ELSE 0
     IN  /\ heard' = [sent |-> IF meant = <<>> THEN None ELSE Head(meant),
                      got |-> got, by |-> by]
         /\ IF Reply(got) = None THEN UNCHANGED <<asked, written>>
            ELSE Writes(Reply(got))
         /\ IF link = "wait" /\ (got = None \/ (got.type = CONNACK /\ got.code # 0))
            THEN Down
            ELSE /\ link' = IF got.type = CONNACK THEN "up" ELSE link
                 /\ meant' = IF meant = <<>> THEN meant ELSE Tail(meant)
                 /\ Again
                 /\ UNCHANGED <<closed, stream>>
  /\ UNCHANGED <<sub_handles, sent>>

Next ==
  \/ Connect \/ ConnectTimesOut \/ ClientSends
  \/ BrokerSends \/ BrokerCloses
  \/ ReadFirst \/ ReadLength \/ Discard \/ ReadPayload \/ ReadShort
  \/ Handle

Spec == Init /\ [][Next]_vars

-----------------------------------------------------------------------------
(***************************************************************************)
(* Properties.                                                             *)
(***************************************************************************)

Filters == {sub_handles[i].filter : i \in DOMAIN sub_handles}

TypeOK ==
  /\ link \in {"down", "wait", "up"} /\ closed \in BOOLEAN
  /\ pc \in {"first", "length", "discard", "payload", "handle"}
  /\ stream \in Seq(0..255) /\ head \in Seq(0..255) /\ buf \in Seq(0..255)
  /\ Len(buf) <= BUF_SIZE /\ Len(written) <= BUF_SIZE
  /\ left \in Nat /\ sent \in 0..MaxSent

\* Whatever the broker sends, packets of any length included, and however a
\* read ends, the client begins to read a packet at a byte where one begins:
\* an error in the middle of a packet either leaves the rest of it read or
\* loses the connection.
InStep ==
  link # "down" /\ pc = "first" =>
    LET due == FlattenSeq([i \in DOMAIN meant |-> Standard(meant[i])])
    IN  IsPrefix(stream, due) /\ (~closed => stream = due)

\* A packet is understood as the broker meant it.  A message goes to the event
\* handler only if no subscription with a handler matches its topic, and a
\* subscription without wildcards hears nothing but its own topic.
HeardIsSent ==
  heard # None =>
    /\ heard.got = heard.sent
    /\ heard.got.type = PUBLISH =>
         LET topic == heard.sent.topic
         IN  IF heard.by = 0
             THEN \A i \in DOMAIN sub_handles :
                    sub_handles[i].handler => ~Matches(sub_handles[i].filter, topic)
             ELSE LET filter == sub_handles[heard.by].filter
                  IN  filter = topic \/ {PLUS, HASH} \cap Range(filter) # {}

\* What the client puts on the wire is the standard's coding of the packet it
\* was asked to send: the length it computes beforehand is the length of what
\* it writes after it.
BrokerUnderstands == written = <<>> \/ written = Standard(asked)

\* No handler is called for a topic its filter does not match.  Not so: the
\* walk ends at a mismatch and takes a # after it for a match, so that a
\* subscription to a/# is handed the messages on ab, and one to a/+/b those
\* on a/.
OnlyMatching ==
  heard # None /\ heard.got.type = PUBLISH /\ heard.by # 0 =>
    Matches(sub_handles[heard.by].filter, heard.got.topic)

=============================================================================
