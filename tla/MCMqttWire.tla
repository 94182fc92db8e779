----------------------------- MODULE MCMqttWire -----------------------------
EXTENDS MqttWire

a == 97
b == 98
Bytes(n) == [i \in 1..n |-> 1]

Sub(filter) == [filter |-> filter, handler |-> TRUE]

\* Plain topics, +, # and a subscription without a handler, in either order.
Tables_MC ==
  LET quiet == [filter |-> <<a, SLASH, b>>, handler |-> FALSE]
  IN  {<<>>,
       <<Sub(<<a, SLASH, b>>), Sub(<<a, SLASH, PLUS>>)>>,
       <<quiet, Sub(<<PLUS, SLASH, b>>)>>,
       <<Sub(<<a, SLASH, HASH>>), Sub(<<a>>)>>,
       <<Sub(<<PLUS>>), Sub(<<a, SLASH, PLUS, SLASH, b>>), Sub(<<HASH>>)>>}

Message(topic, qos, payload) ==
  [type |-> PUBLISH, dup |-> 0, qos |-> qos, retained |-> 0,
   id |-> IF qos = 0 THEN 0 ELSE 300, topic |-> topic, payload |-> Bytes(payload)]

\* Empty, small, as long as the buffer allows, one byte longer, twice as long.
Broker_MC ==
  {Message(<<a>>, 0, 0), Message(<<a, b>>, 1, 2), Message(<<SLASH, b>>, 2, 1),
   Message(<<a, SLASH, b>>, 1, 13), Message(<<a, SLASH, b>>, 1, 14),
   Message(<<a, SLASH>>, 0, 20), Message(<<a>>, 0, 50),
   [type |-> PUBACK, id |-> 1], [type |-> PUBREC, id |-> 2], [type |-> UNSUBACK, id |-> 3],
   [type |-> SUBACK, id |-> 258, codes |-> <<1>>], [type |-> PINGRESP]}

Request(t, n) == [type |-> t, id |-> 300, topic |-> Bytes(n), qos |-> 1]

Client_MC ==
  {[type |-> CONNECT, version |-> v, clean |-> c, keep_alive |-> 240,
    client_id |-> <<a>>, username |-> <<b>>] : v \in {3, 4}, c \in BOOLEAN}
  \cup {Message(<<a>>, q, n) : q \in {0, 1}, n \in {0, 10, 16, 17, 18}}
  \cup {Request(t, n) : t \in {SUBSCRIBE, UNSUBSCRIBE}, n \in {1, 8, 14, 15, 16}}
  \cup {[type |-> PINGREQ], [type |-> DISCONNECT]}

=============================================================================
