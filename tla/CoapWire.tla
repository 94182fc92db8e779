------------------------------ MODULE CoapWire ------------------------------
(***************************************************************************)
(* CoAP datagrams, byte by byte (a byte is a natural number):              *)
(* coap_client_serialize.c, coap_client_deserialize.c and the setters of   *)
(* coap_client_common.c.                                                   *)
(***************************************************************************)
EXTENDS Integers, Sequences, SequencesExt

CONSTANT SEND_BUF_SIZE  \* COAP_SENDMSG_MAX_BUFLEN

CON == 0  NON == 1  ACK == 2  RST == 3         \* types
REQ == 0  SUCCESS == 2                         \* classes of codes
POST == 2  VALID == 3  CONTENT == 5            \* details of codes
URI_PATH == 11  AUTH_TOKEN == 61  NEED_RESP == 62

\* What a failed parse leaves: coap_message_destroy clears the message.
Cleared == [type |-> CON, class |-> 0, detail |-> 0, id |-> 0,
            token |-> <<>>, options |-> <<>>, payload |-> <<>>]

Two(n) == <<n \div 256, n % 256>>

-----------------------------------------------------------------------------
\* Options are kept in the order of their numbers, equal ones in the order in
\* which they were added.
coap_message_option_add(options, num, val) ==
  SelectSeq(options, LAMBDA o : o.num <= num)
  \o <<[num |-> num, val |-> val]>>
  \o SelectSeq(options, LAMBDA o : o.num > num)

\* The counter's bytes, least significant first.
get_coap_message_token(value) ==
  <<value % 256, (value \div 256) % 256, (value \div 65536) % 256,
    (value \div 16777216) % 256>>

coap_message_serialize_header(m) ==
  <<64 + 16 * m.type + Len(m.token), 32 * m.class + m.detail>> \o Two(m.id)

\* A number from 13 on is written in one more byte, from 269 on in two.
Nibble(n)   == CASE n < 13 -> n [] n \in 13..268 -> 13 [] n > 268 -> 14
Extended(n) == CASE n < 13 -> <<>> [] n \in 13..268 -> <<n - 13>> [] n > 268 -> Two(n - 269)

coap_msg_format_op(op, prev) ==
  LET delta == op.num - prev
  IN  <<16 * Nibble(delta) + Nibble(Len(op.val))>>
      \o Extended(delta) \o Extended(Len(op.val)) \o op.val

\* The room an option is said to need: the byte that extends its length is
\* counted by the option's number.
Needs(op, prev) ==
  1 + Len(Extended(op.num - prev)) + Len(op.val)
  + (IF Len(op.val) >= 269 THEN 2 ELSE IF op.num >= 13 THEN 1 ELSE 0)

Formatted(options) ==
  [i \in DOMAIN options |->
     coap_msg_format_op(options[i], IF i = 1 THEN 0 ELSE options[i - 1].num)]

coap_message_serialize_options(options) == FlattenSeq(Formatted(options))

OptionsFit(options, room) ==
  \A i \in DOMAIN options :
    Needs(options[i], IF i = 1 THEN 0 ELSE options[i - 1].num)
      <= room - Len(FlattenSeq(SubSeq(Formatted(options), 1, i - 1)))

coap_message_serialize_payload(m) ==
  IF m.payload = <<>> THEN <<>> ELSE <<255>> \o m.payload

\* <<>> when the datagram does not fit send_buf.
serialize_coap_message(m) ==
  LET start == coap_message_serialize_header(m) \o m.token
      bytes == start \o coap_message_serialize_options(m.options)
               \o coap_message_serialize_payload(m)
  IN  IF /\ Len(start) <= SEND_BUF_SIZE
         /\ OptionsFit(m.options, SEND_BUF_SIZE - Len(start))
         /\ Len(bytes) <= SEND_BUF_SIZE
      THEN bytes ELSE <<>>

-----------------------------------------------------------------------------
\* The number behind a nibble, given what follows the bytes already read.
Read(nibble, b) ==
  CASE nibble = 13 -> 13 + b[1] [] nibble = 14 -> 269 + 256 * b[1] + b[2]
    [] OTHER -> nibble
Width(nibble) == CASE nibble = 13 -> 1 [] nibble = 14 -> 2 [] OTHER -> 0

From(b, i) == SubSeq(b, i, Len(b))

\* An option at the beginning of b: its number, value and length in bytes; the
\* length is 0 for an error.
coap_message_deserialize_option(b, prev) ==
  LET d == b[1] \div 16
      n == b[1] % 16
      head == 1 + Width(d) + Width(n)
      len == Read(n, From(b, 2 + Width(d)))
  IN  IF d = 15 \/ n = 15 \/ Len(b) < head \/ Len(b) < head + len
      THEN [bytes |-> 0]
      ELSE [bytes |-> head + len,
            op |-> [num |-> prev + Read(d, From(b, 2)),
                    val |-> SubSeq(b, head + 1, head + len)]]

\* The options from the i-th byte on, and where the payload begins: 0 for an
\* error.
coap_message_deserialize_options(b) ==
  LET parse[i \in 1..(Len(b) + 1), prev \in Nat] ==
        IF i > Len(b) \/ (i <= Len(b) /\ b[i] = 255)
        THEN [options |-> <<>>, next |-> i]
        ELSE LET o == coap_message_deserialize_option(From(b, i), prev)
             IN  IF o.bytes = 0 THEN [options |-> <<>>, next |-> 0]
                 ELSE LET rest == parse[i + o.bytes, o.op.num]
                      IN  [rest EXCEPT !.options = <<o.op>> \o @]
  IN  parse[1, 0]

coap_message_deserialize_header(b) ==
  IF \/ Len(b) < 4 \/ b[1] \div 64 # 1 \/ b[1] % 16 > 8
     \/ b[2] \div 32 \notin {0, 2, 4, 5}
  THEN Cleared
  ELSE [Cleared EXCEPT !.type = (b[1] \div 16) % 4, !.class = b[2] \div 32,
                       !.detail = b[2] % 32, !.id = 256 * b[3] + b[4],
                       !.token = SubSeq(b, 5, 4 + (b[1] % 16))]

\* What _coap_message_handle goes by: the message, or what an error leaves of
\* it.  A message that _coap_msg_check refuses is left as it is.
deserialize_coap_message(b) ==
  LET head == coap_message_deserialize_header(b)
      rest == From(b, 5 + (b[1] % 16))
      opts == coap_message_deserialize_options(rest)
      payload == From(rest, opts.next + 1)
  IN  IF \/ head = Cleared
         \/ Len(b) < 4 + (b[1] % 16)
         \/ opts.next = 0
         \/ opts.next <= Len(rest) /\ payload = <<>>
      THEN Cleared
      ELSE [head EXCEPT !.options = opts.options, !.payload = payload]

\* COAP_MSG_IS_EMPTY, _EMPTY_ACK and _EMPTY_RSP.
IsEmpty(m)    == m.class = 0 /\ m.detail = 0
IsEmptyAck(m) == m.class = SUCCESS /\ m.detail = VALID
IsContent(m)  == m.class = SUCCESS /\ m.detail = CONTENT

=============================================================================
