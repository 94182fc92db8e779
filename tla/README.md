# A verification project for esp-qcloud

TLA+ models, TLC runs and TLAPS proofs for the Tencent IoT SDK for ESP8266 FreeRTOS
(`src/qcloud_iot_c_sdk/`) and for the demo that drives it (`src/examples/mqtt_demo/`).
In this text `S` stands for `src/qcloud_iot_c_sdk/sdk_src`, `P` for
`src/qcloud_iot_c_sdk/platform`, `D` for `src/examples/mqtt_demo/main`.

The SDK is plain C with callbacks. An application creates a client, calls its API from as many
FreeRTOS tasks as it likes, and has one task call `IOT_MQTT_Yield` in a loop; `yield` is where
packets are read, timeouts found, the connection kept alive and rebuilt, and callbacks run.
What makes the code hard is what happens between those tasks: four mutexes that are not
recursive, lists that are walked while others change them, pointers read under a lock and used
after it, and timers that race the answers they wait for.

## 1. Inventory

| component | state it keeps | operations | what is hard | what makes it correct |
|---|---|---|---|---|
| **Publish path** `S/mqtt_client_publish.c`, `_common.c`, `_yield.c` | `list_pub_wait_ack`, `next_packet_id`, `write_buf`; per node `msg_id`, `node_state`, `pub_start_time` | publish (QoS 0, 1), PUBACK, `pub_info_proc` | two lists of locks, a window without the lock in the middle of a walk, sends that fail half way, ACK timeout against PUBACK | unique ids; what is sent is what was serialized; each accepted publish is answered by one true event; no freed node is used |
| **Subscriptions** `S/mqtt_client_subscribe.c`, `_unsubscribe.c`, `_common.c`, `_yield.c` | `sub_handles[10]`, `list_sub_wait_ack`, heap copies of topic filters | subscribe, unsubscribe, SUBACK, UNSUBACK, `sub_info_proc`, resubscribe, destroy | the copy of a filter changes owner four times and is freed in a dozen places; resubscription reads slots under no lock | each copy has one owner and is freed once; slots agree with the broker; each request is answered |
| **Connection** `S/mqtt_client_connect.c`, `_yield.c`, `mqtt_client.c` | `is_connected`, `was_manually_disconnected`, `auto_connect_enable`, ping timer and count, reconnect delay | connect, disconnect, keep-alive, reconnect with a doubling delay, `set_autoreconnect` | half-dead links, delays that double to an end, an option that is switched at any time | a silent link is given up in bounded time, a live one never; reconnection goes on until it succeeds or gives up |
| **Locks** (all files above, `P/HAL_OS_freertos.c`) | `lock_generic`, `lock_write_buf`, `lock_list_pub`, `lock_list_sub` | every call; callbacks run with and without locks | lock order, error paths, callbacks that call back | no circular wait; every path releases what it took |
| **Wire format and delivery** `_read_mqtt_packet`, serializers, deserializers, `_deliver_message` in `S/mqtt_client_common.c` and others | `read_buf`, `write_buf`; reads `sub_handles` | read a packet off the stream, discard one that is too large, take it apart, find the handler; compute a length and write a packet | errors inside a packet, the digits of the remaining length, packets larger than the buffer, wildcards; a slot is used after unlocking | client and broker stay in step; a packet is understood as it was sent; the handler of a matching subscription gets the message, or the default event does |
| **List** `S/utils_list.c`, **ring buffer** `S/utils_ringbuff.c`, **timers** `S/utils_timer.c`, `P/HAL_Timer_freertos.c` | nodes; indices and a full flag; `end_time` (32 bit ms) | push, remove, iterate; push, pop, flush; countdown, expired, remain | removal during a walk; the full flag; the wrap of the millisecond count | see above |
| **Device shadow** `S/shadow_client*.c` | request list, property list, sync flag, token counter | get, update, sync variants, delta, request timeouts | publish before add-to-list, callbacks under the list mutex, a reply that cannot be parsed | each request gets one callback; sync calls return |
| **OTA** `S/ota_*.c`, **OTA demo** `D/device_ota.c` | OTA state, fetched size, MD5 state; offset and length in flash | report version, command received, fetch, report, resume after restart | restart between the flash write and the saved offset; firmware that changes between two attempts | what is booted is the firmware that was offered, whole |
| **CoAP** `S/coap_*.c` | list of messages waiting for ACK or response | send, cycle (ACK, piggy-backed, separate, RST), retransmit, authenticate | retransmission against late answers; a callback under the list lock | at most one final callback per message |
| **HTTP** `S/utils_httpc.c` over `P/HAL_TCP_lwip.c`, `P/HAL_TLS_mbedtls.c` | per connection: bytes left, chunk state | connect, request, receive | chunked bodies across reads, two buffers, reads that end early | the bytes handed over are the body; a download ends |
| **System time** `S/system_mqtt.c` | a result flag | subscribe once, publish, wait | nothing beyond the MQTT modules | returns |
| **JSON, crypto, logging, device identity, certificates** | none, or stored strings | pure functions | text and bit processing | test vectors |
| **Demo application** `D/main.c`, `D/device_main.c`, `D/tc_iot_wifi_boarding_esp8266.c`, `D/device_flash.c`, `D/device_fac.c` | in flash: Wi-Fi mode, SSID, password; in RAM: run flags and event bits | choose a mode at boot, softAP and smartconfig provisioning, station mode | two tasks and the driver's events, two records in flash, power cuts | the stored network is one network; provisioning ends |
| **Partition generator** | none | build tool | | |

**Interactions.** The application calls `publish`, `subscribe`, `unsubscribe` from any task; these
share `write_buf`, the packet id, the two wait lists and the TLS session with `yield`. `yield`
calls the application's event handler, message handlers and subscription handlers: some with
no lock held, some under `lock_list_pub`, `lock_list_sub` or `lock_generic`. Shadow, OTA and
system time sit on top of MQTT (they subscribe, publish, and are called back); the OTA download
goes over HTTP, and CoAP is a second client with its own list and lock on top of DTLS.

## 2. Modules and how they correspond to the code

    MqttPublish ── MqttPublishInv ── MqttPublishProofs        PublishPromise
                        │   └──── INSTANCE ... WITH ───────────────┘
                   MCMqttPublish
    MqttSub ─┬─ MCMqttSub       MqttConn ──┬── MCMqttConn       MqttLocks ──┬── MCMqttLocks
             └─ MqttSubProofs              └────── MqttClientProofs ────────┘
    CoapWire ── Coap ─┬─ MCCoap           Boarding ─┬─ MCBoarding
                 │    └─ CoapProofs                 └─ BoardingProofs
                 └── INSTANCE ... WITH ── RequestPromise
    Json ─┬─ ShadowDoc ── Shadow ─┬─ MCShadow               MqttWire ── MCMqttWire
          │                       └─ ShadowProofs           Http ─┬─ MCHttp
          └─ OtaDoc ── Ota ─┬─ MCOta                              └─ HttpProofs
                            └─ OtaProofs

A line to the right or down is EXTENDS. A component's specification holds its state, its actions and its
properties; the `MC` module gives its constants their values and evaluates the hypotheses its theorems have about
data, sizes and times (`Hypotheses`), so that TLC rejects an instance they do not speak of; the `Proofs` module holds its
invariants and theorems (`MqttClientProofs` those of two components, the connection and the locks, which share no variable).

**MqttPublish** is the QoS 1 publish path. An application task runs
`lock → id → serialize → push → send → (remove)`, the points of `qcloud_iot_mqtt_publish`
between which another task can see or change shared state; the yield task runs
`read → (success) → proc → visit ⇄ window → keep_alive → read`, and after a failed read or ping
`disconnect → teardown → set_state → reconnect`. `handle` (the TLS session exists) and
`is_connected` are two variables because `_handle_disconnect` changes them one after the other,
under no common lock. A list node is the number of its publish, the order of the numbers is the
order of the list, and 0 is the null pointer; `Prev` is `node->prev`. A transport that fails may
leave a record half written: `pending` holds it, and the next write may complete it. Using a
freed node, or a released session, sets `fault`, after which the model says nothing.

**PublishPromise** is the abstract specification: what an application may rely on, with no tasks,
locks, lists or ids. **MqttPublishInv** holds the inductive invariant and the mapping
(`delivered <- sent`, `answer`, `heard`), **MqttPublishProofs** the theorems.

**MqttSub** follows the copy of a topic filter from the call that made it, through the node of the
wait list, into a slot of `sub_handles` and back to the heap. `sub_handles[i].buf` is the
string a slot owns, `.by` the request whose user data it carries: they differ after a
resubscription, which replaces the user data and frees the new string, and after an unsubscription,
which frees the string and leaves the rest. `Holds` is `_check_handle_is_identical`: the same filter and the same two handlers
(one value of `Handlers`). A topic may be subscribed with several pairs of handlers, as the comments at `S/mqtt_client_unsubscribe.c:126` and
`S/mqtt_client_common.c:1084` say: it then takes several slots, and one unsubscription clears them all. `Subscriptions` are the pairs of topic and handlers an application uses. Resubscription is not special-cased: the yield task makes the same `Push`/`Send` steps as any caller.

**MqttConn** is the loop of `qcloud_iot_mqtt_yield` seen from the connection: `Enter` and `Leave` are the
call and its return, `ypc` the place in the loop. Only the yield task changes this state, with
one exception, `set_autoreconnect`. Time is ticks of the keep-alive timer while connected; the
delays between attempts, which are far longer, end at any time.

**MqttLocks** knows nothing but locks. A path is the sequence of lock, unlock and callback steps of one
run of a function; each call is the set of its paths, early returns and error paths included, and
callbacks may run any call of `CallbackCalls` in turn.

**MqttWire** is the byte level. The broker sends packets as the standard codes them (`Standard`); the
client reads them as `_read_mqtt_packet` does (`first → length → payload | discard → handle`), where the
stream may break at any byte; `cycle_for_read` takes the packet apart and `_deliver_message` looks for
a handler by the two-pointer walk of `_is_topic_matched`. What the client writes is built by
its own serializers and length functions. `BASE` is 128 in the code and 4 in the runs, so
that a packet of 24 bytes has a remaining length of two or three digits and the buffer ends at a digit.

**Shadow** composes the request list, the result topic and the property list. A request runs
`token → count → publish → add`, since the token is formatted and counted, the document published, and only
then the list locked; a walk over the list holds its mutex throughout and is one step. `request_list` is the
set of the requests listed: a walk visits them all, and no reply, time-out or loss depends on their order. The yielding
task makes the synchronous calls: it waits, and yields while it waits. **ShadowDoc** has what the two ends say to
each other as text, in tokens of JSON: the builders that paste documents together, and the
search functions that read them back. `SentBy` and `ReadOf` are tables of both, computed once.
**Json** has the SDK's search (`json_parser.c`, `json_token.c`) beside a reader that follows the standard, which
stands for the cloud.

**Ota** is the demo's upgrade task with what survives a restart: the contents of the two
partitions, `otadata`, and the NVS records `otaflag` and `otanumber`. `boot → listen → erase → (fetch → write →
save) → verify → begin → success → number → flag` are the places where a restart leaves something different behind. A
byte of flash is `<<image, position>>`, so that bytes of two releases can be told apart, as MD5 does.
Before them come `construct` and `init`, where the clients are made and the version is reported. **OtaDoc** has the messages on
`$ota/report` and `$ota/update` as JSON: `fw` is what the device reads in an announcement, `version` and
`claimed` what the cloud reads in the reports. `Heard` and `Read` are tables of what each message says.

**Coap** has the list of confirmable messages (a set, for the same reason), the datagrams under way (`toDevice` is a
set, from which a datagram may be lost, or delivered once more), and a server that answers piggy-backed, separately or
never. Request 1 is the authentication of `IOT_COAP_Construct`. **CoapWire** has the formatting and parsing of
messages and options: every datagram in `toDevice` went through both. **RequestPromise** is the second abstract specification: what an
application may rely on, a result and at most one outcome of each request, with no tasks, numbers, lists or datagrams (`returned`, `outcome <- Outcome(n, heard[n])`,
`closed <- mode = "destroyed"`).

**Http** is the download of one file by `IOT_OTA_FetchYield` and `_http_client_recv_response`, read by read: the header, then
the body through the client's local buffer into the caller's. The file's bytes are numbered, so
one that is lost, doubled or stale is seen. The URL is taken apart as the client does it, and the server answers only the
request that the URL means. The transports are TCP, whose read returns what it has,
and TLS, whose read throws it away when the stream ends.

**Boarding** runs the main task, the command task (`comm`), the Wi-Fi task (`wifi`) and the driver's event
handler over their flags and event bits; SSID and password are two records of the flash, and a power cut
may fall between any two steps. A phone may send any of its commands at any time, or none.

Abstracted in all modules but `MqttWire`, `ShadowDoc` and `CoapWire`: contents of packets and topics (model values) and sizes (a packet
fits or does not). Abstracted everywhere: logging, memory (an allocation succeeds or does not; that of a list iterator always
succeeds), and argument checks that return before anything has happened. QoS 2, which the SDK
refuses to send, occurs as the PUBREC of a received message.

## 3. Runs

The passing runs finish in one to three minutes each on two cores.

| run | instance | what it shows |
|---|---|---|
| `MqttPublish` | 2 tasks, 3 publishes, ids 1..3 that wrap from any start, a list of 2, 1 connection loss, ACK timers that may run out during a send | in every interleaving: ids unique and in range, the buffer intact, success true, the saved iterator valid, no timeout after success |
| `MqttPublishLive` | 2 tasks, 2 publishes, 1 loss, fairness, no send outlasts its node's timer | the code implements `PublishPromise`, touches no freed node, every call returns, every accepted publish is answered, unless the connection is lost for good |
| `MqttSub` | 2 tasks, 1 topic with 2 pairs of handlers, 3 requests, 2 slots, 1 loss, calls that overlap | one owner per string, no string lost, no two slots with one topic and the same handlers, answers and timeouts exclude each other |
| `MqttSubSync` | 1 task, 2 topics, one of which has 2 pairs of handlers, 3 requests, 3 slots, 1 loss, fairness, no overlapping calls on one topic | slots and broker agree when all is quiet, across a reconnection; every request is answered, unless the connection is lost for good |
| `MqttConn` | keep-alive 4 ticks, answers within 3, the longest first delay (1990 ms), 2 losses, the option toggled at any time | silence bounded, live broker kept, at least five attempts, reconnection ends one way or the other |
| `MqttLocks` | 2 tasks and yield, all calls, callbacks that call back wherever no lock is held | no circular wait, no lock kept |
| `MqttWire` | base 4, a buffer of 24 bytes, 5 tables of subscriptions, 12 packets of the broker and all kinds of the client, three packets in a row, a stream that breaks anywhere | client and broker in step, packets understood as sent, matching handlers found, packets written as the standard says |
| `Shadow` | 1 asynchronous task and the yielding one, 2 requests of 6 kinds of documents, a list of 1, 1 loss, 1 property, 1 delta | one answer per request, and its own; documents read as meant; every request answered, synchronous calls end; so does the construction, unless the connection is lost for good |
| `Ota` | images of 3, 4 and 1 bytes, sectors of 2, a partition of 10, 2 releases, 2 restarts anywhere, 2 faults (a client that cannot be made, a report that fails, a refusal, an error of HTTP or flash) | a whole image to boot at every moment, nothing outside the partition written, the last release runs in the end |
| `Coap` | 1 task and the yielding one, authentication and a request, 1 retransmission, 1 doubled datagram, ids 1..3 | the code implements `RequestPromise`; answers written and read alike; every request answered |
| `Boarding` | 2 networks, one of which can be joined, 4 and 3 turns of the loops, 1 power cut, any flash | no mixture of networks, success only with a network, softAP and smartconfig end |
| `Http` | a file of 22, buffers of 7 and 8, sectors of 4, all framings, 2xx and 403, TCP and TLS, a URL with a fragment and one without a path, 2 faults | bytes in flash are the file's; downloads complete |

Each module also has a type invariant `TypeOK`; it, and the further invariants `AckedIsMarked`
and `IInv` (`MqttPublish`), `SilenceNoticed` (`MqttConn`), `ReleasesItsOwn` (`MqttLocks`) and `HeardOnce` (`Coap`, part of `KeepsPromise`), hold in the same instances and are checked by
naming them in the cfg. Most of them are proved (section 4).

**Why the bounds are enough.** A publish interacts with another through the buffer, the id counter and its
neighbours in the list: with a walk in progress, three publishes give a node before, at and after
the iterator, and a list of two gives the full list. Ids 1..3 from every start make every publish of
the run the one that wraps. Two slots and two subscriptions of one topic give a free slot, an identical one, and one with the same topic and other handlers;
three requests give a subscription, its resubscription or a second one, and an unsubscription of both. In `MqttSubSync` a second topic shows that the first is left alone.
One loss and its reconnection reach every state of the connection; `MqttConn` has two, for a
delay or a ping count left over from the first. For `TriesEnough` the longest first delay is the
hard case: it leaves the fewest doublings below `MAX_RECONNECT_WAIT_INTERVAL`. The lock paths have no
data: two tasks and yield are as many as any circle of two or three waits needs, and four locks
admit no longer one without a fourth waiter.
In `MqttWire` packets are empty, small, as long as the buffer, one byte longer and twice as long, with one to three
digits of length; three in a row put every one after every error of another. In `Shadow` a list of one
makes the second request the one that finds it full or takes the place of a request that has timed out and whose reply is still to
come; `Shadow.cfg` with three requests, a list of two and no deltas (`Documents <- Documents_Three`) passes in two minutes. In `Ota` one image ends with a sector, one inside it, and one is smaller than the
offsets saved for another; the partition is the smallest in which the largest image leaves the room that two restarts may use (`ImagesFit`); two restarts allow a resumption to be interrupted; two releases allow the image on
offer to change before and after a resumption. In `Coap` one retransmission is a first and a last one,
and with one doubled datagram each message may come twice; options of 1, 14 and 0 bytes with numbers 12, 60 and 400 use each form of the format. `Coap.cfg` with three requests and four
ids, without fairness, passes in three minutes. In `Boarding` the turns of the loops let each task outlive the other. In `Http` the file is
three buffers long, so that there is a first, an inner and a last fetch, and the buffers' lengths have no common divisor.

**Fairness.** FreeRTOS runs every ready task and hands a mutex to its longest waiter of the highest
priority, so a task that waits for a lock that is freed again and again gets it (SF on the steps that
take a lock, WF on the rest of a call). The application is supposed to call `yield` for ever
(fairness on its steps), and timers run out (WF). Nobody promises that a lost connection comes back: in the publish, subscription and shadow models
the client may fail to reconnect for ever, and since yield then reads nothing and looks at no timer (`S/mqtt_client_yield.c:239-247`, `:432`), the properties
excuse a connection that is lost for good. (In `MqttConn` the client reconnects or gives up.) Nothing is assumed
of the broker in the publish and subscription models: it may never answer. In `MqttConn` a live broker
answers a ping within `ServerDelay`, and the application calls `yield` at least once per tick.
`Shadow` and `Coap` assume the same of calls, `yield` and timers and nothing of the cloud or the network; `Shadow`
takes from `MqttSub` (`EveryRequestAnswered`) that a SUBSCRIBE is answered or times out while the client is connected again and again. `Ota`
assumes that the processor runs and that an offer of the cloud reaches a device that listens again and again
(SF on that callback only). `Boarding` assumes that the tasks run: no phone and no network. `Http`
assumes that every read ends, by its time-out at the latest.

**Configurations that end in a counterexample.** Some are kept as files, the others are a passing configuration with the change given. Each
lifts an assumption of a passing run or asks for more than the code gives.

| configuration | property | what TLC shows |
|---|---|---|
| `MqttPublishSent.cfg` | `ReturnedIsSent` | the command timer is started before `lock_write_buf` is waited for; once it has run out `send_mqtt_packet` (`S/mqtt_client_common.c:528`) writes nothing and returns success, and so does publish. `qcloud_iot_export_mqtt.h:226` says "packet id (>=0) when success, or err code (<0) for failure" |
| `MqttPublish.cfg` | `NoReleasedHandle` | a publish past its connection check (`S/mqtt_client_publish.c:318`) writes to the session `_handle_disconnect` has released |
| `MqttPublishLive.cfg`, `SendMayOverrun = TRUE` | `NoFreedNode` | a send outlasts the ACK timer of its own node: `pub_info_proc` frees the node, and the failed publish removes it again |
| `MqttSub.cfg` | `NoGarbageFreed` | an UNSUBACK after its timeout frees an uninitialized pointer (`S/mqtt_client_common.c:1091`) |
| `MqttSubResub.cfg` | `InSyncAfterReconnect` | a resubscription that fails leaves the client connected and its topics unsubscribed, and nobody is told. `mqtt_client.h:273` says "Reconnect with MQTT server and re-subscribe topics if reconnected" |
| `MqttSubWildcard.cfg` | `OthersKept` | unsubscribing a filter with `/#` or `/+` clears all slots; the comment at `S/mqtt_client_unsubscribe.c:128` expects more than one match only for "the same topic" |
| `MqttSub.cfg` | `NoFreedString` | an unsubscription frees the string resubscribe has just read |
| `MqttSub.cfg` | `InSync` | a SUBACK after the topic was unsubscribed installs it for good |
| `MqttSubSync.cfg`, `MAX_MESSAGE_HANDLERS = 2`, without `Hypotheses` | `EveryRequestAnswered` | no free slot: the subscription is dropped without an event |
| `MqttSub.cfg`, `MAX_MESSAGE_HANDLERS = 1`, without `Hypotheses` | `NoLeak` | one topic with two pairs of handlers and one slot: the filter of the second subscription is never freed |
| `MqttLocksRepublish.cfg` | `NoCircularWait` | publishing again from PUBLISH_TIMEOUT blocks on the lock of the caller, although `S/mqtt_client_yield.c:350` says "It is up to user to do republishing or not" |
| `MqttWire.cfg`, `Stalls = TRUE` | `InStep` | the stream pauses inside a packet for longer than the read waits: yield returns an error, the connection stays, and the rest of the packet is read as a new one |
| `MqttWire.cfg`, invariant `OnlyMatching` | | a subscription to `a/#` is handed the messages on `ab`, one to `a/+/b` those on `a/` (`S/mqtt_client_common.c:757-762`) |
| `Shadow.cfg`, `Garbled = TRUE` | `SyncCallsReturn` | a result code that cannot be parsed removes the request without its callback (`S/shadow_client_manager.c:557`) |
| `Shadow.cfg` | `ConstructEnds` | the connection is lost for good while the loop at `S/shadow_client.c:168` waits for the answer to a SUBSCRIBE, which yield handles only while connected |
| `Shadow.cfg`, `OneBuilder = FALSE`, `MAX_APPENDING_REQUEST = 2` | `RepliesFindTheirOwn` | two tasks build documents at the same time and get one token |
| `Shadow.cfg`, `RegisterOnce = FALSE`, `MaxRegistered = 2` | `RegisteredOnce` | a property is registered twice: `list_find` compares a property with a handler (`S/shadow_client_common.c:52`) and never finds it; for the same reason it is never unregistered |
| `OtaReport.cfg` | `ReportedIsBooted` | the report of the beginning cannot be published; `update_partition` is then NULL, `esp_ota_set_boot_partition` fails, its result is ignored (`D/device_ota.c:423`), and success is reported (`qcloud_iot_export_ota.h:180`) |
| `Ota.cfg`, `AckLoss`, `Withdrawn` or `LateRestart = TRUE` | `UpgradeCompletes` | the PUBACK of a report does not come: the loop at `D/device_ota.c:414` has no end. A release is taken back after it was downloaded. A restart between lines 423 and 439: the new image starts in OTA mode, with an old offset |
| `Ota.cfg`, `Size <- SizeFull_MC`, `Spec`, without `Hypotheses` | `OwnPartition` | an image that fills the partition has the sector behind it erased (`D/device_ota.c:284`) |
| `Coap.cfg`, `AuthFails = TRUE` | `ConstructEnds` | the authentication cannot be formatted, or there is no memory for its node: the loop at `S/coap_client.c:86` has no end |
| `Coap.cfg`, `OneSender = FALSE`, three requests, four ids, `Spec` | `AnswerIsMine` | two tasks send at the same time and get one token |
| `Http.cfg` | `DownloadCompletesTls` | a TLS server that closes after its answer: the last bytes are thrown away at every attempt (`P/HAL_TLS_mbedtls.c:364`) |
| `Http.cfg` | `FetchEnds` | the size line of a chunk is waited for beyond the time-out of the fetch (`S/utils_httpc.c:433`) |
| `Http.cfg`, `Spec`, invariant `NoStaleHandle` | | after a failed read the transport is used with a handle it has closed (`S/utils_httpc.c:350`) |
| `Http.cfg`, `Spec`, `Codes` with `"page"`, invariant `NoPage` | | the page of an error other than 403 and 404 is written to flash (`S/utils_httpc.c:577-585`); MD5 finds it |
| `Http.cfg`, `Spec`, `Lengths <- LengthsLong_MC`, invariant `RequestIntact` | | header fields that fill the send buffer are sent mutilated (`S/utils_httpc.c:196-202`) |
| `Boarding.cfg`, `MaxCuts = 0`, `Spec`, invariant `NetworkInfoIsThere` | | the server task saves empty strings when the phone sent nothing, and the next boot is a station without a network (`main.c:55`) |

Seen while reading, without a run of their own:
- after an unsubscription the slot keeps its handlers, so `IOT_MQTT_Destroy` tells CLIENT_DESTROY to
  a subscriber who has long heard UNSUBSCRIBE (in `MqttSub` as the field `by`);
- the comment at `S/mqtt_client_yield.c:164` takes two unanswered pings for a keep-alive interval of
  silence; the waits are `Min(5, interval/2)` seconds each, so it is the interval plus at most ten seconds (`MaxSilence`);
- `set_autoreconnect` does not draw a delay: switched on after a loss, the client goes by
  whatever delay it is left with, 0 at first, which doubles to 0. `TriesEnough` and
  `ReconnectsOrGivesUp` therefore speak of clients that drew a delay when they lost the connection;
- a power cut between the SSID and the password leaves a name without a password, for which `D/main.c:51` has
  no branch: the device starts no mode at all (mode `idle` in `Boarding`);
- with a wrong password that was saved, station mode ends in a restart again and again (`D/device_main.c:649`);
- the CoAP list and the shadow's property list are created without a function that frees their values, which leak.

## 4. Proofs

Every theorem holds for all values of the constants that the module's named assumption admits: any number of
tasks, calls, slots, topics, losses, restarts and so on. Where a property needs more than that, the theorem says so
in its ASSUME, under a name, and the runs satisfy it. None of the properties is inductive. In each module `IInv`
is the conjunction of named parts, there is one lemma per action (`PubLockKeeps`, `YVisitKeeps`, ...) with a step for each part
the action can disturb. TLC has checked the invariants on small instances first, except the one of the locks, whose existential it cannot evaluate.

| module | theorem: property | hypotheses beyond the types of the constants |
|---|---|---|
| `MqttPublishProofs` | `TypeCorrect`, `IdsUnique`: `UniqueIds`, `BufferKept`: `BufferIntact`, `AckedMarked`: `AckedIsMarked`, `SuccessTrue`: `SuccessIsTrue`, `IteratorSound`: `IteratorValid`, `NoTimeoutAfter`: `NoTimeoutAfterSuccess` | no more calls than packet ids |
| | `NodesLive`: `NoFreedNode`, `PromiseKept`: `KeepsPromise` | also `~SendMayOverrun` |
| `MqttSubProofs` | `TypeCorrect`, `StringsHaveOneOwner`: `OneOwner`, `SubscriptionsHaveOneSlot`: `NoDuplicates`, `ReportedOnce`: `AnsweredOnce` | |
| | `NothingLeaks`: `NoLeak` | `EnoughSlots`: at least as many slots as `Subscriptions`, a topic with two pairs of handlers counted twice |
| | `InAgreement`: `InSync` | `~MayOverlap`, `~SendMayOverrun` |
| `MqttClientProofs` (connection) | `TypeCorrect`, `SilenceIsBounded`: `SilenceBounded`, `TriedEnough`: `TriesEnough` | the longest first delay doubles four times (16 x 1990 < 60000 ms) |
| | `LiveServerIsKept`: `LiveServerKept` | `ServerDelay < 2 * PingWait` |
| (locks) | `OwnLocksReleased`: `ReleasesItsOwn`, `NothingHeldOnReturn`: `ReturnsUnlocked`, `NoDeadlock`: `NoCircularWait` | `CallsFromFreeEvents` |
| `ShadowProofs` | `AnsweredOnce` | |
| | `RepliesOwn`: `RepliesFindTheirOwn` | `OneBuilder`, `ReadsAsMeant` |
| | `CalledOnce`: `OneCallback` | also `RegisterOnce` |
| | `TypeCorrect` | `ReadsAsMeant` |
| `OtaProofs` | `AlwaysBootable`: `BootableAlways` | |
| | `PartitionKept`: `OwnPartition` | `ImagesFit`, `AnnouncementsRead` |
| | `TypeCorrect` | also `ReportsRead` |
| | `SuccessIsBooted`: `ReportedIsBooted` | `~PublishFails`, `AnnouncementsRead`, `ReportsRead`, `ImagesDiffer` |
| `HttpProofs` | `TypeCorrect`, `FlashHoldsTheFile`: `BodyIntact` | |
| `CoapProofs` | `AnsweredOnce`: `HeardOnce` | no more requests than message ids |
| | `TypeCorrect` | also `WireFaithful` |
| | `AnsweredByItsOwn`: `AnswerIsMine`, `PromiseKept`: `KeepsPromise` | also `OneAtATime`, `FewRequests`, `WireFaithful` |
| `BoardingProofs` | `TypeCorrect`, `FlashIsNotMixed`: `NoMixture`, `FinishedIsTrue`: `FinishedHasNetwork` | |

**The hypotheses are needed, and met.** The counterexamples of section 3 are what happens without them:
`SendMayOverrun` (a freed node), `MayOverlap` (a zombie subscription), callbacks that call back under a lock (`MqttLocksRepublish`),
two builders or two senders (one token), a property registered twice, an image that fills the partition, a report that cannot be published. The passing runs satisfy all of them but `~PublishFails`, which run `Ota` does not assume: with it, `Ota.cfg` finds
`ReportedIsBooted` to hold as well, `AckLoss`, `Withdrawn` and `LateRestart` included. `ReadsAsMeant`, `AnnouncementsRead`, `ReportsRead`
and `WireFaithful` say of the text that is exchanged that what is read is what was written, one message at a time. They are facts about recursive functions on
data, which the prover cannot treat (`ImagesDiffer` is one about `ToString`); TLC evaluates them over all announcements, reports, messages and replies of the instances.

**Publish path.**

1. `LockInv`: `pc` says who holds `lock_write_buf`, hence at most one task is between `id` and `remove`
   (lemma `Alone`); `ypc = "visit"` says that `lock_list_pub` is held.
2. `CallInv`: that task makes the newest publish, `calls`. Everything it has not done yet (no id, not in
   the list, not sent) is stated for it. This gives `BufferIntact`.
3. `IdInv`: the id of publish n is the newest id counted back `calls - n` places, modulo the wrap
   (`IdOf`). With `MaxCalls <= MAX_PACKET_ID` different publishes have different ids (lemma `IdsApart`):
   `UniqueIds`, although `get_next_packet_id` returns the field after its unlock.
4. `UsedInv`, `WireInv`: what is listed or sent is numbered, and packets under way carry the id
   of their publish; a half-written record is never of the publish that is going on.
5. `AckInv`: between the mark and the event the PUBACK's node is marked if it is there. With 4 this
   gives `AckedIsMarked` and `SuccessIsTrue`.
6. `PassInv`: the saved iterator points into the list and lies before the node that is to be removed;
   a publisher only ever removes the newest node. This gives `IteratorValid`, and with 5
   `NoTimeoutAfterSuccess`: the node in the window was unmarked, and marks are set only by the
   task that is in the window.
7. `KeptInv`, while no send outlasts the timer of its own node: a node belongs to the call that is sending
   it until that call returns (`NodeInv`), so the pass removes and times out only nodes of calls that have
   returned (`OwnedInv`), and a half-written record is of a call that failed (`LateInv`). This gives
   `NoFreedNode`, and the **refinement**: `PromiseKept` maps the initial states of `MqttPublish` to those of `PublishPromise`
   and each of its steps to a step of it or a stutter.

**Subscriptions.** A copy of a filter has the number of its request. `AskedInv`: nothing is known of a request that was not made.
`CallInv`: each call works on a request of its own, not yet listed before the push. `WireInv`: a request has at
most one packet under way, and its node is unanswered until that is handled: this is what keeps a string from being handed to a
slot twice. `UserInv`: slots carry user data of requests that are over. `EventInv`: who waits has heard nothing, hence
`AnsweredOnce`. `OwnerInv` is `OneOwner` made inductive: what is stored or waits is on the heap, and not both.
For `NoLeak`, a call that sends has its string in the list or freed (`HeldInv`), so that what the call leaves behind is freed or waits; and when a SUBACK finds no free slot, one of them has
its topic and handlers, whose string stays while the new one is freed: the slots hold different subscriptions (`NoDuplicates`), the request that was answered and those that
are stored ask for something in `Subscriptions` (`KnownInv`), and there are no fewer slots than that (lemma `RoomForAll`, by the pigeonhole principle).
For `InSync`, `SyncInv` adds: while a topic is being unsubscribed nothing else is under way about it and no slot holds it (`ApartInv`); an answer
is of the kind its request asks for, and what it grants the broker still delivers (`AckInv`); a node outlives its call (`SendInv`); the call of
resubscribe is of the slot it has come to (`ResubInv`); and `SlotInv`: each stored topic is delivered, or refused to the application's
knowledge, or asked for again, or resubscribe has not come to it yet (`Left`). The last case is why `InSync` speaks of quiet states only.

**Connection.** `SilenceInv`: the silence so far and the time the loop may still let pass are together no more than the keep-alive interval and what the
open pings have added. The loop looks at the timer only when it has run out, or after a turn that may take longer than the timer had left, hence
`StillToPass`. `PongInv`: the oldest open ping is as old as the waits that have passed since, so that a second one cannot run out
before a live server has answered the first. `DelayInv`: after k failed attempts the delay still has room for 5 - k doublings.

**Locks.** The model's paths are sets of sequences, so the proof is about sequences: `Leads(A, r, B)` says that the path r turns the locks A of
a worker into B, taking each lock only when all it holds come before it in the order `write_buf`, `generic`, `list_pub`, `list_sub` (`Rank`), releasing only what it
holds, and raising the events of free callbacks with nothing held. `Leads` is closed under concatenation; each set of paths is shown to lie in `Keeps`, function by
function; and `PathInv`, "what is left to do leads from what is held to nothing", is inductive. A circle of waiting workers would then have locks of ever higher rank.

**Shadow.** `RequestInv`: a request is one task's, goes into the list once, and leaves it when it is answered; nothing is assumed for this.
`NumberInv`: while documents are built one at a time the n-th request carries token n - 1, and every reply under way the token of its request.
`DeltaInv`: a delta is in one message at most, newer than those the application was told of.
For the type invariant, the token counter is no more than the number of requests that have counted it up (`CountInv`): two tasks may count from the same value, but no request counts twice, so the bound
is one of cardinality.

**OTA.** For `BootableAlways`: a download goes to the partition that is not booted (`DownloadInv`); another one is chosen only after the image was verified
in this session (`ChosenInv`), after which no further offer is taken (`OverInv`) and the partition to choose is left alone (`TargetInv`). For `OwnPartition`: `RoomInv`
bounds the saved offset. The invariant that suggests itself, that the offset passes the end of an image by one chunk at most, is **not** inductive: a restart
between the save of the last offset and the check of the digest (also the one the demo makes itself when the MD5 context cannot be made, `D/device_ota.c:393`) leaves an offset past the end, the next attempt
fetches one more chunk from there before it ends, and saves an offset one chunk further. `Slack` therefore keeps a chunk of room for each restart that is still to come,
and `ImagesFit` asks for it: an image has to leave a sector and a chunk per restart free. Only the check of the digest sets it back.
For the type invariant, what was announced is an image (`FwInv`), the body of an answer begins no later than the offset at which it is written (`FlashInv`), and the image that a report names is the one
that runs, since a device that starts runs a whole image (lemma `RunsAnImage`, from `BootableAlways`). For `SuccessIsBooted`: if no report fails, the partition that was verified is not forgotten
before it is chosen (`ReportInv`), and the version that is reported is that of the image whose digest was found in it. `OtaReport.cfg` shows that the hypothesis is needed.

**HTTP.** `BufferInv`, for every framing: what is read or copied at once is never more than the room left, because `retrieve_len` and the local counter of
`_http_client_retrieve_content` count the same thing down (`CopyInv`). `BodyIntact` needs to know where in the answer everything stands, since nothing in the code
says so: `Token(i)` is the i-th token of an answer that begins after what is in flash, and `StreamInv` says, place by place, that the caller's buffer, the local one and what the
connection still holds are three consecutive stretches of it (`Copied`, `After`, `Rest`), that `retrieve_len` is what is missing of the file after the first of them (`Read`), and that the progress the
fetch will report is what the caller's buffer holds (`Counted`). When the caller's buffer is full the local one is thrown away; nothing is lost because what `ReadMore` asked for fits the room left, and
all of it has been copied by then: the conjunct `Len(data) <= Room(out)`. A stall before the header (`Unread`) is the other case: such a fetch reports
zero bytes, and the next one copies nothing and reports zero again, before the third reads the header.
`TypeCorrect` adds that every token on the wire and in the local buffer is at least `SizeLine(FileLen)`
(`TokInv`), so that no size line says more than the file has, wherever the reads cut it.

**CoAP.** `HeardOnce`: the node of an answered message is marked `invalid` and stays so until the pass that removes it (`HeardInv`), and what is listed or answered is no longer
being made (`FreshInv`). `AnswerIsMine` from `OwnInv`: numbering is done by the newest call alone (`TurnInv`), so ids and tokens are functions of the
request (`CounterInv`, `NumberInv`), and every datagram under way carries those of the request it answers (`AnswerInv`). Ids and tokens are used once: there are no more requests than of either.
The **refinement** `PromiseKept` maps the initial states of `Coap` to those of `RequestPromise`, and each step to one of its steps or a stutter: a call that ends to
`Return`, a message that finds a node to `Answer`, a pass over the list to `TimeOut`, destruction to `Close`. It needs two more invariants: no request has a result before its call is over, and what is
listed has a good one (`ReturnedInv`); while the client is constructed only its constructor uses it, and after its destruction nobody does (`LifeInv`).
For the type invariant, `TokenInv` bounds the token counter by the number of requests that have counted it up, as in the shadow client.

**Boarding.** `SavingInv` follows the two records of the flash through the four steps that write them; `QuietInv` says that outside softAP and smartconfig there are no tasks
and RAM is as after a start; `TargetInv` that who got as far as MQTT was told of a network.

**Only model-checked.** Liveness under fairness (`CallReturns`, `EveryPublishHeard`, `EveryRequestAnswered`, `SyncCallsReturn`, `ReconnectsOrGivesUp`, `UpgradeCompletes`,
`EveryRequestHeard`, `BoardingEnds`, `DownloadCompletes`): the prover has neither fairness nor ENABLED. What recursive functions compute on data: `DocumentsRead`, and all
of `MqttWire` (`InStep`, `HeardIsSent`, `BrokerUnderstands`, its type invariant), whose codecs would need induction.

## 5. Not modelled, and the plan

Not modelled for good: crypto and encodings (test vectors suit them better), logging, device
identity, certificates, certificate and partition tools (no control state), the TLS handshake (library), system time
over MQTT (one subscription, one publish, one wait), the ring buffer and the UART, LED and key tasks of the demo (never
started, or a blinking light), HTTP POST and basic authentication, the text of header fields, `IOT_OTA_Ioctl` and the client's own MD5 (the demo reads flash back instead). Code under `#if` that this build leaves out
(`MQTT_RMDUP_MSG_ENABLED`, `LOG_UPLOAD`, the plain TCP variant of MQTT, OTA over CoAP, `AUTH_WITH_NOTLS`) is left out as well.

Errors of the environment that are left out: those of the NVS while a network is saved (`D/tc_iot_wifi_boarding_esp8266.c:1036`), by which either record, or the old content, may be missing or stay behind; a
`wifi_ap_sta_connect` that fails after the name and password were taken from the phone (`D/tc_iot_wifi_boarding_esp8266.c:669`); and a failed DTLS write, which
`P/HAL_DTLS_mbedtls.c:332` reports as a success with the error as the length, so that `Coap` has no sent-and-failed case beside the lost datagram.

Not modelled yet: the 32-bit wrap of the timers; `_deliver_message` against an unsubscription in the window after its unlock
(`S/mqtt_client_common.c:791`); application callbacks that call the shadow or CoAP client back while it walks its list.
