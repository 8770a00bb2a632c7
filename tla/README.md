# Tencent IoT Suite SDK for RT-Thread: a TLA+ development

This directory specifies, model-checks and partly proves the C SDK in
`src/tencent-cloud-iotsuite-embedded-c` (`TC/` below), its ports in `src/ports`, and the
samples that show how the API is used. `PROJECT.json` maps every definition to the source
lines it stands for, lists what is hard to test (`hazards`) and names, for every property, a
plausible mistake in the code that breaks it (`mutants`).

The SDK is single-threaded: `src/README.md` says that its API may not be called from several
threads. What makes it hard is not parallelism but *nesting and timing*: every API function
blocks in a read loop that dispatches whatever arrives, runs user callbacks that may call the
API again, may tear the connection down under its caller, and reconnects and re-subscribes
recursively; requests live in small tables that time out; the peer and the network answer
late, twice or never; buffers and documents are shared between nested calls.

## 1. Inventory

| Component | Source | State | Operations | What makes it correct | Modules |
|---|---|---|---|---|---|
| MQTT client | `TC/src/mqtt/tc_iot_mqtt.c`, `tc_iot_client.c` | connection state, socket, handler table, packet id, ping flag, back-off, four timers | construct, connect, publish, subscribe, unsubscribe, yield, disconnect, destroy, (re)connect inside every call | socket follows state; handlers agree with the broker; an acknowledgement answers its own request; calls return; lost connections are noticed and re-established | `MqttClient`, `MqttPings`, `PacketStream`, `PacketSending` |
| Topic matching | `deliverMessage`, `isTopicMatched` | handler table, `readbuf` | deliver, match, requests in a handler | every matching handler once, while the topic in `readbuf` lasts | `TopicDelivery` |
| Shadow sessions | `TC/src/iotsuite/tc_iot_shadow.c` | 10 sessions (id, timer, callback), 16-bit session counter | get, update, delete, message received, yield | one callback per accepted request, with the answer to that very request, or a timeout | `ShadowSession`, `RequestTable` |
| Shadow properties | `tc_iot_shadow_property.c`, second half of `tc_iot_shadow.c` | per property: local, reported and cached value, `changed`/`reported` bits | report, confirm, control, sync | device and server agree in the end; no command is forgotten undone | `ShadowSync` |
| CoAP client | `TC/src/coap/tc_iot_coap.c` | sessions, message id, token state, receive buffer | auth, publish, rpc, yield | as for shadow sessions; authentication ends; a message is one datagram | `CoapClient`, `Datagrams` |
| CoAP codec | same file | option list | add, serialize, deserialize | decoding inverts encoding | `CoapMessage` |
| OTA | `TC/src/ota/*`, `src/samples/scenarios/ota` | one global handler, file per version | command, report, download, compare | prepared only with the whole image of its own command | `Ota` |
| HTTP client | `TC/src/common/tc_iot_http_client.c` | parser state, buffer | perform, parse, collect | a reply read in pieces is the reply | `HttpClient` |
| HTTP services | `TC/src/http/*` | device configuration | token, activation, message RPC, download | user name and password of one token; success means all of one reply | `HttpServices` |
| Sub-devices | `TC/src/iotsuite/tc_iot_sub_device.c` | device table with bits, one document buffer | register, online, offline, command, report, confirm | documents read as what was marked; nothing confirmed before it is reported | `SubDevice` |
| JSON | `tc_iot_json.c`, `tc_iot_json_writer.c`, jsmn | tokens, writer buffer | write, parse, find, unescape | what is written is read back | `JsonText` |
| Forms and digests | `tc_iot_http_utils.c`, url, base64, ya_buffer; md5, hmac, sign | buffers, length counters | append, encode, update, final | forms read back; the whole message is hashed | `FormText`, `MessageDigest` |
| Timers | `src/ports/rtthread/tc_iot_hal_timer.c` | tick of the deadline | countdown, expired, left | right across the wrap of the tick | `HalTimer` |
| Network ports | `src/ports/rtthread`, `src/ports/ssl`, `TC/src/platform/linux` | fd, TLS session | connect, read, write, disconnect | no descriptor is lost, none is used by two | `NetworkPorts`, `PacketStream`, `PacketSending`, `Datagrams` |
| Samples | `src/samples/advanced_edition/{http,coap}` | device data | get, take over, update, delete | no command is cleared unhandled | `RpcSync` |

Interactions: the shadow, OTA and sub-device modules subscribe topics at the MQTT client and are
driven by its message handlers and by the application's loop; the CoAP client drives UDP or DTLS
directly; OTA and the HTTP services share the HTTP client; everything measures time with the
HAL timers and reaches the network through the ports.

## 2. Plan and status

| # | Modules | Status |
|---|---|---|
| 1 | `MqttClient`, `MqttPings` (extends it by a history), proofs in `MqttClientProofs` | done |
| 2 | `RequestTable` (abstract), `ShadowSession` (implements it), `ShadowSync` | done |
| 3 | `ShadowSessionProofs` | done |
| 4 | `CoapClient` (implements `RequestTable` too), `CoapClientProofs` | done |
| 5 | `CoapMessage`, `TopicDelivery`, `JsonText`, `FormText`, `MessageDigest` | done |
| 6 | `HttpClient`, `HttpServices`, `Ota` | done |
| 7 | `SubDevice`, `NetworkPorts`, `PacketStream`, `PacketSending`, `Datagrams`, `HalTimer`, `RpcSync` | done |
| 8 | `ShadowSyncProofs`, `OtaProofs`, `SubDeviceProofs`, `PartsProofs`, `HttpProofs` | done |
| 9 | the two shadow modules composed over a full session table | open |

Each component has a module with its state and one action per operation, an `MC` module with
definitions its `.cfg` needs, and where there are theorems a proof module that EXTENDS it. The eleven
small parts that share nothing are instantiated together in `MCParts`: a behaviour is one of one
part, so the states add up and do not multiply. No module that is proved about declares a
RECURSIVE operator. Operators marked `(slip)` are the plausible mistakes of `mutants`; no action
uses them.

## 3. The modules and the code

### `MqttClient`

The C call stack is explicit: `stk[1..sp]` are the active calls, and a frame holds the function,
a program point, the awaited packet type, the deadline and the packet just read. An action is the
code between two points where a call can block (`readPacket`, a sleep) or where a user callback
starts. `cycle` is `ReadPacket`/`ReadNothing`/`ReadError`, `Acknowledge`, `Enter` (the callback),
`Keepalive` and `CycleFailed`, executed on behalf of whichever call is on top; `waitfor` is the
loop back to `read` in `AfterCycle`; the exits of subscribe, unsubscribe and publish are
`RequestExit` and `RequestExited`; `_handle_reconnect` is `ReconnectStart` ... `Resubscribe` with
its slot index in the frame. `sock` is the TCP port: open or closed, and what became of the peer
(`up`, `mute` for a silently lost peer, `reset`). The broker (`broker`, `pipe`) is external: it
answers CONNECT, SUBSCRIBE, UNSUBSCRIBE, PUBLISH and PINGREQ in order, may refuse, and pushes
messages. Deadlines are ticks left until they run out.

`MqttPings` adds one history variable: how long ago the last PINGREQ went out on the present
connection. Its steps are those of `MqttClient`, from which alone they are read.

### `PacketStream` and `PacketSending`

Below the client, the same packets as bytes. In `PacketStream` `ReadFirstByte`, `ReadLength`, `ReadBody`,
`FillBuffer` and `SkipRest` are the reads of `readPacket`, each taking what has arrived or giving up inside it,
the last two for a packet longer than `readbuf`.

`PacketSending` is `_send_packet` over a port that writes any part of a packet (`SendPacket`, `WriteSome`,
`Sent`, `SendFails`), with what its callers do next when time is over inside one. Most
disconnect at once (`EndLink`, `CloseStream`). A PUBLISH whose acknowledgement was cut is delivered first
(`BeginDelivery`): its handlers and the keep-alive may write behind the cut packet, and only the end of that `cycle`
disconnects (`CycleReturns`); handlers may yield and so nest such cycles. Before CONNACK
`tc_iot_mqtt_disconnect` does nothing, so that a cut CONNECT is followed by the next CONNECT on the same stream.

### `TopicDelivery`

One PUBLISH through `deliverMessage`: slot by slot (`CallHandler`), with handlers whose own calls unsubscribe,
subscribe, in vain too, or just read (`CallbackUnsubscribes`, `CallbackSubscribes`, `CallbackSubscribesInVain`,
`CallbackReads`), and the default handler. Every such call reads at least the packet it waits for into the `readbuf`
that the topic lies in, and `readPacket` puts a NUL behind it: `last` is how far the bytes of those packets
reach, `start` where the topic begins, which depends on how many bytes the remaining length takes, and
`TopicAfter` what is left. The NUL behind a four-byte acknowledgement is on the first character of the topic of a
short PUBLISH. `isTopicMatched` is translated with its pointers as positions; the reference is MQTT 3.1.1, 4.7,
level by level.

### `ShadowSession` and `RequestTable`

`sessions` is the session table with id, request (standing for callback and context) and timer;
`usid` is the static 16-bit counter. Ids are sequences of digits without leading zeros, because
`"%x"` makes them so and the comparison is `strncmp` over the length of the *received* id.
The stack has frames for a blocked yield, the scan for expired sessions, a publish, and a
message handler with the requests it may still make (`tc_iot_confirm_devcie_data` makes two, a
repeated request one). `"get"` stands for `tc_iot_shadow_get`, `_update` and `_delete`: they
publish with QoS 1 and keep the session if that fails; `"report"` stands for
`tc_iot_shadow_check_and_report`: QoS 0, session released on failure.

`RequestTable` is what the application may rely on: a request is pending, then answered or
expired, once, and only the call that makes it may withdraw it. `ShadowSession` instantiates
it with `fate` computed from the ids sent and the history of callbacks, and `open` from the
publish frames; `CoapClient` instantiates it with `open` empty. Both have its
specification, fairness included, as a PROPERTY.

### `ShadowSync`

`local`, `reported` and `desired` are the three copies of every property (the values in the
configuration table, `reported_data` and the cached command), with `desiredBits`, `reportedBits`
and `shadowSeq`. `tc_iot_shadow_check_and_report` builds its document property by property
(`SkipProperty`, `CopyProperty`, `WriteProperty`) because local data is ordinary memory
of the application and may change at any time; then it publishes (`PublishSends`,
`PublishWaits`, `PublishFails`), and `Continue` is the rest of `tc_iot_confirm_devcie_data`.
`Deliver` is one message: `DocParse` (a state that desires nothing leaves everything, its
sequence too) and `SyncShadowProperty` (the callback and the two copies, for every property of the
document). A message that arrives while a publish reconnects is delivered nested in it. The server is
external: it keeps the reported and the desired document with a sequence, pushes all pending commands
with every new one, ignores a delete with an old sequence, and answers the get request sent at
start; a push to a device that is not connected is lost with its clean session.

### `CoapClient`, `CoapMessage`, `Datagrams`

`CoapClient` has the session table, the message id that wraps past those in use, authentication with
its retries, and the stack of yields, callbacks and expiry scans; `replies` counts the copies of each
reply that the network may still deliver, in any order. `CoapMessage` adds options in any order,
serializes them as differences and reads them back option by option, from a datagram that may be cut.
`Datagrams` is the receive buffer under `tc_iot_coap_yield`: UDP drops what does not fit, DTLS hands
it to the next read, and the text behind a message is only as well ended as the buffer is.

### `HttpClient`, `HttpServices`

One request from connect to close. `wire` is what the server still sends; `Receive` takes any number
of its symbols, so that every way of cutting a reply into reads is checked; `pc` follows
`tc_iot_http_client_internal_perform` through header, identity, chunked and streamed bodies.
`HttpServices` adds what the five callers take from the text in the buffer and set in the device, field by
field up to the first that is missing, and the program that refreshes its token again (`RefreshAgain`): each field
of the device remembers the reply it is from.

### `Ota`

`frames` is the stack of command handlers, because each report is a QoS 1 publish in which the next
command is delivered, and both use the one global `handler`. `FormatMessage` and `ReportUpgrade` are
the reports and where they lead; `VersionLarger` compares the numbers behind the last V. Files
survive `PowerLoss`; `calm` says that faults are over.

### `SubDevice`

Group documents are sequences of tokens built by the code's own rule, counting the closing brackets
at the end (`Depth`, `AddData`); commands are walked product by product with the early ends of the code;
`report` and `confirm` clear the marks while they write. Commands nest in the publishes.

### `JsonText`, `FormText`, `MessageDigest`

Texts are sequences of characters and bytes; the writer, jsmn and the lookups are translated, the
reference is that what was written is found again. Documents come from the device's writer or from a
server that escapes characters by number. `FormText` is the signed form with percent and base64
encoding and its bounded buffer, which has a NUL behind the form only where it has room for one (`Sign`).
`MessageDigest` keeps where md5 and sha256 put the bytes of a message
that comes in pieces, their length counters (in words or bytes that overflow into each other)
and the padding; compression is opaque: a digest is the list of blocks it was made from.

### `NetworkPorts`, `HalTimer`, `RpcSync`

`NetworkPorts` gives descriptors to four clients over every port they may be built with and follows
their connect, failing handshakes, disconnect and retry; `os` is the system's view of who owns what.
`HalTimer` is the deadline in milliseconds of a word that wraps, in the product and in the sum before the division
by the tick rate, against real time that does not.
`RpcSync` is the cycle get, take over, update, delete, get of the two samples against a server and a
console, with calls and answers lost, repeated and late.

## 4. Runs

| Run | Specification | Shows |
|---|---|---|
| `mqtt_core` | `Spec`, 2 topics, 1 fault | no duplicate handler; handlers and broker subscriptions agree; an acknowledgement answers its own request; nesting of reconnects is bounded |
| `mqtt_keepalive` | `FairPingSpec`, keep-alive on, 1 push | calls return; a silent peer is noticed; a closed client recovers; the keep-alive gives a connection up only for a ping sent on it that had its time |
| `mqtt_reentrant` | `Spec`, callbacks call the API | the socket follows the state under re-entrance, user disconnect, destroy and switching auto-reconnect |
| `mqtt_reconnect_stuck` | `FairSpec` | **violation**: a reconnect that fails after `do_connect` leaves a dead socket that is used for ever |
| `shadow_session` | `FairSpec`, 3 requests, 2 slots | refinement of `RequestTable`; answers go to their own request; a request being published keeps its session |
| `shadow_sync` | `FairSpec`, 2 properties | no command is forgotten undone; device and server agree in the end; changes arrive; commands end |
| `shadow_stale` | `FairSpec`, no message lost | **violation**: a report that waits for a reconnect overwrites a newer one |
| `coap` | `FairSpec`, 3 requests, 2 slots, ids that wrap | refinement of `RequestTable`; replies, late and repeated ones included, reach only their own request; authentication ends |
| `http` | `ServiceSpec`, tokens refreshed up to 3 times | header and body reach the caller as sent however they are cut; user name and password are of one token, with one named exception; a call ends when the server answers |
| `ota` | `FairSpec`, 4 commands | an upgrade is prepared only with its own whole image; later commands repair what faults leave, a part of the file included, with one named exception that has to last |
| `subdev` | `FairSpec`, 3 devices, 3 orders | documents read as what was marked; nothing is confirmed before it is reported; without faults every order is carried out |
| `parts` | `PartsSpec`, eleven parts | one property of each part, two of the ports |

### Bounds

* `mqtt_*`: `MaxDepth` cuts the stack off above what one fault can nest (a reconnect, the subscribe
  of its loop, that one's reconnect, ...): in `mqtt_core` and `mqtt_keepalive` no state reaches it,
  in `mqtt_reentrant` it limits how deep callbacks call back; `MaxPipe` bounds packets waiting when
  the broker pushes another; `MaxFaults = 1` already reaches every error exit, since a reset meets the
  client in any frame; `MaxPacketId` 2 or 3 makes packet ids wrap
  (it is 1 in `mqtt_keepalive`, where no property looks at them, to leave room for a message that may arrive in
  any wait, `MaxPushes = 1`). Timeouts of one or two ticks let every
  deadline end before, with and after an answer. `mqtt_core` has as many handler slots as topics
  on purpose: `tc_iot_mqtt_subscribe` ignores a full table.
* `shadow_session`: three requests over two slots force a slot to be reused while an older
  reply is still on its way, and one push nests a handler in a publish. `Base ^ Width` ids
  with `IdsRemain` stand for 65536: an id is never reused.
* `shadow_sync`: one change, one command, one restart and one broken connection, in every order
  and between any two properties of a report; two properties are what is needed for a document
  that is partly outdated. `RoomFor` leaves room for all properties, `IntProps` and `TooLong` are
  empty, and `Interrupts` is FALSE (local data does not change between the copy and the write of
  one property): with any of these the properties fail, as section 6 says. `Converges` and
  `CommandsEnd` speak of executions in which the connection has not been broken;
  `ForgottenOnlyIfDone` and `ChangeArrives` of all. No session table is modelled here: it is never full.
* `coap`: three requests and authentication over two slots and four ids: the table is full, ids
  wrap, and a slot is used again while two copies of an old reply are under way. Callbacks make one
  request; they do not yield (`Nests = FALSE`), because then `ImplementsRequestTable` fails (section 6);
  `AnswersMatch` is proved for both.
* `http`: buffers of 8 and 17 symbols and a body of 9: each reply fits, just fits or does not. A token is refreshed
  up to three times (`MaxRounds`), over replies with and without each field: enough for a pair of two tokens to
  arise and to be repaired.
* `ota`: images of two bytes and one, a buffer of one: one image needs the callback, one does not;
  two commands nested.
* `subdev`: two neighbours in one product and one device of another, a full table, three orders, two
  nested.
* `parts`: topic names of up to four characters, behind a remaining length of any size, and one call in each
  handler; three options of every length class; documents of three
  values nested twice; forms shorter than their buffer, filling it and too long for it, with nothing or with text
  behind them (`Behind`); digest blocks of 8 bytes, a length counter that overflows at 32, pieces
  that end at, before and after a block; four clients over three descriptors and four connections;
  packets of 0, 3 and 9 bytes with a length in base 3, so that lengths of one to three digits and packets
  below, at and above the buffer occur; four packets of one or three bytes sent, each cut anywhere; a clock of 32
  that wraps within a timeout, at three tick rates, at one of which (3) the sum before the division
  overflows where the product does not; two commands and four remote calls, and callbacks three deep; datagrams of 0, below, at
  and above `ReadRoom`.

### Fairness

* `MqttClient`: weak fairness of `ClientStep` (the thread runs) and of `Elapse` (time passes),
  strong fairness of `Yield`: the application's main loop calls it for ever
  (`src/samples/advanced_edition/mqtt/app_main.c:122-125`). Nothing is assumed of the network; the
  recovery properties are conditional on `stable`, after which it behaves.
* `ShadowSession`: the SDK's own steps, the application's yield and the timers. Neither
  the server nor the network is fair: replies may never come.
* `ShadowSync`: the SDK's own steps, the main loop's yield and report, and the server and the
  reconnect eventually working. The liveness properties are about data, not about a dead network.
* `CoapClient`: the SDK's own steps, the loop's yield and the timers; `AuthEnds` states as its own
  hypothesis that a message and its answer get through again and again.
* `HttpClient`: the client and its timer; `PerformEnds` says what the server must do for it.
* `Ota`: the handler runs, faults end, and the server repeats its commands. `SubDevice`: the loop and
  the calls go on; `OrdersSettle` is about executions without faults.

## 5. Proofs

`MqttClientProofs` proves for every value of the constants that satisfies the named ASSUMEs of
`MqttClient`:

* `TypeCorrect`. `TypeOK` is not inductive: SUBSCRIBE adds the filter of its frame to the
  broker's subscriptions, so `TypeInv` also says that a subscribe frame has a filter (`ProperFrames`).
* `BackoffStaysBounded`, `HandlersUnique`: inductive with the types.
* `SocketFollowsState`. `SocketMatchesState` is not inductive: `ConnectAnswered` makes the client
  CONNECTED on behalf of a frame that has read a CONNACK, whose socket a nested call could have
  closed meanwhile. `SocketInv` adds `StackInv`: only a delivered PUBLISH starts
  a nested call, so a frame that holds a CONNACK is on top and its socket is still open.
* `PingsHaveTheirTime` (`PingHasItsTime`, a property of `MqttPings`): a client that closes a connection because a
  ping was not answered has sent that ping on this very connection and given it the whole interval. It concerns the
  ping flag and the timers, which outlive a connection; `PingInv` ties the flag to the ping timer and the history: while a
  ping is out, the time since it was sent and the time its timer has left make at least the interval.

Its second part proves three theorems about applications whose message handlers do not call the API
(`~Callbacks`; with others they fail, section 6). The stack then has a fixed form: `ShapeInv` says which
function calls which, where the caller waits meanwhile and what every frame awaits, so that what the
innermost call and its caller are doing tells which packets can be on their way.

* `AnswersAreOwn` (`AnswerIsMine`): `waitfor` compares packet types and not ids, and yet a call of a
  connected client never takes another's acknowledgement. `AckInv` is the reason: the broker owes the
  innermost call at most one acknowledgement, and nobody else any, because a request that gives up
  waiting has closed its connection first (`ConnInv` and `DownInv` say what a connection and a client that
  is connecting can have on it). A PUBREC is the exception inside it: it is spent only when its
  PUBCOMP comes.
* `SubscriptionsStayInStep` (`SubscriptionsAgree`): `SubsInv` says at every program point what the broker
  may lack, the filter of the call under way and those the re-subscription loop has still to see, and what a
  SUBACK on its way says of its filter. It needs clean sessions (every example sets
  `TC_IOT_CONFIG_CLEAN_SESSION` to 1; otherwise the broker keeps what a new table never had) and a slot for
  every filter (`EnoughSlots`; `tc_iot_mqtt_subscribe` ignores a full table).
* `NestingStaysBounded` (`ReconnectNestingBounded`): a re-subscription that finds the connection gone starts
  a reconnect inside the reconnect that made it, and no counter in the code ends this. `Alternate` puts the
  reconnects at the even places of the stack. In `CostInv` each of them pays for its place: its number, the
  filters that are in the table or about to be registered above it, and the `Harm` that is left (the faults, and
  a dead connection the client has not noticed yet) are at most `Limit`. In `RoomInv` there is `Room` for one
  more wherever a call is about to start a reconnect: because its filter has just left the table, because the
  connection it gave up was the dead one, or because the client has not been CONNECTED since the last reconnect
  started. The theorem is for every `MaxDepth`, so the bound is not that of the modelled stack.

`ShadowSessionProofs` proves, for every number of sessions, requests and pushes:

* `TypeCorrect`, `SessionsAreOwned` and `AnswersAreMatched`, with and without retries. The
  invariant `IInv` has to say who may release which slot: a publish that has not sent its request
  owns its slot and the server has not got the request (`Owned`), and no handler and no other such
  publish above it on the stack has that slot (`Apart`), so that what the nested calls release is
  never its session. `SidInv` gives every request an id of its own that is a prefix of no other;
  `SessionInv` says that a session carries the id of its request. Together, the only session a
  reply can match is that of its own request.
* `CalledBackOnce` and `ImplementsTable`, when the application does not repeat a request from its
  own timeout callback (`Retries = FALSE`).
  `CallInv` adds what keeps a request from being called back twice: a session whose callback has
  been made is about to be released by a handler on the stack, and until it is, either the server no
  longer owes an answer to that request or that handler is on top and makes no calls, so that
  nothing is read in between (`Running`). `ImplementsTable` maps every step to a step of
  `RequestTable` or a stutter; that every pending request ends, the fairness of `Table!FairSpec`, is
  liveness and is only model-checked.

These theorems have one hypothesis, `SidsDiffer`: no session id is empty or a prefix of another, and
there are at least as many ids as requests. It holds when `client_init_time` is not 0, because all
ids then have the same number of digits; `MCShadowSession` has TLC evaluate that for the instances
it runs, and it is a hypothesis and not a lemma because the prover knows nothing of powers.

`CoapClientProofs` proves `TypeCorrect` (a slot is free exactly when its message id is 0) and
`AnswersAreMatched`, for every number of sessions, requests and copies and with callbacks that
yield. `IInv` says that a session carries the id of its request (`TableInv`), that an id belongs to
one request (`IdInv`, which the search for a free id and `MaxId` give), that only what was sent is
answered (`ReplyInv`), and that authentication starts once (`StackInv`), so that it does not take an id
a second time. `ImplementsTable` maps every step to a step of `RequestTable` or a stutter. Its `OInv`
adds that a request has at most one session, and that a request in the table has been called back
exactly if its callback is the innermost call, which then releases it; that needs callbacks that do not yield
(`~Nests`; section 6). As for the shadow, that pending requests end is left to TLC.

`ShadowSyncProofs` proves `SyncInvariant` and `ForgetsOnlyDone` (`ForgottenOnlyIfDone`), for every
number of properties, values, restarts, losses and nested calls. What is forgotten is decided at the
server by the sequence of a delete, long after the device compared its copies; so the invariant
follows the sequence: whatever carries the server's current one agrees with what the server desires,
and nothing carries a later one. `Tells` says it of pushes (they hold every pending command), `Knows`
of the device (it has cached them all), `Allowed` of confirmations, in a frame that waits for a reconnect as
well as on their way (what they name is done or forgotten). `Later` is the one lemma about time: a
new command outdates all of them, and forgetting keeps them true. The two hypotheses, no
integer properties and no string longer than its property, are needed: the code caches neither, and
confirms what it has not got.

`OtaProofs` proves `TypeCorrect` and `PreparedHasImage` (`PreparedMeansImage`), for every set of
commands and images, any depth of commands handled inside each other, and any power losses and
cut downloads. It needs that an image is a sequence (`CommandsAssumption`) and that a handler
which was interrupted knows nothing: `AloneInv` says that one that was not is the innermost, the global
handler still holds its command, its md5 context has taken what its file holds (both change in the
same step), and if it is prepared that is the image whose md5 the command carries.

`SubDeviceProofs` proves `ConfirmsReported` (`ConfirmedIsReported`), for any table of devices, orders and
depth of commands handled inside publishes, with documents lost or late. `DocsInv` says that a document on
its way holds what the server desired when it wrote it, under the sequence of that time. `KnowsInv` follows from it:
a device whose sequence is the server's has taken over all that is desired of it, and has marked what it has not
reported yet. `SequenceInv` and `MarksInv` say that no sequence is ahead of the server's and that marks for a
report exist only while the innermost call is about to write it, so that nothing is confirmed in between. Once a
document went unsent nothing is claimed. `ServerAssumption` says that a malformed document
tells a device of the table nothing.

Its second part proves `DocumentsSayWhatIsMarked` (`DocumentsRead`), for any devices in any order of their products,
any properties, values and marks. A document under construction is a body that does not end with a closing bracket,
followed by as many of them as its reader has open there (`Stands`). `DepthIs` says that counting them then gives the
depth of the innermost, `AddDataIs` where an entry goes, and `ClosesRead` that the reader which gets past the closing
brackets in front of it is at the place meant; so an entry leaves a document of the same kind, with the reader that has
read it too (`AddLeaf`, `AddOpen`). `Holds` says in which object a document is open and what has been read so far;
`AddProductHolds`, `AddDeviceHolds` and `AddFieldsHolds` carry it through one function of the code each, and the folds over
properties and devices are gone through by induction (`FoldRuns`, `RunHolds`). `TableAssumption` includes that no product
id is empty, because `prev_product` is empty at first: the first device of such a product would be put
outside of any. The theorem is about the tokens of a document. The depth of nesting never comes near
`MaxDepth`, and the buffer is taken to be large enough.

`PartsProofs` holds the proofs about the small parts, which share nothing but the module and its first
section.

That section makes induction over data possible without the library's theorems that take an operator.
`SetInduction` states induction of a set of naturals, from `WFMin`; `Recursion` that a function defined by
recursion exists when each of its values depends only on those of lesser measure, which is what a proof needs to
know of `f[x \in S] == ...` before it may unfold it; and `FoldRuns` that a fold of the community modules goes through
the values of its step one after the other (`Run`), so that an invariant can be carried along it.

* `DescriptorsOwned` (`OwnDescriptors`) and `DescriptorsKept` (`NothingLost`), for every number of
  clients and descriptors, each client on any port that `PortsAssumption` allows its kind. Each
  connect of a port is shown to end in one of two ways, a free descriptor taken or nothing but the
  number in the context changed (`Outcomes`), with what each port reports in each. `OwnInv` then says
  that the number a client at work would use is its own, `KeptInv` that it owns no other but those it
  dropped. The exception in `OwnDescriptors` is where the proof fails: CoAP on the UDP port of
  RT-Thread goes on after a refused connect with a number it does not own.
* `CutPacketsEndConnections` (`CutPacketEndsConnection`), for packets of every size and any nesting of
  deliveries. `SenderInv` says what `_send_packet` has left to write of the last packet, which packets before it
  may be incomplete (one that a DISCONNECT follows, one sent before CONNACK, or an acknowledgement whose cycle has
  not returned), and that behind a DISCONNECT nothing is sent.
* `PacketsAreInOrder` (`PacketsInOrder`), for any stream of packets, any buffer and any way the bytes arrive. `Start(k)`
  is where packet k begins. `StreamInv` says that what has been read is k whole packets and a piece of the next, and
  what the reader knows of it: so many digits of its length, whose value the digits still to come complete to the length
  (`DigitsRead`), the whole length, or the bytes it still has to skip. That decoding ends at the last digit the broker wrote
  is `DigitTaken`. It holds as long as no time-out falls inside a packet (`late`): what is
  read after one is left open. `StreamAssumption` leaves the radix open and takes lengths of
  up to four digits, more of which `decodePacket` refuses and no broker may write.
* `MessagesAreDelivered` (`DeliveredOnce`), for any table, topics and filters of any length and characters, and handlers
  that make any requests while they run, as long as what those read does not reach the topic (`Intact`). `MatchedAsStandard` is the larger part: `isTopicMatched` walks two
  pointers over characters, the standard compares levels; its invariant places both pointers at the same level
  of name and filter, with all levels before it matched. `TopicInv` then says which filters have been called when the loop
  is at a slot: those kept since the delivery began, matching, and below it; a topic that has been written over never
  becomes whole again. `TopicAssumption` has valid
  filters, the only ones a broker accepts.
* `MessagesAreReadBack` (`MessageReadBack`), for options of any numbers and byte values, any payload and buffer, and a
  datagram cut anywhere. It has two parts. `OptionsInv`: as long as no option is put before two others, the
  options are `Ordered` and each is one of those added (`Source`, an injection, because at most one added option is
  above a new one exactly if at most one option is). `ReadingInv`: the datagram is laid out with the options ending
  at places `e` (`Laid`, which a cut keeps), and the reader is at one of these places, having read just the options before
  it (`Midway`), or has stopped. `OptionFound` is the codec itself: where the bytes of an option stand,
  `ReadOption` finds its number and value, and where they are cut it finds that they are. Numbers that differ by more
  than 268 and longer values take the form with two bytes, which the code reads back wrong; they are excluded in the
  property (`LongForm`), as is an option put before two others, of which one is lost.
* `MessagesAreDatagrams` (`OneDatagram`), for any datagrams in any buffer. `DatagramInv` says that
  what waits is a stretch of one datagram, its rest after a read over DTLS or all of it, and that the
  text behind a message shorter than the buffer is ended.
* `TimersAreKept` (`TimerKept`), for every word of the clock, timeout and tick rate, with the overflow of the
  product and of the sum before the division. The inductive
  part is small (`TimerInv`: whose deadline the timer holds, and what a select was asked to wait); the work
  is arithmetic: what rounding to ticks and the wrapping subtraction give when the clock has not wrapped in
  between. `TicksDivide` assumes that the tick rate divides 1000, as RT-Thread's usual rates do, so that
  milliseconds are whole ticks' worth.
* `CommandsAreHandled` (`ClearedWasHandled`), for any number of fields, commands, calls and nested
  callbacks. `RpcInv` follows a command through the cycle: what a frame carries to its update was taken
  over when its get was answered, the update under way names just that, an answer to it means that the
  server was told, and so a delete, whenever it arrives, names only what was executed and told.

`HttpProofs` proves `HeadersAreRead` (`HeaderRead`) and `AnnouncedBodiesAreDelivered` (`BodyDelivered`), for every set of calls, replies and sizes of buffer, every way to cut a
reply into reads, and connections and timers that fail at any moment. A reply is in one place at a time, and the
invariant follows its position through the call: `WireInv` says that the wire is the unread rest of the reply,
`HeldInv` that the buffer holds the bytes read last, ending at the wire. `ParserInv` says at which
line of the header the parser is, told by its state and the position, and that it has found just what
the lines before announce; a line that is cut is left in the buffer for the next read, so that neither
changes. For the body `BodyInv`, `GivenInv` and `DoneInv` say that what was collected or given away
and what is still on the wire are together what the server sent. They are theorems of `ServiceSpec`, in which
a service may call again.

The hypothesis of `AnnouncedBodiesAreDelivered` is `Announced`: the reply is not chunked and says its length, or
has no body. Without a length the client takes the body for empty and returns at once. `RepliesAssumption`
bounds an announced length to two digits, as the model of `tc_iot_try_parse_int` does; the replies themselves are any
sequences of symbols. Chunked bodies stay with TLC: `MergeChunks` and `CompleteChunks` are recursive over
the buffer.

Only model-checked: `UpgradedUnlessPoisoned`;
of `http`, chunked bodies, `CredentialsBelongTogether` (about what is found in the text of a buffer) and `PerformEnds`; of `parts`, `DocumentReadBack`, `FormReadBack` and `WholeMessageHashed`;
and every liveness property (liveness under fairness is out of the prover's reach). The three of `parts` compute over
sequences by recursion; each would need its own invariant along the recursion, as `PacketsAreInOrder`,
`MessagesAreDelivered`, `MessagesAreReadBack` and `DocumentsSayWhatIsMarked` have.

## 6. What the models say about the code

Besides the two violations above, listed under `findings` in `PROJECT.json`, modelling brought up:

MQTT client
* A CONNACK that does not come in time leaves the connection half open (the stuck reconnect above).
* `_handle_reconnect` returns success although a nested re-subscription failed; a handler
  whose SUBACK is late is removed and stays removed after the next reconnect.
* A QoS 1 message read when the caller's deadline has passed is delivered, its PUBACK cannot
  be sent, and the client disconnects.
* A connection whose CONNACK is late is used on and not closed when a request on it gives up, so that
  there the answer to an older request may be taken for a newer one's; `AnswerIsMine` speaks of connected clients.
* With callbacks that call the API, a nested call consumes acknowledgements the outer one waits for:
  `AnswerIsMine`, `SubscriptionsAgree` and `ReconnectNestingBounded` are claimed for applications
  whose callbacks do not (`Callbacks = FALSE`).
* An application that yields late finds PUBLISH and PINGRESP queued; if its yield ends after the first,
  the keep-alive may disconnect although the answer is already there.
* `tc_iot_mqtt_client_destroy` does not close the connection (`include/tc_iot_export.h:61` says it does).
* A packet that a connected client cuts short is followed by a DISCONNECT on the same stream: when exactly its two
  bytes are missing the broker takes them for the packet's. Behind a cut PUBACK or PUBREC (`tc_iot_mqtt.c:569`)
  the handlers and the keep-alive write first, and the broker takes the beginning of their packets for the missing
  bytes. A cut CONNECT is followed by no DISCONNECT, and the next attempt writes another CONNECT behind it.
* A handler that makes a request has its message's topic written over by the answer, or by the NUL that
  `readPacket` puts behind it (`tc_iot_mqtt.c:376`): handlers in later slots may then not be called, or those
  of other topics. `DeliveredOnce` is about messages whose topic is out of reach of such answers.
* Wildcards never match an empty level, and `a/#` does not match `a`.

Shadow
* An application that repeats a get in its own timeout callback may be called twice for one request: the
  session still matches the late reply while the callback runs.
* Ids without a fixed width are compared by prefix: with `client_init_time` 0 a reply may reach another
  request's callback.
* A report lost with its connection is never repeated: what is in the document counts as reported.
* A command for an integer is confirmed and not stored; so is a string that does not fit its property.
* A report whose document overflows the buffer marks properties as reported and sends nothing.
* A command pushed while the client reconnects (`tc_iot_shadow_property.c:396`) is only fetched at the
  next start or with the next command.
* With the session table full the confirmation after a command is refused (`tc_iot_shadow.c:731`); its bits
  stay set until the next command.
* An interrupt between the copy and the write of a property (`tc_iot_shadow.c:676`) reports one value and
  remembers another.

CoAP
* A callback that yields handles replies while its own session is still in the table; a second copy calls
  it again, and requests sent with the table full are never called back.
* Options put before two others, and numbers or lengths from 269 on, are not read back.
* `readbuf` has `TC_IOT_CLIENT_READ_BUF_SIZE` bytes (`coap.h:308`), `readbuf_size` is
  `TC_IOT_COAP_RECV_BUF_SIZE` (`tc_iot_coap.c:481`), two constants that are set apart from each other.
  `Datagrams` takes both as `ReadRoom`.
* A datagram of `readbuf_size` - 1 bytes or more has no NUL behind it, is cut by UDP and goes on as the next
  message over DTLS.
* A yield passes its whole timeout to every read and may take a multiple of it.

HTTP, OTA, sub-devices
* The HTTP client ignores the result of connect, and does not close the socket when its first write fails.
* A reply with a new user name and no password leaves the device the new name with the old password; the refresh
  reports failure (`tc_iot_token.c:98-112`). `CredentialsBelongTogether` names this reply as the only way.
* No NUL ends a body that arrives after its header; callers take the buffer up to the first NUL.
* Once the body has begun the client waits as long as the server keeps silent.
* A resumed download asks for the whole image and appends it: when that gives just the image's length, the file
  is never downloaded again (`Poisoned`, which `UpgradedUnlessPoisoned` excepts only if it lasts).
* An image that fits the HTTP buffer is never given to the callback; a nested command with an empty url
  leaves the outer download without its url.
* A sub-device without a sequence hides those behind it in its product; bits cleared for a refused publish
  stay cleared.

Ports and utilities
* A refused connect of the UDP port reports success and keeps the number of the closed socket; the Linux
  ports leak the socket of a refused connect, and report success when there is none; a failed TLS
  handshake leaks a descriptor at every retry; disconnect of the socket ports sets the `is_connected`
  function to zero instead of a flag. `dropped` names these ways, so that `NothingLost` and
  `OwnDescriptors` say there are no others.
* The end of a TLS stream looks like silence to the MQTT client.
* The NTP request returns a time that was never set when it fails.
* A timer that spans a wrap of the tick seems expired or a whole word off, at tick rates other than 1000 earlier
  than at 1000; and a thread that is held up past the deadline before it asks for the time left is told
  almost 49 days, which it hands to `select`. `TimerKept` names exactly these cases.
* A signed form that fills its buffer has no NUL (`tc_iot_sign_utils.c:212`, `tc_iot_url.c:62`), and is sent up to
  whatever byte is zero behind it; `FormReadBack` is about forms that leave one byte.
* JSON characters beyond U+FFFF, which a server writes as two escapes, are read back as two
  three-byte sequences (`ServerTexts` holds none).

Samples
* The delete names a field and no value: a command set between the get and the delete is cleared with the
  older one. Over CoAP the delete is sent when any message ends the update's yield. HTTP tells a number
  without its fraction; CoAP takes 1 for false; a text that is too long stays desired for ever.

### Not modelled

`RECONNECT_TIMEOUT` (the shipped build defines `ENABLE_MQTT_RECONNECT_FOREVER`); a NULL message
handler; a failing first connect in `tc_iot_mqtt_init`; requests without a callback, which keep no
session; a reply with an empty session id; an id reused after 65536 requests; a full shadow session table
during a confirmation; properties set one by one through the update and delete API; a JSON buffer
that is too small and the conversion of numbers; `tc_iot_ota_destroy` and the report of firmware
information; the URL parser; the maps from CoAP codes to names; logging. The compression functions of
the digests, mbedtls and the paho packet codec are external. The remaining samples are
demonstrations of the same calls, and `TC/examples` holds a second copy of most of them.
