----------------------------- MODULE MqttClient -----------------------------
(***************************************************************************)
(* The MQTT client of src/mqtt/tc_iot_mqtt.c: one thread, blocking calls.  *)
(*                                                                         *)
(* Every API function blocks in `cycle`, which reads one packet, may run a *)
(* user callback (which may call the API again) and may tear the           *)
(* connection down; `_handle_reconnect` calls `tc_iot_mqtt_subscribe`,     *)
(* whose error exit calls `_handle_reconnect`.  The C call stack is        *)
(* therefore explicit here: stk[1..sp] are the active calls, the innermost *)
(* on top, and an action is the code between two places where a call can   *)
(* block (a read, a sleep) or where the environment can be observed.       *)
(*                                                                         *)
(* Time is counted in ticks.  It passes only while a call is blocked or    *)
(* the application is idle; sends take no time.                            *)
(***************************************************************************)
EXTENDS Integers, Sequences, FiniteSets

CONSTANTS
  Topics,          \* topic filters the application subscribes to
  NoTopic,         \* NULL topicFilter
  MaxHandlers,     \* TC_IOT_MAX_MESSAGE_HANDLERS
  MaxPacketId,     \* TC_IOT_MAX_PACKET_ID
  KeepAlive,       \* keep_alive_interval, 0 switches keep-alive off
  CommandTimeout,  \* command_timeout_ms
  YieldTime,       \* timeout_ms of tc_iot_mqtt_yield
  MinWait,         \* TC_IOT_MIN_RECONNECT_WAIT_INTERVAL
  MaxWait,         \* TC_IOT_MAX_RECONNECT_WAIT_INTERVAL
  AutoReconnects,  \* values the application gives auto_reconnect
  CleanSession,    \* clean_session
  PublishQoS,      \* QoS levels the application publishes with
  PushQoS,         \* QoS levels of the messages the broker pushes
  Callbacks,       \* whether message handlers call the API again
  MayDestroy,      \* whether the application may destroy the client
  MaxDepth,        \* bound: active calls
  MaxPipe,         \* bound: packets in flight when the broker pushes one more
  MaxPushes,       \* bound: messages the broker pushes
  MaxFaults        \* bound: resets, losses and refusals by the environment

ASSUME HandlersAssumption == MaxHandlers \in Nat \ {0} /\ NoTopic \notin Topics
ASSUME PacketIdAssumption == MaxPacketId \in Nat \ {0}
ASSUME TimeAssumption ==
  /\ KeepAlive \in Nat
  /\ CommandTimeout \in Nat \ {0}
  /\ YieldTime \in Nat \ {0}
ASSUME WaitAssumption == MinWait \in Nat \ {0} /\ MaxWait \in Nat /\ MinWait <= MaxWait
ASSUME OptionsAssumption ==
  /\ AutoReconnects \subseteq BOOLEAN /\ AutoReconnects # {}
  /\ CleanSession \in BOOLEAN
  /\ Callbacks \in BOOLEAN
  /\ MayDestroy \in BOOLEAN
  /\ PublishQoS \subseteq 0..2
  /\ PushQoS \subseteq 0..2
ASSUME BoundsAssumption ==
  /\ MaxDepth \in Nat \ {0}
  /\ MaxPipe \in Nat
  /\ MaxPushes \in Nat
  /\ MaxFaults \in Nat

VARIABLES
  state,      \* connection state (CLIENT_INVALID is never observed)
  pingOut,    \* ping_outstanding
  handlers,   \* topicFilter of each message_handlers slot
  nextPid,    \* next_packetid
  backoff,    \* reconnect_timeout_ms
  timer,      \* ticks left of the four timers of the client
  stk,        \* the active calls; slots above sp hold NoCall
  sp,         \* how many calls are active
  ret,        \* code returned by the call that ended last
  sock,       \* the socket, and what became of the peer behind it
  pipe,       \* packets on their way from the broker to the client
  broker,     \* what the broker knows of this client
  app,        \* what the application has made of the client
  faults,     \* faults the environment may still cause
  stable,     \* from now on the network and the broker behave
  connects    \* history: CONNECTs sent on the present socket, 2 for more

client == <<state, pingOut, handlers, nextPid, backoff>>
calls  == <<stk, sp, ret>>
net    == <<sock, pipe, broker, faults>>
vars   == <<client, timer, calls, net, app, stable, connects>>

-----------------------------------------------------------------------------
(* Values *)

ClientStates == {"INITIALIZED", "NETWORK_READY", "CONNECTED"}
Timers == {"last_sent", "last_received", "ping_timer", "reconnect_timer"}
\* closed: fd = -1; up: the peer answers; mute: writes vanish, nothing arrives;
\* reset: the peer has closed or reset the connection.
SockStates == {"closed", "up", "mute", "reset"}
Codes == {"SUCCESS", "FAILURE", "IN_PROGRESS", "UNAVAILABLE", "REFUSED",
          "SUBACK_FAILED", "TIMEOUT"}
Answers == {"NONE", "CONNACK", "PUBACK", "PUBREC", "PUBREL", "PUBCOMP",
            "SUBACK", "UNSUBACK", "PINGRESP", "PUBLISH"}
Packets == [type : Answers, id : 0..MaxPacketId, ok : BOOLEAN, qos : 0..2]
Slots == 1..MaxHandlers

Packet(type, id) == [type |-> type, id |-> id, ok |-> TRUE, qos |-> 0]
NoPacket == Packet("NONE", 0)

\* One active call: function, program point, argument, awaited answer, ticks
\* left, packet just read, packet id it sent, loop index, pending result.
Calls == {"none", "connect", "reconnect", "yield", "publish", "subscribe", "unsubscribe"}
Points == {"none", "check", "checked", "send", "exit", "exited", "start", "connect",
           "resubscribe", "loop", "reconnected", "sleep", "read", "ack", "deliver", "post",
           "cycleFailed", "answered", "unanswered"}
Frames == [fn : Calls, pc : Points, topic : Topics \cup {NoTopic}, want : Answers,
           qos : 0..2, tmr : Nat, got : Packets, pid : 0..MaxPacketId,
           slot : 1..(MaxHandlers + 1), rc : Codes]

Frame(fn, pc, topic, want, qos) ==
  [fn |-> fn, pc |-> pc, topic |-> topic, want |-> want, qos |-> qos, tmr |-> 0,
   got |-> NoPacket, pid |-> 0, slot |-> 1, rc |-> "SUCCESS"]
NoCall == Frame("none", "none", NoTopic, "NONE", 0)
HandleReconnect == Frame("reconnect", "start", NoTopic, "CONNACK", 0)

TypeOK ==
  /\ state \in ClientStates
  /\ pingOut \in BOOLEAN
  /\ handlers \in [Slots -> Topics \cup {NoTopic}]
  /\ nextPid \in 1..MaxPacketId
  /\ backoff \in Nat
  /\ timer \in [Timers -> Nat]
  /\ stk \in [1..MaxDepth -> Frames]
  /\ sp \in 0..MaxDepth
  /\ ret \in Codes
  /\ sock \in SockStates
  /\ pipe \in Seq(Packets)
  /\ broker \in [greeted : BOOLEAN, subs : SUBSET Topics, pushes : Nat]
  /\ app \in [autoReconnect : BOOLEAN, destroyed : BOOLEAN]
  /\ faults \in Nat
  /\ stable \in BOOLEAN
  /\ connects \in 0..2

\* tc_iot_mqtt_client_construct: tc_iot_mqtt_init has opened the network and
\* tc_iot_mqtt_connect is about to send CONNECT.  (When do_connect fails,
\* construct returns before connect_options are set and the object is unusable.)
Init ==
  /\ state = "NETWORK_READY"
  /\ pingOut = FALSE
  /\ handlers = [i \in Slots |-> NoTopic]
  /\ nextPid = 1
  /\ backoff = 0
  /\ timer = [t \in Timers |-> 0]
  /\ sp = 1
  /\ stk = [k \in 1..MaxDepth |->
              IF k = 1 THEN Frame("connect", "connect", NoTopic, "CONNACK", 0) ELSE NoCall]
  /\ ret = "SUCCESS"
  /\ sock = "up"
  /\ pipe = <<>>
  /\ broker = [greeted |-> FALSE, subs |-> {}, pushes |-> MaxPushes]
  /\ app \in [autoReconnect : AutoReconnects, destroyed : {FALSE}]
  /\ faults = MaxFaults
  /\ stable = FALSE
  /\ connects = 0

-----------------------------------------------------------------------------
(* The call stack *)

Top == stk[sp]
At(pc) == sp > 0 /\ stk[sp].pc = pc

Goto(f) ==
  /\ stk' = [stk EXCEPT ![sp] = f]
  /\ UNCHANGED <<sp, ret>>

Invoke(caller, callee) ==
  /\ sp < MaxDepth
  /\ stk' = [stk EXCEPT ![sp] = caller, ![sp + 1] = callee]
  /\ sp' = sp + 1
  /\ UNCHANGED ret

Return(code) ==
  /\ stk' = [stk EXCEPT ![sp] = NoCall]
  /\ sp' = sp - 1
  /\ ret' = code

-----------------------------------------------------------------------------
(* The client's small operations *)

Armed(t, d) == [timer EXCEPT ![t] = d]

\* _get_next_pack_id
NextPackId == IF nextPid = MaxPacketId THEN 1 ELSE nextPid + 1

\* (slip) tc_iot_mqtt_set_message_handler that only looks for a free slot
RegisteredTwice(t) ==
  [i \in Slots |->
     IF handlers[i] = NoTopic /\ \A j \in Slots : j < i => handlers[j] # NoTopic
     THEN t ELSE handlers[i]]

\* tc_iot_mqtt_set_message_handler: the slot that holds t, or else the first
\* free one; nothing when the table is full.
Registered(t) ==
  IF (\E i \in Slots : handlers[i] = t) \/ (\A i \in Slots : handlers[i] # NoTopic)
  THEN handlers
  ELSE [i \in Slots |->
          IF handlers[i] = NoTopic /\ \A j \in Slots : j < i => handlers[j] # NoTopic
          THEN t ELSE handlers[i]]

Unregistered(t) ==
  [i \in Slots |->
     IF handlers[i] = t /\ \A j \in Slots : j < i => handlers[j] # t
     THEN NoTopic ELSE handlers[i]]

-----------------------------------------------------------------------------
(* The broker and the network, which live outside the repository *)

Reply(p) ==
  /\ pipe' = Append(pipe, p)
  /\ UNCHANGED sock

\* A CONNECT that reaches the broker: a second one on a connection is a protocol
\* violation, which the broker answers by closing.
BrokerConnect ==
  IF broker.greeted
  THEN sock' = "reset" /\ pipe' = <<>> /\ UNCHANGED <<broker, faults>>
  ELSE /\ broker' = [broker EXCEPT !.greeted = TRUE,
                                   !.subs = IF CleanSession THEN {} ELSE @]
       /\ \/ Reply(Packet("CONNACK", 0)) /\ UNCHANGED faults
          \/ /\ faults > 0 /\ ~stable
             /\ faults' = faults - 1
             /\ sock' = "reset"
             /\ pipe' = Append(pipe, [Packet("CONNACK", 0) EXCEPT !.ok = FALSE])

BrokerSubscribe(t, id) ==
  /\ UNCHANGED faults
  /\ \/ /\ Reply(Packet("SUBACK", id))
        /\ broker' = [broker EXCEPT !.subs = @ \cup {t}]
     \/ /\ Reply([Packet("SUBACK", id) EXCEPT !.ok = FALSE])
        /\ broker' = [broker EXCEPT !.subs = @ \ {t}]

BrokerUnsubscribe(t, id) ==
  /\ Reply(Packet("UNSUBACK", id))
  /\ broker' = [broker EXCEPT !.subs = @ \ {t}]
  /\ UNCHANGED faults

\* What the packets without an effect at the broker are answered with.
BrokerAnswer(type, id) ==
  /\ IF type = "NONE" THEN UNCHANGED <<sock, pipe>> ELSE Reply(Packet(type, id))
  /\ UNCHANGED <<broker, faults>>

\* _send_packet succeeds: at a live peer `received` happens, a mute one gets nothing.
Sent(received) ==
  \/ sock = "up" /\ received
  \/ sock = "mute" /\ UNCHANGED net
\* _send_packet fails: always on a closed or reset socket, possibly on a mute one.
SendFails == sock # "up" /\ UNCHANGED net

-----------------------------------------------------------------------------
(* tc_iot_mqtt_disconnect: a no-op unless CONNECTED. *)

\* (slip) tc_iot_mqtt_disconnect without do_disconnect
CloseKeepsSocket ==
  /\ state' = "INITIALIZED"
  /\ UNCHANGED <<timer, net>>

CloseConnection ==
  /\ \E sent \in BOOLEAN :
       /\ sent => sock \in {"up", "mute"}
       /\ ~sent => sock # "up"
       /\ timer' = IF sent THEN Armed("last_sent", KeepAlive) ELSE timer
  /\ state' = "INITIALIZED"
  /\ sock' = "closed"
  /\ pipe' = <<>>
  /\ UNCHANGED <<broker, faults>>

Disconnect ==
  \/ /\ state = "CONNECTED"
     /\ CloseConnection
     /\ pingOut' = FALSE
  \/ /\ state # "CONNECTED"
     /\ UNCHANGED <<state, pingOut, timer, net>>

-----------------------------------------------------------------------------
(* Calls by the application, from its main loop or from a message handler *)

Enter(frame) ==
  /\ ~app.destroyed
  /\ \/ /\ sp = 0
        /\ stk' = [stk EXCEPT ![1] = frame]
        /\ sp' = 1
        /\ UNCHANGED ret
     \/ /\ Callbacks
        /\ At("deliver")
        /\ Invoke([Top EXCEPT !.pc = "post"], frame)
  /\ UNCHANGED <<client, timer, net, app, stable, connects>>

Publish ==
  \E q \in PublishQoS :
    Enter(Frame("publish", "check", NoTopic, <<"NONE", "PUBACK", "PUBCOMP">>[q + 1], q))
Subscribe == \E t \in Topics : Enter(Frame("subscribe", "check", t, "SUBACK", 0))
Unsubscribe == \E t \in Topics : Enter(Frame("unsubscribe", "check", t, "UNSUBACK", 0))

Yield ==
  /\ sp = 0
  /\ Enter([Frame("yield", "loop", NoTopic, "NONE", 0) EXCEPT !.tmr = YieldTime])

UserDisconnect ==
  /\ \/ sp = 0 /\ UNCHANGED calls
     \/ Callbacks /\ At("deliver") /\ Goto([Top EXCEPT !.pc = "post"])
  /\ ~app.destroyed
  /\ state = "CONNECTED"
  /\ Disconnect
  /\ UNCHANGED <<handlers, nextPid, backoff, app, stable, connects>>

\* tc_iot_mqtt_set_auto_reconnect
SetAutoReconnect ==
  /\ sp = 0 /\ ~app.destroyed
  /\ app' = [app EXCEPT !.autoReconnect = ~@]
  /\ app'.autoReconnect \in AutoReconnects
  /\ UNCHANGED <<client, timer, calls, net, stable, connects>>

\* tc_iot_mqtt_destroy, after which the application leaves the client alone.
Destroy ==
  /\ MayDestroy
  /\ sp = 0 /\ ~app.destroyed
  /\ handlers' = IF CleanSession THEN [i \in Slots |-> NoTopic] ELSE handlers
  /\ app' = [app EXCEPT !.destroyed = TRUE]
  /\ UNCHANGED <<state, pingOut, nextPid, backoff, timer, calls, net, stable, connects>>

\* A message handler that returns without calling the API (again).
HandlerReturns ==
  /\ At("deliver")
  /\ Goto([Top EXCEPT !.pc = "post"])
  /\ UNCHANGED <<client, timer, net, app, stable, connects>>

-----------------------------------------------------------------------------
(* tc_iot_mqtt_publish, _subscribe and _unsubscribe *)

\* _check_connection
CheckConnection ==
  /\ At("check")
  /\ \/ /\ state = "CONNECTED"
        /\ Goto([Top EXCEPT !.pc = "send"])
     \/ /\ state # "CONNECTED" /\ app.autoReconnect
        /\ Invoke([Top EXCEPT !.pc = "checked"], HandleReconnect)
     \/ /\ state # "CONNECTED" /\ ~app.autoReconnect
        /\ Return("UNAVAILABLE")
  /\ UNCHANGED <<client, timer, net, app, stable, connects>>

ConnectionChecked ==
  /\ At("checked")
  /\ IF ret = "SUCCESS" THEN Goto([Top EXCEPT !.pc = "send"]) ELSE Return(ret)
  /\ UNCHANGED <<client, timer, net, app, stable, connects>>

RequestReceived(id) ==
  \/ /\ Top.fn = "publish"
     /\ BrokerAnswer(<<"NONE", "PUBACK", "PUBREC">>[Top.qos + 1], id)
  \/ Top.fn = "subscribe" /\ BrokerSubscribe(Top.topic, id)
  \/ Top.fn = "unsubscribe" /\ BrokerUnsubscribe(Top.topic, id)

SendRequest ==
  /\ At("send")
  /\ LET noId == Top.fn = "publish" /\ Top.qos = 0
         id   == IF noId THEN 0 ELSE NextPackId
     IN  /\ nextPid' = IF noId THEN nextPid ELSE id
         /\ \/ /\ Sent(RequestReceived(id))
               /\ timer' = Armed("last_sent", KeepAlive)
               /\ handlers' = IF Top.fn = "subscribe" THEN Registered(Top.topic) ELSE handlers
               /\ IF Top.want = "NONE"
                  THEN Return("SUCCESS")
                  ELSE Goto([Top EXCEPT !.pc = "read", !.tmr = CommandTimeout, !.pid = id])
            \/ /\ SendFails
               /\ Goto([Top EXCEPT !.pc = "exit"])
               /\ UNCHANGED <<timer, handlers>>
  /\ UNCHANGED <<state, pingOut, backoff, app, stable, connects>>

\* (slip) a refused subscription keeps its handler
AnsweredKeepsHandler ==
  /\ At("answered")
  /\ Top.fn \in {"publish", "subscribe", "unsubscribe"}
  /\ handlers' = IF Top.fn = "unsubscribe" THEN Unregistered(Top.topic) ELSE handlers
  /\ Return(IF Top.got.ok THEN "SUCCESS" ELSE "SUBACK_FAILED")
  /\ UNCHANGED <<state, pingOut, nextPid, backoff, timer, net, app, stable, connects>>

\* The awaited acknowledgement came: its packet id is not compared.
RequestAnswered ==
  /\ At("answered")
  /\ Top.fn \in {"publish", "subscribe", "unsubscribe"}
  /\ handlers' = IF Top.fn = "unsubscribe" \/ (Top.fn = "subscribe" /\ ~Top.got.ok)
                 THEN Unregistered(Top.topic) ELSE handlers
  /\ Return(IF Top.got.ok THEN "SUCCESS" ELSE "SUBACK_FAILED")
  /\ UNCHANGED <<state, pingOut, nextPid, backoff, timer, net, app, stable, connects>>

\* (slip) a subscription that timed out keeps its handler
UnansweredKeepsHandler ==
  /\ At("unanswered")
  /\ Top.fn \in {"publish", "subscribe", "unsubscribe"}
  /\ Goto([Top EXCEPT !.pc = "exit"])
  /\ UNCHANGED <<client, timer, net, app, stable, connects>>

\* (slip) a request that timed out returns without the error exit
UnansweredReturns ==
  /\ At("unanswered")
  /\ Top.fn \in {"publish", "subscribe", "unsubscribe"}
  /\ handlers' = IF Top.fn = "subscribe" THEN Unregistered(Top.topic) ELSE handlers
  /\ Return("TIMEOUT")
  /\ UNCHANGED <<state, pingOut, nextPid, backoff, timer, net, app, stable, connects>>

RequestUnanswered ==
  /\ At("unanswered")
  /\ Top.fn \in {"publish", "subscribe", "unsubscribe"}
  /\ handlers' = IF Top.fn = "subscribe" THEN Unregistered(Top.topic) ELSE handlers
  /\ Goto([Top EXCEPT !.pc = "exit"])
  /\ UNCHANGED <<state, pingOut, nextPid, backoff, timer, net, app, stable, connects>>

\* The error exit: the request failed in _send_packet or timed out.
RequestExit ==
  /\ At("exit")
  /\ Disconnect
  /\ Invoke([Top EXCEPT !.pc = "exited"], HandleReconnect)
  /\ UNCHANGED <<handlers, nextPid, backoff, app, stable, connects>>

RequestExited ==
  /\ At("exited")
  /\ Return("TIMEOUT")
  /\ UNCHANGED <<client, timer, net, app, stable, connects>>

-----------------------------------------------------------------------------
(* _handle_reconnect, tc_iot_mqtt_reconnect and tc_iot_mqtt_connect *)

\* The tail of _handle_reconnect after a failed attempt, built with
\* ENABLE_MQTT_RECONNECT_FOREVER; `armed` are the timers the attempt has left.
BackOff(armed) ==
  LET doubled == IF backoff = 0 THEN MinWait ELSE 2 * backoff
      wait    == IF doubled > MaxWait THEN MaxWait ELSE doubled
  IN  /\ backoff' = wait
      /\ timer' = [armed EXCEPT !["reconnect_timer"] = wait]
      /\ Return("IN_PROGRESS")

\* Its callers have seen the client disconnected.
ReconnectStart ==
  /\ At("start")
  /\ \/ /\ timer["reconnect_timer"] > 0
        /\ Return("IN_PROGRESS")
        /\ UNCHANGED <<state, backoff, timer, net, connects>>
     \/ /\ timer["reconnect_timer"] = 0 /\ ~app.autoReconnect
        /\ Return("UNAVAILABLE")
        /\ UNCHANGED <<state, backoff, timer, net, connects>>
     \/ /\ timer["reconnect_timer"] = 0 /\ app.autoReconnect /\ state = "NETWORK_READY"
        /\ Goto([Top EXCEPT !.pc = "connect"])
        /\ UNCHANGED <<state, backoff, timer, net, connects>>
     \/ /\ timer["reconnect_timer"] = 0 /\ app.autoReconnect /\ state = "INITIALIZED"
        /\ state' = "NETWORK_READY"
        /\ sock' = "up"
        /\ pipe' = <<>>
        /\ broker' = [broker EXCEPT !.greeted = FALSE]
        /\ connects' = 0
        /\ Goto([Top EXCEPT !.pc = "connect"])
        /\ UNCHANGED <<backoff, timer, faults>>
     \/ /\ timer["reconnect_timer"] = 0 /\ app.autoReconnect /\ state = "INITIALIZED"
        /\ faults > 0 /\ ~stable
        /\ faults' = faults - 1
        /\ BackOff(timer)
        /\ UNCHANGED <<state, sock, pipe, broker, connects>>
  /\ UNCHANGED <<pingOut, handlers, nextPid, app, stable>>

\* CONNECT is sent, by tc_iot_mqtt_connect_with_results or tc_iot_mqtt_reconnect.
\* When that fails the client is not CONNECTED, so tc_iot_mqtt_disconnect does
\* nothing: the socket stays open and the state NETWORK_READY.
SendConnect ==
  /\ At("connect")
  /\ LET receiving == Armed("last_received", KeepAlive) IN
     \/ /\ Sent(BrokerConnect)
        /\ timer' = [receiving EXCEPT !["last_sent"] = KeepAlive]
        /\ connects' = IF connects = 0 THEN 1 ELSE 2
        /\ Goto([Top EXCEPT !.pc = "read", !.tmr = CommandTimeout])
        /\ UNCHANGED backoff
     \/ /\ SendFails
        /\ IF Top.fn = "reconnect"
           THEN BackOff(receiving)
           ELSE timer' = receiving /\ Return("TIMEOUT") /\ UNCHANGED backoff
        /\ UNCHANGED connects
  /\ UNCHANGED <<state, pingOut, handlers, nextPid, app, stable>>

\* (slip) a ping left unanswered on the old connection still counts
ConnectKeepsPing ==
  /\ At("answered")
  /\ Top.fn \in {"connect", "reconnect"}
  /\ state' = IF Top.got.ok THEN "CONNECTED" ELSE state
  /\ IF Top.fn = "connect"
     THEN Return(IF Top.got.ok THEN "SUCCESS" ELSE "REFUSED") /\ UNCHANGED <<backoff, timer>>
     ELSE IF Top.got.ok
     THEN Goto([Top EXCEPT !.pc = "resubscribe"]) /\ UNCHANGED <<backoff, timer>>
     ELSE BackOff(timer)
  /\ UNCHANGED <<pingOut, handlers, nextPid, net, app, stable, connects>>

ConnectAnswered ==
  /\ At("answered")
  /\ Top.fn \in {"connect", "reconnect"}
  /\ \/ /\ Top.got.ok
        /\ state' = "CONNECTED"
        /\ pingOut' = FALSE
        /\ IF Top.fn = "connect"
           THEN Return("SUCCESS") ELSE Goto([Top EXCEPT !.pc = "resubscribe"])
        /\ UNCHANGED <<backoff, timer>>
     \/ /\ ~Top.got.ok
        /\ IF Top.fn = "connect"
           THEN Return("REFUSED") /\ UNCHANGED <<backoff, timer>> ELSE BackOff(timer)
        /\ UNCHANGED <<state, pingOut>>
  /\ UNCHANGED <<handlers, nextPid, net, app, stable, connects>>

\* No CONNACK in time: again tc_iot_mqtt_disconnect finds nothing to do.
ConnectUnanswered ==
  /\ At("unanswered")
  /\ Top.fn \in {"connect", "reconnect"}
  /\ IF Top.fn = "connect"
     THEN Return("TIMEOUT") /\ UNCHANGED <<backoff, timer>> ELSE BackOff(timer)
  /\ UNCHANGED <<state, pingOut, handlers, nextPid, net, app, stable, connects>>

\* The re-subscription loop of _handle_reconnect, and its successful end.
Resubscribe ==
  /\ At("resubscribe")
  /\ LET rest == {i \in Slots : CleanSession /\ i >= Top.slot /\ handlers[i] # NoTopic} IN
     \/ \E i \in rest :
          /\ \A j \in rest : i <= j
          /\ Invoke([Top EXCEPT !.slot = i + 1],
                    Frame("subscribe", "check", handlers[i], "SUBACK", 0))
          /\ UNCHANGED <<backoff, timer>>
     \/ /\ rest = {}
        /\ timer' = Armed("reconnect_timer", 0)
        /\ backoff' = 0
        /\ Return("SUCCESS")
  /\ UNCHANGED <<state, pingOut, handlers, nextPid, net, app, stable, connects>>

-----------------------------------------------------------------------------
(* tc_iot_mqtt_yield *)

\* (slip) the loop of tc_iot_mqtt_yield does not reconnect
YieldNeverReconnects ==
  /\ At("loop")
  /\ Goto([Top EXCEPT !.pc = "read"])
  /\ UNCHANGED <<client, timer, net, app, stable, connects>>

YieldLoop ==
  /\ At("loop")
  /\ IF state # "CONNECTED" /\ app.autoReconnect
     THEN Invoke([Top EXCEPT !.pc = "reconnected"], HandleReconnect)
     ELSE Goto([Top EXCEPT !.pc = "read"])
  /\ UNCHANGED <<client, timer, net, app, stable, connects>>

YieldReconnected ==
  /\ At("reconnected")
  /\ Goto([Top EXCEPT !.pc = IF ret = "SUCCESS" /\ Top.tmr > 0 THEN "loop" ELSE "sleep",
                      !.rc = ret])
  /\ UNCHANGED <<client, timer, net, app, stable, connects>>

YieldReturns ==
  /\ At("sleep")
  /\ Top.tmr = 0
  /\ Return(Top.rc)
  /\ UNCHANGED <<client, timer, net, app, stable, connects>>

-----------------------------------------------------------------------------
(* readPacket, cycle, keepalive and waitfor *)

\* (slip) waitfor that does not look at its timer
AfterCycleWaits(f) ==
  IF f.rc # "SUCCESS" THEN [f EXCEPT !.pc = "cycleFailed"]
  ELSE IF f.fn = "yield" THEN [f EXCEPT !.pc = IF f.tmr > 0 THEN "loop" ELSE "sleep"]
  ELSE [f EXCEPT !.pc = IF f.got.type = f.want THEN "answered" ELSE "read"]

\* Where a call goes on after a cycle that returned rc >= 0: the loop of
\* tc_iot_mqtt_yield, or that of waitfor.
AfterCycle(f) ==
  IF f.rc # "SUCCESS" THEN [f EXCEPT !.pc = "cycleFailed"]
  ELSE IF f.fn = "yield" THEN [f EXCEPT !.pc = IF f.tmr > 0 THEN "loop" ELSE "sleep"]
  ELSE IF f.got.type = f.want THEN [f EXCEPT !.pc = "answered"]
  ELSE [f EXCEPT !.pc = IF f.tmr > 0 THEN "read" ELSE "unanswered"]

NeedsAck(p) == p.type \in {"PUBREC", "PUBREL"} \/ (p.type = "PUBLISH" /\ p.qos > 0)

ReadPacket ==
  /\ At("read")
  /\ sock # "closed"
  /\ pipe # <<>>
  /\ LET p == Head(pipe) IN
     /\ pipe' = Tail(pipe)
     /\ timer' = IF KeepAlive > 0 THEN Armed("last_received", KeepAlive) ELSE timer
     /\ pingOut' = IF p.type = "PINGRESP" THEN FALSE ELSE pingOut
     /\ Goto([Top EXCEPT !.got = p, !.rc = "SUCCESS",
                         !.pc = IF NeedsAck(p) THEN "ack"
                                ELSE IF p.type = "PUBLISH" THEN "deliver" ELSE "post"])
  /\ UNCHANGED <<state, handlers, nextPid, backoff, sock, broker, faults, app, stable, connects>>

\* TC_IOT_NET_NOTHING_READ once the call's time is up.
ReadNothing ==
  /\ At("read")
  /\ Top.tmr = 0
  /\ sock \in {"up", "mute"}
  /\ stable => pipe = <<>>
  /\ Goto([Top EXCEPT !.got = NoPacket, !.rc = "SUCCESS", !.pc = "post"])
  /\ UNCHANGED <<client, timer, net, app, stable, connects>>

\* TC_IOT_NET_READ_ERROR
ReadError ==
  /\ At("read")
  /\ sock \in {"closed", "reset"}
  /\ pipe = <<>>
  /\ Goto([Top EXCEPT !.pc = "cycleFailed"])
  /\ UNCHANGED <<client, timer, net, app, stable, connects>>

\* PUBACK or PUBREC for a PUBLISH, PUBREL for a PUBREC, PUBCOMP for a PUBREL.
\* _send_packet sends nothing once the caller's timer has expired.  A PUBLISH is
\* delivered whether or not its acknowledgement went out.
Acknowledge ==
  /\ At("ack")
  /\ LET isPublish == Top.got.type = "PUBLISH"
         answer == IF Top.got.type = "PUBREC" THEN "PUBCOMP"
                   ELSE IF isPublish /\ Top.got.qos = 2 THEN "PUBREL" ELSE "NONE"
     IN  \/ /\ Top.tmr > 0
            /\ Sent(BrokerAnswer(answer, Top.got.id))
            /\ timer' = Armed("last_sent", KeepAlive)
            /\ Goto([Top EXCEPT !.pc = IF isPublish THEN "deliver" ELSE "post"])
         \/ /\ SendFails \/ (Top.tmr = 0 /\ UNCHANGED net)
            /\ Goto([Top EXCEPT !.pc = IF isPublish THEN "deliver" ELSE "cycleFailed",
                                !.rc = "FAILURE"])
            /\ UNCHANGED timer
  /\ UNCHANGED <<client, app, stable, connects>>

\* (slip) sending alone keeps the connection alive
KeepaliveBothQuiet ==
  /\ KeepAlive > 0
  /\ timer["ping_timer"] = 0
  /\ timer["last_sent"] = 0 /\ timer["last_received"] = 0

KeepaliveDue ==
  /\ KeepAlive > 0
  /\ timer["ping_timer"] = 0
  /\ timer["last_sent"] = 0 \/ timer["last_received"] = 0

\* keepalive, and the exit of cycle when nothing failed.
Keepalive ==
  /\ At("post")
  /\ \/ /\ ~KeepaliveDue
        /\ Goto(AfterCycle(Top))
        /\ UNCHANGED <<pingOut, timer, net>>
     \/ /\ KeepaliveDue /\ pingOut
        /\ Goto([Top EXCEPT !.pc = "cycleFailed"])
        /\ UNCHANGED <<pingOut, timer, net>>
     \/ /\ KeepaliveDue /\ ~pingOut
        /\ Sent(BrokerAnswer("PINGRESP", 0))
        /\ timer' = [timer EXCEPT !["ping_timer"] = KeepAlive, !["last_sent"] = KeepAlive]
        /\ pingOut' = TRUE
        /\ Goto(AfterCycle(Top))
     \/ /\ KeepaliveDue /\ ~pingOut
        /\ SendFails
        /\ timer' = Armed("ping_timer", KeepAlive)
        /\ Goto([Top EXCEPT !.pc = "cycleFailed"])
        /\ UNCHANGED pingOut
  /\ UNCHANGED <<state, handlers, nextPid, backoff, app, stable, connects>>

\* The exit of cycle with a negative code, and what its caller makes of it.
CycleFailed ==
  /\ At("cycleFailed")
  /\ \/ state = "CONNECTED" /\ CloseConnection
     \/ state # "CONNECTED" /\ UNCHANGED <<state, timer, net>>
  /\ pingOut' = FALSE
  /\ Goto([Top EXCEPT !.pc = IF Top.fn = "yield" THEN "sleep" ELSE "unanswered",
                      !.rc = "FAILURE"])
  /\ UNCHANGED <<handlers, nextPid, backoff, app, stable, connects>>

-----------------------------------------------------------------------------
(* Time and the environment *)

Ticked(d) == IF d > 0 THEN d - 1 ELSE 0

Elapse ==
  /\ \/ sp = 0 /\ \E t \in Timers : timer[t] > 0
     \/ At("sleep") /\ Top.tmr > 0
     \/ /\ At("read") /\ Top.tmr > 0
        /\ stable => pipe = <<>> /\ sock \in {"up", "mute"}
  /\ timer' = [t \in Timers |-> Ticked(timer[t])]
  /\ stk' = [k \in 1..MaxDepth |-> [stk[k] EXCEPT !.tmr = Ticked(@)]]
  /\ UNCHANGED <<client, sp, ret, net, app, stable, connects>>

Fault ==
  /\ faults > 0 /\ ~stable
  /\ faults' = faults - 1
  /\ UNCHANGED <<client, timer, calls, broker, app, stable, connects>>

NetReset ==
  /\ sock \in {"up", "mute"}
  /\ sock' = "reset"
  /\ pipe' = <<>>
  /\ Fault

NetMute ==
  /\ sock = "up"
  /\ sock' = "mute"
  /\ UNCHANGED pipe
  /\ Fault

BrokerPublish ==
  /\ sock = "up" /\ broker.greeted /\ broker.subs # {} /\ broker.pushes > 0
  /\ Len(pipe) < MaxPipe
  /\ \E q \in PushQoS :
       pipe' = Append(pipe, [Packet("PUBLISH", IF q = 0 THEN 0 ELSE 1) EXCEPT !.qos = q])
  /\ broker' = [broker EXCEPT !.pushes = @ - 1]
  /\ UNCHANGED <<client, timer, calls, sock, faults, app, stable, connects>>

Stabilise ==
  /\ ~stable
  /\ stable' = TRUE
  /\ UNCHANGED <<client, timer, calls, net, app, connects>>

-----------------------------------------------------------------------------
ClientStep ==
  \/ HandlerReturns
  \/ CheckConnection \/ ConnectionChecked \/ SendRequest
  \/ RequestAnswered \/ RequestUnanswered \/ RequestExit \/ RequestExited
  \/ ReconnectStart \/ SendConnect \/ ConnectAnswered \/ ConnectUnanswered \/ Resubscribe
  \/ YieldLoop \/ YieldReconnected \/ YieldReturns
  \/ ReadPacket \/ ReadNothing \/ ReadError \/ Acknowledge \/ Keepalive \/ CycleFailed

Application ==
  Publish \/ Subscribe \/ Unsubscribe \/ Yield \/ UserDisconnect \/ SetAutoReconnect \/ Destroy

Environment == NetReset \/ NetMute \/ BrokerPublish \/ Stabilise

Next == ClientStep \/ Application \/ Elapse \/ Environment

Spec == Init /\ [][Next]_vars

\* The thread runs, time passes, and the main loop of the application calls
\* tc_iot_mqtt_yield again and again (samples/advanced_edition/mqtt/app_main.c).
Fairness == WF_vars(ClientStep) /\ WF_vars(Elapse) /\ SF_vars(Yield)
FairSpec == Spec /\ Fairness

-----------------------------------------------------------------------------
(* Properties *)

\* A socket is open exactly while the state says so: no transition of the client
\* forgets a socket (a leak) or keeps a state that would use a closed one.
SocketMatchesState == (state = "INITIALIZED") <=> (sock = "closed")

\* A filter never occupies two of the few handler slots, whatever mix of
\* subscribing, failing and re-subscribing led there.
NoDuplicateHandler ==
  \A i, j \in Slots : handlers[i] = handlers[j] /\ handlers[i] # NoTopic => i = j

\* Between two API calls of a connected client, the handler table and the
\* subscriptions of the broker agree: no handler waits for messages that will
\* never come, after any reconnect, timeout or refusal.
SubscriptionsAgree ==
  sp = 0 /\ state = "CONNECTED" /\ sock = "up" =>
     {handlers[i] : i \in Slots} \ {NoTopic} = broker.subs

\* The acknowledgement that a call of a connected client takes for its own answers its own
\* request, although waitfor compares packet types only.  (A socket whose CONNACK did not come in
\* time is used on, for requests and for a second CONNECT, and nothing closes it when one of
\* them gives up: there the answer to an older request may be taken for it.)
AnswerIsMine ==
  At("answered") /\ Top.fn \in {"publish", "subscribe", "unsubscribe"}
    /\ state = "CONNECTED" /\ connects = 1
    => Top.got.id = Top.pid

\* How deep _handle_reconnect may nest in itself through tc_iot_mqtt_subscribe.
ReconnectNesting == Cardinality({k \in 1..sp : stk[k].fn = "reconnect"})
ReconnectNestingBounded == ReconnectNesting <= MaxHandlers + MaxFaults + 1

\* The exponential wait stays within the configured maximum.
BackoffBounded == backoff <= MaxWait /\ timer["reconnect_timer"] <= backoff

\* Every API call returns.
CallsReturn == sp > 0 ~> sp = 0

\* A silent peer is noticed.
SilentPeerNoticed == state = "CONNECTED" /\ sock = "mute" ~> state # "CONNECTED"

\* A client that has closed its connection gets a new one once the network is fine.
ClosedClientRecovers == stable /\ state = "INITIALIZED" ~> state = "CONNECTED"

\* With auto_reconnect an application that waits for messages is connected again
\* once the network and the broker behave, unless its socket leads nowhere.
AutoReconnectRecovers ==
  stable /\ sock # "mute" /\ (\E i \in Slots : handlers[i] # NoTopic) ~> state = "CONNECTED"
=============================================================================
