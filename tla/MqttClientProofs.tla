-------------------------- MODULE MqttClientProofs --------------------------
(***************************************************************************)
(* Theorems about MqttClient, for every value of its constants.            *)
(***************************************************************************)
EXTENDS MqttPings, FiniteSetTheorems, TLAPS

\* What an action must establish, split by the part of the state it concerns.
\* TypeOK alone is not inductive: a SUBSCRIBE adds the filter of its frame to the
\* subscriptions of the broker, so that filter must not be NULL.
ProperFrames == {f \in Frames : f.fn = "subscribe" => f.topic \in Topics}

ClientOK ==
  /\ state \in ClientStates
  /\ pingOut \in BOOLEAN
  /\ handlers \in [Slots -> Topics \cup {NoTopic}]
  /\ nextPid \in 1..MaxPacketId
  /\ backoff \in Nat
CallsOK ==
  /\ stk \in [1..MaxDepth -> ProperFrames]
  /\ sp \in 0..MaxDepth
  /\ ret \in Codes
TimerOK == timer \in [Timers -> Nat]
NetOK ==
  /\ sock \in SockStates
  /\ pipe \in Seq(Packets)
  /\ broker \in [greeted : BOOLEAN, subs : SUBSET Topics, pushes : Nat]
  /\ faults \in Nat
AppOK ==
  /\ app \in [autoReconnect : BOOLEAN, destroyed : BOOLEAN]
  /\ stable \in BOOLEAN
  /\ connects \in 0..2

TypeInv == ClientOK /\ CallsOK /\ TimerOK /\ NetOK /\ AppOK

LEMMA TypeInvImpliesTypeOK == TypeInv => TypeOK
BY DEF TypeInv, ClientOK, CallsOK, TimerOK, NetOK, AppOK, TypeOK, ProperFrames

(***************************************************************************)
(* The call stack                                                          *)
(***************************************************************************)

LEMMA NewFrame ==
  ASSUME NEW fn \in Calls, NEW pc \in Points, NEW t \in Topics \cup {NoTopic},
         NEW w \in Answers, NEW q \in 0..2, fn = "subscribe" => t \in Topics
  PROVE  Frame(fn, pc, t, w, q) \in ProperFrames
<1>1. NoPacket \in Packets
  BY PacketIdAssumption DEF NoPacket, Packet, Packets, Answers
<1>2. 1 \in 1..(MaxHandlers + 1) /\ 0 \in 0..MaxPacketId
  BY HandlersAssumption, PacketIdAssumption
<1> QED BY <1>1, <1>2 DEF Frame, Frames, Codes, ProperFrames

LEMMA FixedFrames == NoCall \in ProperFrames /\ HandleReconnect \in ProperFrames
<1>1. /\ "none" \in Calls /\ "none" \in Points /\ "NONE" \in Answers
      /\ "reconnect" \in Calls /\ "start" \in Points /\ "CONNACK" \in Answers
  BY DEF Calls, Points, Answers
<1> QED BY <1>1, NewFrame DEF NoCall, HandleReconnect

LEMMA FrameUpdate ==
  ASSUME NEW f \in ProperFrames
  PROVE  /\ \A p \in Points : [f EXCEPT !.pc = p] \in ProperFrames
         /\ \A t \in Nat : [f EXCEPT !.tmr = t] \in ProperFrames
         /\ \A s \in 1..(MaxHandlers + 1) : [f EXCEPT !.slot = s] \in ProperFrames
         /\ \A p \in Points, r \in Codes : [f EXCEPT !.pc = p, !.rc = r] \in ProperFrames
         /\ \A p \in Points, t \in Nat : [f EXCEPT !.pc = p, !.tmr = t] \in ProperFrames
         /\ \A p \in Points, t \in Nat, i \in 0..MaxPacketId :
               [f EXCEPT !.pc = p, !.tmr = t, !.pid = i] \in ProperFrames
         /\ \A g \in Packets, r \in Codes, p \in Points :
               [f EXCEPT !.got = g, !.rc = r, !.pc = p] \in ProperFrames
BY DEF Frames, ProperFrames

LEMMA FrameFields ==
  ASSUME NEW f \in ProperFrames
  PROVE  /\ f \in Frames
         /\ f.fn \in Calls /\ f.pc \in Points /\ f.topic \in Topics \cup {NoTopic}
         /\ f.want \in Answers /\ f.qos \in 0..2 /\ f.tmr \in Nat /\ f.got \in Packets
         /\ f.pid \in 0..MaxPacketId /\ f.slot \in 1..(MaxHandlers + 1) /\ f.rc \in Codes
         /\ f.fn = "subscribe" => f.topic \in Topics
BY DEF Frames, ProperFrames

LEMMA TopFrame == ASSUME CallsOK, sp > 0 PROVE Top \in ProperFrames
BY BoundsAssumption DEF CallsOK, Top

LEMMA GotoOK ==
  ASSUME CallsOK, sp > 0, NEW f \in ProperFrames, Goto(f) PROVE CallsOK'
BY BoundsAssumption DEF Goto, CallsOK

LEMMA InvokeOK ==
  ASSUME CallsOK, sp > 0, NEW f \in ProperFrames, NEW g \in ProperFrames, Invoke(f, g)
  PROVE  CallsOK'
BY BoundsAssumption DEF Invoke, CallsOK

LEMMA ReturnOK == ASSUME CallsOK, sp > 0, NEW c \in Codes, Return(c) PROVE CallsOK'
BY FixedFrames, BoundsAssumption DEF Return, CallsOK

LEMMA CallsKept == ASSUME CallsOK, UNCHANGED calls PROVE CallsOK'
BY DEF calls, CallsOK

(***************************************************************************)
(* Handlers, timers, packets and the network                               *)
(***************************************************************************)

LEMMA HandlersOK ==
  ASSUME ClientOK, NEW t \in Topics \cup {NoTopic}
  PROVE  /\ Registered(t) \in [Slots -> Topics \cup {NoTopic}]
         /\ Unregistered(t) \in [Slots -> Topics \cup {NoTopic}]
BY DEF ClientOK, Registered, Unregistered

LEMMA NextPackIdOK == ASSUME ClientOK PROVE NextPackId \in 1..MaxPacketId
BY PacketIdAssumption DEF ClientOK, NextPackId

LEMMA ArmedOK ==
  ASSUME TimerOK, NEW t \in Timers, NEW d \in Nat PROVE Armed(t, d) \in [Timers -> Nat]
BY DEF TimerOK, Armed

LEMMA PacketOK ==
  ASSUME NEW type \in Answers, NEW id \in 0..MaxPacketId
  PROVE  Packet(type, id) \in Packets /\ [Packet(type, id) EXCEPT !.ok = FALSE] \in Packets
<1>1. Packet(type, id) \in Packets
  BY DEF Packet, Packets
<1>2. \A p \in Packets : [p EXCEPT !.ok = FALSE] \in Packets
  BY DEF Packets
<1> QED BY <1>1, <1>2

LEMMA ReplyOK == ASSUME NetOK, NEW p \in Packets PROVE Append(pipe, p) \in Seq(Packets)
BY DEF NetOK

LEMMA BrokerAnswerOK ==
  ASSUME NetOK, NEW type \in Answers, NEW id \in 0..MaxPacketId, BrokerAnswer(type, id)
  PROVE  NetOK'
BY PacketOK, ReplyOK DEF NetOK, BrokerAnswer, Reply

LEMMA BrokerConnectOK == ASSUME NetOK, BrokerConnect PROVE NetOK'
<1>1. "CONNACK" \in Answers /\ 0 \in 0..MaxPacketId /\ <<>> \in Seq(Packets) /\ {} \in SUBSET Topics
  BY PacketIdAssumption DEF Answers
<1>2. Packet("CONNACK", 0) \in Packets /\ [Packet("CONNACK", 0) EXCEPT !.ok = FALSE] \in Packets
  BY <1>1, PacketOK
<1>3. CASE broker.greeted
  BY <1>1, <1>3 DEF BrokerConnect, NetOK, SockStates
<1>4. CASE ~broker.greeted
  <2>1. broker' \in [greeted : BOOLEAN, subs : SUBSET Topics, pushes : Nat]
    <3>1. broker' = [broker EXCEPT !.greeted = TRUE, !.subs = IF CleanSession THEN {} ELSE @]
      BY <1>4 DEF BrokerConnect
    <3> QED BY <3>1 DEF NetOK
  <2>2. CASE Reply(Packet("CONNACK", 0)) /\ UNCHANGED faults
    BY <1>2, <2>1, <2>2, ReplyOK DEF Reply, NetOK
  <2>3. CASE /\ faults > 0 /\ faults' = faults - 1 /\ sock' = "reset"
             /\ pipe' = Append(pipe, [Packet("CONNACK", 0) EXCEPT !.ok = FALSE])
    BY <1>2, <2>1, <2>3, ReplyOK DEF NetOK, SockStates
  <2> QED BY <1>4, <2>2, <2>3 DEF BrokerConnect
<1> QED BY <1>3, <1>4

LEMMA RequestReceivedOK ==
  ASSUME NetOK, NEW id \in 0..MaxPacketId, Top \in ProperFrames, RequestReceived(id)
  PROVE  NetOK'
<1>1. {"NONE", "PUBACK", "PUBREC", "SUBACK", "UNSUBACK"} \subseteq Answers
  BY DEF Answers
<1>2. CASE Top.fn = "publish" /\ BrokerAnswer(<<"NONE", "PUBACK", "PUBREC">>[Top.qos + 1], id)
  <2>1. <<"NONE", "PUBACK", "PUBREC">>[Top.qos + 1] \in Answers
    BY <1>1, FrameFields
  <2> QED BY <1>2, <2>1, BrokerAnswerOK
<1>3. CASE Top.fn = "subscribe" /\ BrokerSubscribe(Top.topic, id)
  <2>1. Top.topic \in Topics
    BY <1>3, FrameFields
  <2> QED BY <1>1, <1>3, <2>1, PacketOK, ReplyOK DEF BrokerSubscribe, Reply, NetOK
<1>4. CASE Top.fn = "unsubscribe" /\ BrokerUnsubscribe(Top.topic, id)
  BY <1>1, <1>4, PacketOK, ReplyOK DEF BrokerUnsubscribe, Reply, NetOK
<1> QED BY <1>2, <1>3, <1>4 DEF RequestReceived

LEMMA DisconnectOK ==
  ASSUME ClientOK, TimerOK, NetOK, CloseConnection \/ Disconnect
  PROVE  /\ state' \in ClientStates
         /\ Disconnect => pingOut' \in BOOLEAN
         /\ TimerOK' /\ NetOK'
<1>1. ASSUME CloseConnection PROVE state' \in ClientStates /\ TimerOK' /\ NetOK'
  <2>1. "last_sent" \in Timers /\ KeepAlive \in Nat
    BY TimeAssumption DEF Timers
  <2>2. timer' \in [Timers -> Nat]
    BY <1>1, <2>1, ArmedOK DEF CloseConnection, TimerOK
  <2> QED BY <1>1, <2>2 DEF CloseConnection, TimerOK, NetOK, ClientStates, SockStates
<1>2. ASSUME state # "CONNECTED", UNCHANGED <<state, pingOut, timer, net>>
      PROVE  state' \in ClientStates /\ pingOut' \in BOOLEAN /\ TimerOK' /\ NetOK'
  BY <1>2 DEF ClientOK, TimerOK, NetOK, net
<1> QED BY <1>1, <1>2 DEF Disconnect

LEMMA Kept ==
  /\ ClientOK /\ UNCHANGED client => ClientOK'
  /\ TimerOK /\ UNCHANGED timer => TimerOK'
  /\ NetOK /\ UNCHANGED net => NetOK'
  /\ AppOK /\ UNCHANGED <<app, stable, connects>> => AppOK'
BY DEF ClientOK, TimerOK, NetOK, AppOK, client, net

LEMMA Known ==
  /\ {"check", "checked", "send", "exit", "exited", "start", "connect", "resubscribe",
      "loop", "reconnected", "sleep", "read", "ack", "deliver", "post", "cycleFailed",
      "answered", "unanswered"} \subseteq Points
  /\ {"publish", "subscribe", "unsubscribe", "yield"} \subseteq Calls
  /\ {"NONE", "PUBACK", "PUBCOMP", "SUBACK", "UNSUBACK", "PUBREL", "PINGRESP",
      "PUBLISH"} \subseteq Answers
  /\ {"SUCCESS", "FAILURE", "IN_PROGRESS", "UNAVAILABLE", "REFUSED", "SUBACK_FAILED",
      "TIMEOUT"} \subseteq Codes
  /\ {"last_sent", "last_received", "ping_timer", "reconnect_timer"} \subseteq Timers
  /\ 0 \in 0..MaxPacketId /\ NoPacket \in Packets
  /\ KeepAlive \in Nat /\ CommandTimeout \in Nat /\ YieldTime \in Nat
  /\ MinWait \in Nat /\ MaxWait \in Nat
BY PacketIdAssumption, TimeAssumption, WaitAssumption
   DEF Points, Calls, Answers, Codes, Timers, Packets, NoPacket, Packet

(***************************************************************************)
(* Type correctness of every group of actions                              *)
(***************************************************************************)

LEMMA EnterType ==
  ASSUME TypeInv, NEW f \in ProperFrames, Enter(f) PROVE TypeInv'
<1>1. ClientOK' /\ TimerOK' /\ NetOK' /\ AppOK'
  BY Kept DEF TypeInv, Enter
<1>2. CASE sp = 0 /\ stk' = [stk EXCEPT ![1] = f] /\ sp' = 1 /\ UNCHANGED ret
  <2>1. CallsOK'
    BY <1>2, BoundsAssumption DEF TypeInv, CallsOK
  <2> QED BY <1>1, <2>1 DEF TypeInv
<1>3. CASE At("deliver") /\ Invoke([Top EXCEPT !.pc = "post"], f)
  <2>1. sp > 0 /\ [Top EXCEPT !.pc = "post"] \in ProperFrames
    BY <1>3, TopFrame, FrameUpdate, Known DEF At, TypeInv
  <2> QED BY <1>1, <1>3, <2>1, InvokeOK DEF TypeInv
<1> QED BY <1>1, <1>2, <1>3 DEF Enter, TypeInv

LEMMA ApplicationType == ASSUME TypeInv, Application PROVE TypeInv'
<1>1. CASE Publish
  <2>1. PICK q \in PublishQoS :
           Enter(Frame("publish", "check", NoTopic, <<"NONE", "PUBACK", "PUBCOMP">>[q + 1], q))
    BY <1>1 DEF Publish
  <2>2. q \in 0..2
    BY OptionsAssumption
  <2>3. <<"NONE", "PUBACK", "PUBCOMP">>[q + 1] \in Answers
    BY <2>2, Known
  <2>4. \A w \in Answers : Frame("publish", "check", NoTopic, w, q) \in ProperFrames
    BY <2>2, NewFrame, Known
  <2> DEFINE f == Frame("publish", "check", NoTopic, <<"NONE", "PUBACK", "PUBCOMP">>[q + 1], q)
  <2>5. f \in ProperFrames /\ Enter(f)
    BY <2>1, <2>3, <2>4
  <2> HIDE DEF f
  <2> QED BY <2>5, EnterType
<1>2. CASE Subscribe
  BY <1>2, NewFrame, EnterType, Known DEF Subscribe
<1>3. CASE Unsubscribe
  BY <1>3, NewFrame, EnterType, Known DEF Unsubscribe
<1>4. CASE Yield
  <2>1. Frame("yield", "loop", NoTopic, "NONE", 0) \in ProperFrames
    <3>1. "yield" \in Calls /\ "loop" \in Points /\ "NONE" \in Answers
      BY Known
    <3> QED BY <3>1, NewFrame
  <2>2. [Frame("yield", "loop", NoTopic, "NONE", 0) EXCEPT !.tmr = YieldTime] \in ProperFrames
    BY <2>1, FrameUpdate, Known
  <2> QED BY <1>4, <2>2, EnterType DEF Yield
<1>5. CASE UserDisconnect
  <2>1. state' \in ClientStates /\ pingOut' \in BOOLEAN /\ TimerOK' /\ NetOK'
    BY <1>5, DisconnectOK DEF UserDisconnect, TypeInv
  <2>2. ClientOK' /\ AppOK'
    BY <1>5, <2>1 DEF UserDisconnect, TypeInv, ClientOK, AppOK
  <2>3. ASSUME At("deliver"), Goto([Top EXCEPT !.pc = "post"]) PROVE CallsOK'
    <3>1. sp > 0 /\ [Top EXCEPT !.pc = "post"] \in ProperFrames
      BY <2>3, TopFrame, FrameUpdate, Known DEF At, TypeInv
    <3> QED BY <2>3, <3>1, GotoOK DEF TypeInv
  <2> QED BY <1>5, <2>1, <2>2, <2>3, CallsKept DEF UserDisconnect, TypeInv
<1>6. CASE SetAutoReconnect
  <2>1. app' \in [autoReconnect : BOOLEAN, destroyed : BOOLEAN]
    BY <1>6 DEF SetAutoReconnect, TypeInv, AppOK
  <2> QED BY <1>6, <2>1, Kept, CallsKept DEF SetAutoReconnect, TypeInv, AppOK
<1>7. CASE Destroy
  <2>1. app' \in [autoReconnect : BOOLEAN, destroyed : BOOLEAN]
    BY <1>7 DEF Destroy, TypeInv, AppOK
  <2>2. handlers' \in [Slots -> Topics \cup {NoTopic}]
    BY <1>7 DEF Destroy, TypeInv, ClientOK
  <2> QED BY <1>7, <2>1, <2>2, Kept, CallsKept DEF Destroy, TypeInv, AppOK, ClientOK
<1> QED BY <1>1, <1>2, <1>3, <1>4, <1>5, <1>6, <1>7 DEF Application

LEMMA EnvironmentType == ASSUME TypeInv, Environment \/ Elapse PROVE TypeInv'
<1>1. CASE NetReset
  BY <1>1, Kept, CallsKept DEF NetReset, Fault, TypeInv, NetOK, SockStates
<1>2. CASE NetMute
  BY <1>2, Kept, CallsKept DEF NetMute, Fault, TypeInv, NetOK, SockStates
<1>3. CASE BrokerPublish
  <2>1. PICK q \in PushQoS :
          pipe' = Append(pipe, [Packet("PUBLISH", IF q = 0 THEN 0 ELSE 1) EXCEPT !.qos = q])
    BY <1>3 DEF BrokerPublish
  <2>2. (IF q = 0 THEN 0 ELSE 1) \in 0..MaxPacketId /\ q \in 0..2
    BY PacketIdAssumption, OptionsAssumption
  <2>3. \A p \in Packets : [p EXCEPT !.qos = q] \in Packets
    BY <2>2 DEF Packets
  <2>4. pipe' \in Seq(Packets)
    BY <2>1, <2>2, <2>3, PacketOK, ReplyOK, Known DEF TypeInv
  <2>5. broker' \in [greeted : BOOLEAN, subs : SUBSET Topics, pushes : Nat]
    BY <1>3 DEF BrokerPublish, TypeInv, NetOK
  <2> QED BY <1>3, <2>4, <2>5, Kept, CallsKept DEF BrokerPublish, TypeInv, NetOK
<1>4. CASE Stabilise
  BY <1>4, Kept, CallsKept DEF Stabilise, TypeInv, AppOK
<1>5. CASE Elapse
  <2>1. \A d \in Nat : Ticked(d) \in Nat
    BY DEF Ticked
  <2>2. \A k \in 1..MaxDepth : [stk[k] EXCEPT !.tmr = Ticked(stk[k].tmr)] \in ProperFrames
    <3> TAKE k \in 1..MaxDepth
    <3>1. stk[k] \in ProperFrames
      BY DEF TypeInv, CallsOK
    <3>2. Ticked(stk[k].tmr) \in Nat
      BY <2>1, <3>1, FrameFields
    <3> QED BY <3>1, <3>2, FrameUpdate, Known
  <2>3. stk' \in [1..MaxDepth -> ProperFrames]
    BY <1>5, <2>2 DEF Elapse
  <2>4. timer' \in [Timers -> Nat]
    BY <1>5, <2>1 DEF Elapse, TypeInv, TimerOK
  <2> QED BY <1>5, <2>3, <2>4, Kept DEF Elapse, TypeInv, CallsOK, TimerOK
<1> QED BY <1>1, <1>2, <1>3, <1>4, <1>5 DEF Environment

LEMMA AtTop ==
  ASSUME TypeInv, NEW pc \in Points, At(pc)
  PROVE  sp > 0 /\ Top \in ProperFrames /\ Top.pc = pc
BY TopFrame DEF At, Top, TypeInv

LEMMA BackOffType ==
  ASSUME TypeInv, sp > 0, NEW armed \in [Timers -> Nat], BackOff(armed)
  PROVE  backoff' \in Nat /\ TimerOK' /\ CallsOK'
<1>1. backoff' \in Nat
  BY Known DEF BackOff, TypeInv, ClientOK
<1>2. timer' \in [Timers -> Nat]
  BY <1>1, Known DEF BackOff
<1>3. CallsOK'
  BY Known, ReturnOK DEF BackOff, TypeInv
<1> QED BY <1>1, <1>2, <1>3 DEF TimerOK

LEMMA RequestType ==
  ASSUME TypeInv,
         \/ CheckConnection \/ ConnectionChecked \/ RequestAnswered
         \/ RequestUnanswered \/ RequestExit \/ RequestExited
  PROVE  TypeInv'
<1>1. CASE CheckConnection
  <2>1. sp > 0 /\ Top \in ProperFrames
    BY <1>1, AtTop, Known DEF CheckConnection
  <2>2. CallsOK'
    BY <1>1, <2>1, FrameUpdate, FixedFrames, Known, GotoOK, InvokeOK, ReturnOK
       DEF CheckConnection, TypeInv
  <2> QED BY <1>1, <2>2, Kept DEF CheckConnection, TypeInv
<1>2. CASE ConnectionChecked
  <2>1. sp > 0 /\ Top \in ProperFrames
    BY <1>2, AtTop, Known DEF ConnectionChecked
  <2>2. CallsOK'
    BY <1>2, <2>1, FrameUpdate, Known, GotoOK, ReturnOK
       DEF ConnectionChecked, TypeInv, CallsOK
  <2> QED BY <1>2, <2>2, Kept DEF ConnectionChecked, TypeInv
<1>3. CASE RequestAnswered
  <2>1. sp > 0 /\ Top \in ProperFrames
    BY <1>3, AtTop, Known DEF RequestAnswered
  <2>2. CallsOK'
    BY <1>3, <2>1, Known, ReturnOK DEF RequestAnswered, TypeInv
  <2>3. handlers' \in [Slots -> Topics \cup {NoTopic}]
    <3>1. Top.topic \in Topics \cup {NoTopic}
      BY <2>1, FrameFields
    <3> QED BY <1>3, <3>1, HandlersOK DEF RequestAnswered, TypeInv, ClientOK
  <2> QED BY <1>3, <2>2, <2>3, Kept DEF RequestAnswered, TypeInv, ClientOK
<1>4. CASE RequestUnanswered
  <2>1. sp > 0 /\ Top \in ProperFrames
    BY <1>4, AtTop, Known DEF RequestUnanswered
  <2>2. CallsOK'
    BY <1>4, <2>1, Known, FrameUpdate, GotoOK DEF RequestUnanswered, TypeInv
  <2>3. handlers' \in [Slots -> Topics \cup {NoTopic}]
    <3>1. Top.topic \in Topics \cup {NoTopic}
      BY <2>1, FrameFields
    <3> QED BY <1>4, <3>1, HandlersOK DEF RequestUnanswered, TypeInv, ClientOK
  <2> QED BY <1>4, <2>2, <2>3, Kept DEF RequestUnanswered, TypeInv, ClientOK
<1>5. CASE RequestExit
  <2>1. sp > 0 /\ Top \in ProperFrames
    BY <1>5, AtTop, Known DEF RequestExit
  <2>2. CallsOK'
    BY <1>5, <2>1, Known, FrameUpdate, FixedFrames, InvokeOK DEF RequestExit, TypeInv
  <2>3. state' \in ClientStates /\ pingOut' \in BOOLEAN /\ TimerOK' /\ NetOK'
    BY <1>5, DisconnectOK DEF RequestExit, TypeInv
  <2> QED BY <1>5, <2>2, <2>3, Kept DEF RequestExit, TypeInv, ClientOK
<1>6. CASE RequestExited
  <2>1. sp > 0
    BY <1>6, AtTop, Known DEF RequestExited
  <2>2. CallsOK'
    BY <1>6, <2>1, Known, ReturnOK DEF RequestExited, TypeInv
  <2> QED BY <1>6, <2>2, Kept DEF RequestExited, TypeInv
<1> QED BY <1>1, <1>2, <1>3, <1>4, <1>5, <1>6

LEMMA SendRequestType == ASSUME TypeInv, SendRequest PROVE TypeInv'
<1> DEFINE noId == Top.fn = "publish" /\ Top.qos = 0
           id   == IF noId THEN 0 ELSE NextPackId
<1>1. sp > 0 /\ Top \in ProperFrames
  BY AtTop, Known DEF SendRequest
<1>2. id \in 0..MaxPacketId /\ nextPid' \in 1..MaxPacketId
  <2>1. nextPid' = IF noId THEN nextPid ELSE id
    BY DEF SendRequest
  <2> QED BY <2>1, NextPackIdOK, PacketIdAssumption DEF TypeInv, ClientOK
<1>3. Top.topic \in Topics \cup {NoTopic}
  BY <1>1, FrameFields
<1>4. CASE /\ Sent(RequestReceived(id))
           /\ timer' = Armed("last_sent", KeepAlive)
           /\ handlers' = IF Top.fn = "subscribe" THEN Registered(Top.topic) ELSE handlers
           /\ IF Top.want = "NONE"
              THEN Return("SUCCESS")
              ELSE Goto([Top EXCEPT !.pc = "read", !.tmr = CommandTimeout, !.pid = id])
  <2>1. NetOK'
    <3>1. CASE RequestReceived(id)
      BY <1>1, <1>2, <3>1, RequestReceivedOK DEF TypeInv
    <3> QED BY <1>4, <3>1, Kept DEF Sent, TypeInv
  <2>2. TimerOK'
    BY <1>4, Known, ArmedOK DEF TypeInv, TimerOK
  <2>3. handlers' \in [Slots -> Topics \cup {NoTopic}]
    BY <1>3, <1>4, HandlersOK DEF TypeInv, ClientOK
  <2>4. [Top EXCEPT !.pc = "read", !.tmr = CommandTimeout, !.pid = id] \in ProperFrames
    BY <1>1, <1>2, FrameUpdate, Known
  <2>5. CallsOK'
    BY <1>1, <1>4, <2>4, Known, GotoOK, ReturnOK DEF TypeInv
  <2> QED BY <1>2, <2>1, <2>2, <2>3, <2>5, Kept DEF SendRequest, TypeInv, ClientOK
<1>5. CASE SendFails /\ Goto([Top EXCEPT !.pc = "exit"]) /\ UNCHANGED <<timer, handlers>>
  <2>1. CallsOK'
    BY <1>1, <1>5, Known, FrameUpdate, GotoOK DEF TypeInv
  <2> QED BY <1>2, <1>5, <2>1, Kept DEF SendRequest, SendFails, TypeInv, ClientOK
<1> QED BY <1>4, <1>5 DEF SendRequest

LEMMA ReconnectType ==
  ASSUME TypeInv,
         \/ ReconnectStart \/ SendConnect \/ ConnectAnswered
         \/ ConnectUnanswered \/ Resubscribe
  PROVE  TypeInv'
<1>1. CASE ReconnectStart
  <2>1. sp > 0 /\ Top \in ProperFrames /\ [Top EXCEPT !.pc = "connect"] \in ProperFrames
    BY <1>1, AtTop, Known, FrameUpdate DEF ReconnectStart
  <2>2. ASSUME NEW c \in Codes, Return(c), UNCHANGED <<state, backoff, timer, net, connects>>
        PROVE  TypeInv'
    BY <1>1, <2>1, <2>2, ReturnOK, Kept DEF ReconnectStart, TypeInv, ClientOK, AppOK
  <2>3. ASSUME Goto([Top EXCEPT !.pc = "connect"]),
               UNCHANGED <<state, backoff, timer, net, connects>>
        PROVE  TypeInv'
    BY <1>1, <2>1, <2>3, GotoOK, Kept DEF ReconnectStart, TypeInv, ClientOK, AppOK
  <2>4. ASSUME state' = "NETWORK_READY", sock' = "up", pipe' = <<>>,
               broker' = [broker EXCEPT !.greeted = FALSE], connects' = 0,
               Goto([Top EXCEPT !.pc = "connect"]), UNCHANGED <<backoff, timer, faults>>
        PROVE  TypeInv'
    <3>1. CallsOK'
      BY <2>1, <2>4, GotoOK DEF TypeInv
    <3>2. NetOK'
      <4>1. broker' \in [greeted : BOOLEAN, subs : SUBSET Topics, pushes : Nat]
        BY <2>4 DEF TypeInv, NetOK
      <4>2. <<>> \in Seq(Packets)
        OBVIOUS
      <4> QED BY <2>4, <4>1, <4>2 DEF TypeInv, NetOK, SockStates
    <3>3. ClientOK'
      BY <1>1, <2>4 DEF ReconnectStart, TypeInv, ClientOK, ClientStates
    <3>4. AppOK'
      BY <1>1, <2>4 DEF ReconnectStart, TypeInv, AppOK
    <3> QED BY <2>4, <3>1, <3>2, <3>3, <3>4, Kept DEF TypeInv
  <2>5. ASSUME faults > 0, faults' = faults - 1, BackOff(timer),
               UNCHANGED <<state, sock, pipe, broker, connects>>
        PROVE  TypeInv'
    <3>1. backoff' \in Nat /\ TimerOK' /\ CallsOK'
      BY <2>1, <2>5, BackOffType DEF TypeInv, TimerOK
    <3>2. NetOK'
      BY <2>5 DEF TypeInv, NetOK
    <3> QED BY <1>1, <2>5, <3>1, <3>2 DEF ReconnectStart, TypeInv, ClientOK, AppOK
  <2> QED BY <1>1, <2>2, <2>3, <2>4, <2>5, Known DEF ReconnectStart
<1>2. CASE SendConnect
  <2> DEFINE receiving == Armed("last_received", KeepAlive)
  <2>1. sp > 0 /\ Top \in ProperFrames
    BY <1>2, AtTop, Known DEF SendConnect
  <2>2. receiving \in [Timers -> Nat]
    BY ArmedOK, Known DEF TypeInv
  <2>3. [receiving EXCEPT !["last_sent"] = KeepAlive] \in [Timers -> Nat]
    BY <2>2, Known
  <2>4. CASE /\ Sent(BrokerConnect)
             /\ timer' = [receiving EXCEPT !["last_sent"] = KeepAlive]
             /\ connects' = IF connects = 0 THEN 1 ELSE 2
             /\ Goto([Top EXCEPT !.pc = "read", !.tmr = CommandTimeout])
             /\ UNCHANGED backoff
    <3>1. NetOK'
      BY <2>4, BrokerConnectOK, Kept DEF Sent, TypeInv
    <3>2. CallsOK'
      BY <2>1, <2>4, FrameUpdate, Known, GotoOK DEF TypeInv
    <3>3. TimerOK'
      BY <2>3, <2>4 DEF TimerOK
    <3> QED BY <1>2, <2>4, <3>1, <3>2, <3>3 DEF SendConnect, TypeInv, ClientOK, AppOK
  <2>5. CASE /\ SendFails
             /\ IF Top.fn = "reconnect"
                THEN BackOff(receiving)
                ELSE timer' = receiving /\ Return("TIMEOUT") /\ UNCHANGED backoff
             /\ UNCHANGED connects
    <3> HIDE DEF receiving
    <3>1. backoff' \in Nat /\ TimerOK' /\ CallsOK'
      BY <2>1, <2>2, <2>5, BackOffType, ReturnOK, Known DEF TypeInv, TimerOK, ClientOK
    <3> QED BY <1>2, <2>5, <3>1, Kept DEF SendConnect, SendFails, TypeInv, ClientOK, AppOK
  <2> QED BY <1>2, <2>4, <2>5 DEF SendConnect
<1>3. CASE ConnectAnswered
  <2>1. sp > 0 /\ Top \in ProperFrames /\ [Top EXCEPT !.pc = "resubscribe"] \in ProperFrames
    BY <1>3, AtTop, Known, FrameUpdate DEF ConnectAnswered
  <2>2. backoff' \in Nat /\ TimerOK' /\ CallsOK'
    <3>1. CASE UNCHANGED <<backoff, timer>> /\ Return("SUCCESS")
      BY <2>1, <3>1, ReturnOK, Known, Kept DEF TypeInv, ClientOK
    <3>2. CASE UNCHANGED <<backoff, timer>> /\ Return("REFUSED")
      BY <2>1, <3>2, ReturnOK, Known, Kept DEF TypeInv, ClientOK
    <3>3. CASE UNCHANGED <<backoff, timer>> /\ Goto([Top EXCEPT !.pc = "resubscribe"])
      BY <2>1, <3>3, GotoOK, Known, Kept DEF TypeInv, ClientOK
    <3>4. CASE BackOff(timer)
      BY <2>1, <3>4, BackOffType DEF TypeInv, TimerOK
    <3> QED BY <1>3, <3>1, <3>2, <3>3, <3>4 DEF ConnectAnswered
  <2>3. state' \in ClientStates /\ pingOut' \in BOOLEAN
    BY <1>3 DEF ConnectAnswered, TypeInv, ClientOK, ClientStates
  <2> QED BY <1>3, <2>2, <2>3, Kept DEF ConnectAnswered, TypeInv, ClientOK
<1>4. CASE ConnectUnanswered
  <2>1. sp > 0
    BY <1>4, AtTop, Known DEF ConnectUnanswered
  <2>2. backoff' \in Nat /\ TimerOK' /\ CallsOK'
    BY <1>4, <2>1, ReturnOK, BackOffType, Known, Kept
       DEF ConnectUnanswered, TypeInv, ClientOK, TimerOK
  <2> QED BY <1>4, <2>2, Kept DEF ConnectUnanswered, TypeInv, ClientOK
<1>5. CASE Resubscribe
  <2>1. sp > 0 /\ Top \in ProperFrames
    BY <1>5, AtTop, Known DEF Resubscribe
  <2>2. CallsOK' /\ TimerOK' /\ backoff' \in Nat
    <3>1. CASE Return("SUCCESS") /\ timer' = Armed("reconnect_timer", 0) /\ backoff' = 0
      BY <2>1, <3>1, ReturnOK, ArmedOK, Known DEF TypeInv, TimerOK
    <3>2. ASSUME NEW i \in Slots, handlers[i] # NoTopic,
                 Invoke([Top EXCEPT !.slot = i + 1],
                        Frame("subscribe", "check", handlers[i], "SUBACK", 0)),
                 UNCHANGED <<backoff, timer>>
          PROVE  CallsOK' /\ TimerOK' /\ backoff' \in Nat
      <4>1. i + 1 \in 1..(MaxHandlers + 1)
        BY HandlersAssumption DEF Slots
      <4>2. handlers[i] \in Topics
        BY <3>2 DEF TypeInv, ClientOK
      <4>3. [Top EXCEPT !.slot = i + 1] \in ProperFrames
        BY <2>1, <4>1, FrameUpdate
      <4>4. Frame("subscribe", "check", handlers[i], "SUBACK", 0) \in ProperFrames
        BY <4>2, NewFrame, Known
      <4> QED BY <2>1, <3>2, <4>3, <4>4, InvokeOK, Kept DEF TypeInv, ClientOK
    <3> QED BY <1>5, <3>1, <3>2 DEF Resubscribe
  <2> QED BY <1>5, <2>2, Kept DEF Resubscribe, TypeInv, ClientOK
<1> QED BY <1>1, <1>2, <1>3, <1>4, <1>5

LEMMA YieldType ==
  ASSUME TypeInv, YieldLoop \/ YieldReconnected \/ YieldReturns \/ HandlerReturns
  PROVE  TypeInv'
<1>1. CASE YieldLoop
  <2>1. sp > 0 /\ Top \in ProperFrames
    BY <1>1, AtTop, Known DEF YieldLoop
  <2>2. CallsOK'
    BY <1>1, <2>1, FrameUpdate, FixedFrames, Known, GotoOK, InvokeOK DEF YieldLoop, TypeInv
  <2> QED BY <1>1, <2>2, Kept DEF YieldLoop, TypeInv
<1>2. CASE YieldReconnected
  <2>1. sp > 0 /\ Top \in ProperFrames /\ ret \in Codes
    BY <1>2, AtTop, Known DEF YieldReconnected, TypeInv, CallsOK
  <2>2. [Top EXCEPT !.pc = IF ret = "SUCCESS" /\ Top.tmr > 0 THEN "loop" ELSE "sleep",
                    !.rc = ret] \in ProperFrames
    BY <2>1, FrameUpdate, Known
  <2>3. CallsOK'
    BY <1>2, <2>1, <2>2, GotoOK DEF YieldReconnected, TypeInv
  <2> QED BY <1>2, <2>3, Kept DEF YieldReconnected, TypeInv
<1>3. CASE YieldReturns
  <2>1. sp > 0 /\ Top \in ProperFrames
    BY <1>3, AtTop, Known DEF YieldReturns
  <2>2. CallsOK'
    BY <1>3, <2>1, FrameFields, ReturnOK DEF YieldReturns, TypeInv
  <2> QED BY <1>3, <2>2, Kept DEF YieldReturns, TypeInv
<1>4. CASE HandlerReturns
  <2>1. sp > 0 /\ Top \in ProperFrames
    BY <1>4, AtTop, Known DEF HandlerReturns
  <2>2. CallsOK'
    BY <1>4, <2>1, FrameUpdate, Known, GotoOK DEF HandlerReturns, TypeInv
  <2> QED BY <1>4, <2>2, Kept DEF HandlerReturns, TypeInv
<1> QED BY <1>1, <1>2, <1>3, <1>4

LEMMA CycleType ==
  ASSUME TypeInv,
         \/ ReadPacket \/ ReadNothing \/ ReadError
         \/ Acknowledge \/ Keepalive \/ CycleFailed
  PROVE  TypeInv'
<1>1. CASE ReadPacket
  <2>1. sp > 0 /\ Top \in ProperFrames
    BY <1>1, AtTop, Known DEF ReadPacket
  <2>2. Head(pipe) \in Packets /\ Tail(pipe) \in Seq(Packets)
    BY <1>1 DEF ReadPacket, TypeInv, NetOK
  <2>3. [Top EXCEPT !.got = Head(pipe), !.rc = "SUCCESS",
                    !.pc = IF NeedsAck(Head(pipe)) THEN "ack"
                           ELSE IF Head(pipe).type = "PUBLISH" THEN "deliver" ELSE "post"]
           \in ProperFrames
    BY <2>1, <2>2, FrameUpdate, Known
  <2>4. CallsOK'
    BY <1>1, <2>1, <2>3, GotoOK DEF ReadPacket, TypeInv
  <2>5. TimerOK'
    BY <1>1, ArmedOK, Known DEF ReadPacket, TypeInv, TimerOK
  <2>6. NetOK'
    BY <1>1, <2>2 DEF ReadPacket, TypeInv, NetOK
  <2>7. ClientOK'
    BY <1>1 DEF ReadPacket, TypeInv, ClientOK
  <2> QED BY <1>1, <2>4, <2>5, <2>6, <2>7, Kept DEF ReadPacket, TypeInv
<1>2. CASE ReadNothing
  <2>1. sp > 0 /\ Top \in ProperFrames
    BY <1>2, AtTop, Known DEF ReadNothing
  <2>2. CallsOK'
    BY <1>2, <2>1, FrameUpdate, Known, GotoOK DEF ReadNothing, TypeInv
  <2> QED BY <1>2, <2>2, Kept DEF ReadNothing, TypeInv
<1>3. CASE ReadError
  <2>1. sp > 0 /\ Top \in ProperFrames
    BY <1>3, AtTop, Known DEF ReadError
  <2>2. CallsOK'
    BY <1>3, <2>1, FrameUpdate, Known, GotoOK DEF ReadError, TypeInv
  <2> QED BY <1>3, <2>2, Kept DEF ReadError, TypeInv
<1>4. CASE Acknowledge
  <2> DEFINE isPublish == Top.got.type = "PUBLISH"
             answer == IF Top.got.type = "PUBREC" THEN "PUBCOMP"
                       ELSE IF isPublish /\ Top.got.qos = 2 THEN "PUBREL" ELSE "NONE"
  <2>1. sp > 0 /\ Top \in ProperFrames
    BY <1>4, AtTop, Known DEF Acknowledge
  <2>2. answer \in Answers /\ Top.got.id \in 0..MaxPacketId
    BY <2>1, FrameFields, Known DEF Packets
  <2>3. CASE /\ Sent(BrokerAnswer(answer, Top.got.id))
             /\ timer' = Armed("last_sent", KeepAlive)
             /\ Goto([Top EXCEPT !.pc = IF isPublish THEN "deliver" ELSE "post"])
    <3>1. NetOK'
      BY <2>2, <2>3, BrokerAnswerOK, Kept DEF Sent, TypeInv
    <3>2. TimerOK'
      BY <2>3, ArmedOK, Known DEF TypeInv, TimerOK
    <3>3. CallsOK'
      BY <2>1, <2>3, FrameUpdate, Known, GotoOK DEF TypeInv
    <3> QED BY <1>4, <3>1, <3>2, <3>3, Kept DEF Acknowledge, TypeInv
  <2>4. CASE /\ SendFails \/ (Top.tmr = 0 /\ UNCHANGED net)
             /\ Goto([Top EXCEPT !.pc = IF isPublish THEN "deliver" ELSE "cycleFailed",
                                 !.rc = "FAILURE"])
             /\ UNCHANGED timer
    <3>1. [Top EXCEPT !.pc = IF isPublish THEN "deliver" ELSE "cycleFailed",
                      !.rc = "FAILURE"] \in ProperFrames
      BY <2>1, FrameUpdate, Known
    <3>2. CallsOK'
      BY <2>1, <2>4, <3>1, GotoOK DEF TypeInv
    <3> QED BY <1>4, <2>4, <3>2, Kept DEF Acknowledge, SendFails, TypeInv
  <2> QED BY <1>4, <2>3, <2>4 DEF Acknowledge
<1>5. CASE Keepalive
  <2>1. sp > 0 /\ Top \in ProperFrames
    BY <1>5, AtTop, Known DEF Keepalive
  <2>2. AfterCycle(Top) \in ProperFrames /\ [Top EXCEPT !.pc = "cycleFailed"] \in ProperFrames
    BY <2>1, FrameUpdate, Known DEF AfterCycle
  <2>3. CallsOK'
    BY <1>5, <2>1, <2>2, GotoOK DEF Keepalive, TypeInv
  <2>4. TimerOK'
    <3>1. KeepAlive \in Nat /\ {"last_sent", "last_received", "ping_timer"} \subseteq Timers
      BY Known, BoundsAssumption
    <3>2. TimerOK
      BY DEF TypeInv
    <3>3. Armed("ping_timer", KeepAlive) \in [Timers -> Nat]
      BY <3>1, <3>2, ArmedOK
    <3>4. [timer EXCEPT !["ping_timer"] = KeepAlive, !["last_sent"] = KeepAlive] \in [Timers -> Nat]
      BY <3>1, <3>2 DEF TimerOK
    <3>5. \/ timer' = timer \/ timer' = Armed("ping_timer", KeepAlive)
          \/ timer' = [timer EXCEPT !["ping_timer"] = KeepAlive, !["last_sent"] = KeepAlive]
      BY <1>5, Zenon DEF Keepalive
    <3> QED BY <3>2, <3>3, <3>4, <3>5 DEF TimerOK
  <2>5. NetOK'
    BY <1>5, BrokerAnswerOK, Kept, Known DEF Keepalive, Sent, SendFails, TypeInv
  <2>6. pingOut' \in BOOLEAN
    BY <1>5 DEF Keepalive, TypeInv, ClientOK
  <2> QED BY <1>5, <2>3, <2>4, <2>5, <2>6, Kept DEF Keepalive, TypeInv, ClientOK
<1>6. CASE CycleFailed
  <2>1. sp > 0 /\ Top \in ProperFrames
    BY <1>6, AtTop, Known DEF CycleFailed
  <2>2. [Top EXCEPT !.pc = IF Top.fn = "yield" THEN "sleep" ELSE "unanswered",
                    !.rc = "FAILURE"] \in ProperFrames
    BY <2>1, FrameUpdate, Known
  <2>3. CallsOK'
    BY <1>6, <2>1, <2>2, GotoOK DEF CycleFailed, TypeInv
  <2>4. state' \in ClientStates /\ TimerOK' /\ NetOK'
    BY <1>6, DisconnectOK, Kept DEF CycleFailed, TypeInv, ClientOK
  <2> QED BY <1>6, <2>3, <2>4, Kept DEF CycleFailed, TypeInv, ClientOK
<1> QED BY <1>1, <1>2, <1>3, <1>4, <1>5, <1>6

LEMMA InitType == Init => TypeInv
<1> SUFFICES ASSUME Init PROVE TypeInv
  OBVIOUS
<1>1. "connect" \in Calls
  BY DEF Calls
<1>2. "CONNACK" \in Answers /\ "connect" \in Points
  BY Known DEF Answers
<1>3. Frame("connect", "connect", NoTopic, "CONNACK", 0) \in ProperFrames
  BY <1>1, <1>2, NewFrame
<1>4. CallsOK
  BY <1>3, FixedFrames, BoundsAssumption, Known DEF Init, CallsOK
<1>5. ClientOK
  <2>1. handlers \in [Slots -> Topics \cup {NoTopic}]
    BY DEF Init
  <2>2. pingOut \in BOOLEAN
    BY DEF Init
  <2>3. state = "NETWORK_READY" /\ nextPid = 1 /\ backoff = 0
    BY DEF Init
  <2>4. state \in ClientStates /\ nextPid \in 1..MaxPacketId /\ backoff \in Nat
    BY <2>3, PacketIdAssumption DEF ClientStates
  <2> QED BY <2>1, <2>2, <2>4 DEF ClientOK
<1>6. NetOK
  <2>1. <<>> \in Seq(Packets) /\ {} \in SUBSET Topics
    OBVIOUS
  <2>2. broker \in [greeted : BOOLEAN, subs : SUBSET Topics, pushes : Nat]
    BY <2>1, BoundsAssumption DEF Init
  <2> QED BY <2>1, <2>2, BoundsAssumption DEF Init, NetOK, SockStates
<1>7. AppOK
  <2>1. app \in [autoReconnect : AutoReconnects, destroyed : {FALSE}]
    BY DEF Init
  <2>2. app \in [autoReconnect : BOOLEAN, destroyed : BOOLEAN]
    BY <2>1, OptionsAssumption
  <2>3. stable \in BOOLEAN
    BY DEF Init
  <2>4. connects = 0
    BY DEF Init
  <2> QED BY <2>2, <2>3, <2>4 DEF AppOK
<1>8. TimerOK
  BY DEF Init, TimerOK
<1> QED BY <1>4, <1>5, <1>6, <1>7, <1>8 DEF TypeInv

LEMMA NextType == TypeInv /\ [Next]_vars => TypeInv'
<1> SUFFICES ASSUME TypeInv, [Next]_vars PROVE TypeInv'
  OBVIOUS
<1>1. CASE ClientStep
  BY <1>1, YieldType, RequestType, SendRequestType, ReconnectType, CycleType DEF ClientStep
<1>2. CASE Application
  BY <1>2, ApplicationType
<1>3. CASE Elapse \/ Environment
  BY <1>3, EnvironmentType
<1>4. CASE UNCHANGED vars
  BY <1>4, Kept, CallsKept DEF vars, TypeInv
<1> QED BY <1>1, <1>2, <1>3, <1>4 DEF Next

LEMMA TypeInvHolds == Spec => []TypeInv
<1> QED BY InitType, NextType, PTL DEF Spec

\* Every variable of the client keeps its type in every reachable state: no call of
\* tc_iot_mqtt.c subscribes the broker to a NULL filter, leaves the packet id outside
\* its range, or overruns the stack.
THEOREM TypeCorrect == Spec => []TypeOK
<1> QED BY TypeInvHolds, TypeInvImpliesTypeOK, PTL

(***************************************************************************)
(* The exponential wait of _handle_reconnect                               *)
(***************************************************************************)

LEMMA BackOffBounds ==
  ASSUME TypeInv, BackoffBounded, NEW armed \in [Timers -> Nat], BackOff(armed)
  PROVE  BackoffBounded'
<1>1. backoff' \in Nat /\ backoff' <= MaxWait
  BY Known, WaitAssumption DEF BackOff, TypeInv, ClientOK
<1>2. timer'["reconnect_timer"] = backoff'
  BY <1>1, Known DEF BackOff
<1> QED BY <1>1, <1>2 DEF BackoffBounded

\* The actions that arm other timers only.
LEMMA BackoffKept ==
  ASSUME TypeInv, BackoffBounded, backoff' = backoff,
         timer'["reconnect_timer"] = timer["reconnect_timer"]
  PROVE  BackoffBounded'
BY DEF BackoffBounded

LEMMA ArmedOther ==
  ASSUME TypeInv, NEW t \in Timers \ {"reconnect_timer"}, NEW d \in Nat
  PROVE  /\ Armed(t, d) \in [Timers -> Nat]
         /\ Armed(t, d)["reconnect_timer"] = timer["reconnect_timer"]
BY Known DEF TypeInv, TimerOK, Armed

LEMMA CloseKeepsBackoff ==
  ASSUME TypeInv, CloseConnection \/ Disconnect
  PROVE  timer'["reconnect_timer"] = timer["reconnect_timer"]
<1>1. "last_sent" \in Timers \ {"reconnect_timer"} /\ KeepAlive \in Nat
  BY Known
<1> QED BY <1>1, ArmedOther DEF CloseConnection, Disconnect

LEMMA BackoffStep ==
  ASSUME TypeInv, BackoffBounded, [Next]_vars
  PROVE  BackoffBounded'
<1> USE DEF client
<1>0. {"last_sent", "last_received", "ping_timer"} \subseteq Timers \ {"reconnect_timer"}
  BY Known
<1>1. CASE ReconnectStart
  BY <1>1, BackOffBounds, BackoffKept DEF ReconnectStart, TypeInv, TimerOK
<1>2. CASE SendConnect
  <2> DEFINE receiving == Armed("last_received", KeepAlive)
  <2>1. /\ receiving \in [Timers -> Nat]
        /\ receiving["reconnect_timer"] = timer["reconnect_timer"]
    BY <1>0, ArmedOther, Known
  <2>2. [receiving EXCEPT !["last_sent"] = KeepAlive]["reconnect_timer"]
           = timer["reconnect_timer"]
    BY <2>1, Known
  <2> HIDE DEF receiving
  <2>3. \/ UNCHANGED backoff /\ timer' = [receiving EXCEPT !["last_sent"] = KeepAlive]
        \/ BackOff(receiving)
        \/ UNCHANGED backoff /\ timer' = receiving
    BY <1>2 DEF SendConnect, receiving
  <2> QED BY <2>1, <2>2, <2>3, BackOffBounds, BackoffKept
<1>3. CASE ConnectAnswered
  BY <1>3, BackOffBounds, BackoffKept DEF ConnectAnswered, TypeInv, TimerOK
<1>4. CASE ConnectUnanswered
  BY <1>4, BackOffBounds, BackoffKept DEF ConnectUnanswered, TypeInv, TimerOK
<1>5. CASE Resubscribe
  <2>1. CASE timer' = Armed("reconnect_timer", 0) /\ backoff' = 0
    BY <2>1, Known, WaitAssumption DEF Armed, TypeInv, TimerOK, BackoffBounded
  <2> QED BY <1>5, <2>1, BackoffKept DEF Resubscribe
<1>6. CASE SendRequest
  BY <1>0, <1>6, ArmedOther, Known, BackoffKept DEF SendRequest
<1>7. CASE RequestExit \/ UserDisconnect \/ CycleFailed
  BY <1>7, CloseKeepsBackoff, BackoffKept DEF RequestExit, UserDisconnect, CycleFailed
<1>8. CASE ReadPacket \/ Acknowledge
  <2>1. \A t \in {"last_sent", "last_received"} :
           Armed(t, KeepAlive)["reconnect_timer"] = timer["reconnect_timer"]
    BY <1>0, ArmedOther, Known
  <2>2. /\ UNCHANGED backoff
        /\ \/ UNCHANGED timer
           \/ \E t \in {"last_sent", "last_received"} : timer' = Armed(t, KeepAlive)
    BY <1>8 DEF ReadPacket, Acknowledge
  <2> QED BY <2>1, <2>2, BackoffKept
<1>9. CASE Keepalive
  <2>1. [timer EXCEPT !["ping_timer"] = KeepAlive, !["last_sent"] = KeepAlive]["reconnect_timer"]
           = timer["reconnect_timer"]
    BY Known DEF TypeInv, TimerOK
  <2>2. Armed("ping_timer", KeepAlive)["reconnect_timer"] = timer["reconnect_timer"]
    BY <1>0, ArmedOther, Known
  <2>3. UNCHANGED backoff
    BY <1>9 DEF Keepalive
  <2> QED BY <1>9, <2>1, <2>2, <2>3, BackoffKept DEF Keepalive
<1>10. CASE Elapse
  <2>1. timer'["reconnect_timer"] = Ticked(timer["reconnect_timer"])
    BY <1>10, Known DEF Elapse
  <2>2. Ticked(timer["reconnect_timer"]) <= timer["reconnect_timer"]
    BY Known DEF TypeInv, TimerOK, Ticked
  <2>3. backoff' = backoff /\ timer'["reconnect_timer"] \in Nat
    BY <1>10, <2>1, Known DEF Elapse, Ticked, TypeInv, TimerOK
  <2> QED BY <2>1, <2>2, <2>3, Known DEF BackoffBounded, TypeInv, ClientOK, TimerOK
<1>11. CASE Publish \/ Subscribe \/ Unsubscribe \/ Yield \/ SetAutoReconnect \/ Destroy
  BY <1>11, BackoffKept
     DEF Publish, Subscribe, Unsubscribe, Yield, Enter, SetAutoReconnect, Destroy
<1>12. CASE \/ HandlerReturns \/ CheckConnection \/ ConnectionChecked \/ RequestAnswered
            \/ RequestUnanswered \/ RequestExited
  BY <1>12, BackoffKept
     DEF HandlerReturns, CheckConnection, ConnectionChecked, RequestAnswered,
         RequestUnanswered, RequestExited
<1>13. CASE YieldLoop \/ YieldReconnected \/ YieldReturns \/ ReadNothing \/ ReadError
  BY <1>13, BackoffKept DEF YieldLoop, YieldReconnected, YieldReturns, ReadNothing, ReadError
<1>14. CASE Environment \/ UNCHANGED vars
  BY <1>14, BackoffKept
     DEF Environment, NetReset, NetMute, Fault, BrokerPublish, Stabilise, vars
<1> QED BY <1>1, <1>2, <1>3, <1>4, <1>5, <1>6, <1>7, <1>8, <1>9, <1>10, <1>11, <1>12,
           <1>13, <1>14 DEF Next, ClientStep, Application

\* Whatever mix of failures, refusals and retries occurs, _handle_reconnect never waits
\* longer than TC_IOT_MAX_RECONNECT_WAIT_INTERVAL; so the branch of tc_iot_mqtt_yield
\* that gives up with RECONNECT_TIMEOUT is dead in a build that reconnects for ever.
THEOREM BackoffStaysBounded == Spec => []BackoffBounded
<1>1. Init => BackoffBounded
  BY Known, WaitAssumption DEF Init, BackoffBounded
<1> QED BY <1>1, TypeInvHolds, BackoffStep, PTL DEF Spec

(***************************************************************************)
(* The handler table                                                       *)
(***************************************************************************)

LEMMA HandlersStayUnique ==
  ASSUME TypeInv, NoDuplicateHandler, NEW t \in Topics \cup {NoTopic},
         handlers' \in {handlers, Registered(t), Unregistered(t), [i \in Slots |-> NoTopic]}
  PROVE  NoDuplicateHandler'
<1> SUFFICES ASSUME NEW i \in Slots, NEW j \in Slots,
                    handlers'[i] = handlers'[j], handlers'[i] # NoTopic
             PROVE  i = j
  BY DEF NoDuplicateHandler
<1>0. i \in Int /\ j \in Int /\ handlers \in [Slots -> Topics \cup {NoTopic}]
  BY DEF Slots, TypeInv, ClientOK
<1>1. CASE handlers' = handlers
  BY <1>1 DEF NoDuplicateHandler
<1>2. CASE handlers' = [k \in Slots |-> NoTopic]
  BY <1>2
<1>3. CASE handlers' = Unregistered(t)
  <2>1. handlers[i] = handlers'[i] /\ handlers[j] = handlers'[j]
    BY <1>3 DEF Unregistered
  <2> QED BY <2>1 DEF NoDuplicateHandler
<1>4. CASE handlers' = Registered(t)
  <2>1. CASE (\E k \in Slots : handlers[k] = t) \/ (\A k \in Slots : handlers[k] # NoTopic)
    BY <1>4, <2>1 DEF Registered, NoDuplicateHandler
  <2>2. CASE (\A k \in Slots : handlers[k] # t) /\ (\E k \in Slots : handlers[k] = NoTopic)
    <3>1. \A k \in Slots :
             handlers'[k] = IF handlers[k] = NoTopic /\ \A m \in Slots : m < k => handlers[m] # NoTopic
                            THEN t ELSE handlers[k]
      BY <1>4, <2>2 DEF Registered
    <3>2. CASE handlers'[i] = t
      <4>1. /\ handlers[i] = NoTopic /\ \A m \in Slots : m < i => handlers[m] # NoTopic
            /\ handlers[j] = NoTopic /\ \A m \in Slots : m < j => handlers[m] # NoTopic
        BY <2>2, <3>1, <3>2
      <4>2. ~(i < j) /\ ~(j < i)
        BY <4>1
      <4> QED BY <1>0, <4>2
    <3>3. CASE handlers'[i] # t
      <4>1. handlers[i] = handlers'[i] /\ handlers[j] = handlers'[j]
        BY <3>1, <3>3
      <4> QED BY <4>1 DEF NoDuplicateHandler
    <3> QED BY <3>2, <3>3
  <2> QED BY <2>1, <2>2
<1> QED BY <1>1, <1>2, <1>3, <1>4

LEMMA HandlersStep ==
  ASSUME TypeInv, [Next]_vars
  PROVE  \E t \in Topics \cup {NoTopic} :
            handlers' \in {handlers, Registered(t), Unregistered(t), [i \in Slots |-> NoTopic]}
<1> USE DEF client
<1>1. CASE SendRequest \/ RequestAnswered \/ RequestUnanswered
  <2>1. sp > 0 /\ Top \in ProperFrames
    BY <1>1, AtTop, Known DEF SendRequest, RequestAnswered, RequestUnanswered
  <2>2. Top.topic \in Topics \cup {NoTopic}
    BY <2>1, FrameFields
  <2> QED BY <1>1, <2>2 DEF SendRequest, RequestAnswered, RequestUnanswered
<1>2. CASE Destroy
  BY <1>2 DEF Destroy
<1>3. CASE \/ Publish \/ Subscribe \/ Unsubscribe \/ Yield \/ UserDisconnect
           \/ SetAutoReconnect \/ Environment \/ Elapse \/ UNCHANGED vars
  <2>1. handlers' = handlers
    BY <1>3 DEF Publish, Subscribe, Unsubscribe, Yield, Enter, UserDisconnect, SetAutoReconnect,
                Environment, NetReset, NetMute, Fault, BrokerPublish, Stabilise, Elapse, vars
  <2> QED BY <2>1
<1>4. CASE \/ HandlerReturns \/ CheckConnection \/ ConnectionChecked \/ RequestExit
           \/ RequestExited \/ ReconnectStart \/ SendConnect \/ ConnectAnswered
           \/ ConnectUnanswered \/ Resubscribe
  <2>1. handlers' = handlers
    BY <1>4 DEF HandlerReturns, CheckConnection, ConnectionChecked, RequestExit, RequestExited,
                ReconnectStart, SendConnect, ConnectAnswered, ConnectUnanswered, Resubscribe
  <2> QED BY <2>1
<1>5. CASE \/ YieldLoop \/ YieldReconnected \/ YieldReturns \/ ReadPacket \/ ReadNothing
           \/ ReadError \/ Acknowledge \/ Keepalive \/ CycleFailed
  <2>1. handlers' = handlers
    BY <1>5 DEF YieldLoop, YieldReconnected, YieldReturns, ReadPacket, ReadNothing, ReadError,
                Acknowledge, Keepalive, CycleFailed
  <2> QED BY <2>1
<1> QED BY <1>1, <1>2, <1>3, <1>4, <1>5 DEF Next, ClientStep, Application

\* No filter is ever held by two handler slots, for any table size: subscribing again,
\* failing, re-subscribing after a reconnect and unsubscribing in any order never leaves
\* a second handler that a later unsubscribe would miss.
THEOREM HandlersUnique == Spec => []NoDuplicateHandler
<1>1. Init => NoDuplicateHandler
  BY DEF Init, NoDuplicateHandler
<1>2. TypeInv /\ NoDuplicateHandler /\ [Next]_vars => NoDuplicateHandler'
  BY HandlersStep, HandlersStayUnique
<1> QED BY <1>1, <1>2, TypeInvHolds, PTL DEF Spec

(***************************************************************************)
(* The socket and the state of the connection                              *)
(***************************************************************************)

\* SocketMatchesState is not inductive: a call that has just read a CONNACK is about to
\* set CONNECTED, so no call it is nested with may have closed the socket since.  It
\* cannot: only a delivered PUBLISH starts a nested call, and the caller then no longer
\* holds the CONNACK.
Settled(f) ==
  /\ f.fn \in {"connect", "reconnect"} => f.want = "CONNACK"
  /\ f.pc = "deliver" => f.got.type = "PUBLISH"
  /\ f.pc = "answered" => f.got.type = f.want
Fresh(f) == f.pc \in {"ack", "deliver", "post", "answered"} /\ f.got.type = "CONNACK"
StackInv ==
  /\ \A k \in 1..sp : Settled(stk[k]) /\ (k < sp => ~Fresh(stk[k]))
  /\ sp > 0 /\ Fresh(stk[sp]) => sock # "closed"
SocketInv == SocketMatchesState /\ StackInv

LEMMA GotoStack ==
  ASSUME TypeInv, StackInv, sp > 0, NEW f \in ProperFrames, Goto(f),
         Settled(f), Fresh(f) => sock' # "closed"
  PROVE  StackInv'
<1>1. /\ sp' = sp /\ stk'[sp] = f
      /\ \A k \in 1..sp : k < sp => stk'[k] = stk[k]
  BY BoundsAssumption DEF Goto, TypeInv, CallsOK
<1>2. \A k \in 1..sp : k = sp \/ k < sp
  BY DEF TypeInv, CallsOK
<1>3. \A k \in 1..sp : Settled(stk'[k]) /\ (k < sp => ~Fresh(stk'[k]))
  BY <1>1, <1>2 DEF StackInv
<1> QED BY <1>1, <1>3 DEF StackInv, TypeInv, CallsOK, Settled, Fresh

LEMMA InvokeStack ==
  ASSUME TypeInv, StackInv, sp > 0, NEW f \in ProperFrames, NEW g \in ProperFrames,
         Invoke(f, g), Settled(f), Settled(g), ~Fresh(f), ~Fresh(g)
  PROVE  StackInv'
<1>1. /\ sp' = sp + 1 /\ stk'[sp] = f /\ stk'[sp + 1] = g
      /\ \A k \in 1..sp : k < sp => stk'[k] = stk[k]
  BY BoundsAssumption DEF Invoke, TypeInv, CallsOK
<1>2. \A k \in 1..sp' : k = sp + 1 \/ k = sp \/ (k < sp /\ k \in 1..sp)
  BY <1>1 DEF TypeInv, CallsOK
<1>3. \A k \in 1..sp' : Settled(stk'[k]) /\ ~Fresh(stk'[k])
  BY <1>1, <1>2 DEF StackInv
<1>4. sp' \in 1..sp'
  BY <1>1 DEF TypeInv, CallsOK
<1> QED BY <1>3, <1>4 DEF StackInv, Settled, Fresh

LEMMA ReturnStack ==
  ASSUME TypeInv, StackInv, sp > 0, NEW c \in Codes, Return(c) PROVE StackInv'
<1>1. sp' = sp - 1 /\ \A k \in 1..sp' : stk'[k] = stk[k] /\ k \in 1..sp /\ k < sp
  BY BoundsAssumption DEF Return, TypeInv, CallsOK
<1>2. \A k \in 1..sp' : Settled(stk'[k]) /\ ~Fresh(stk'[k])
  BY <1>1 DEF StackInv
<1>3. sp' > 0 => sp' \in 1..sp'
  BY <1>1 DEF TypeInv, CallsOK
<1> QED BY <1>2, <1>3 DEF StackInv, Settled, Fresh

LEMMA StackKept ==
  ASSUME TypeInv, StackInv, UNCHANGED calls, sp > 0 => (sock # "closed" => sock' # "closed")
  PROVE  StackInv'
BY DEF StackInv, calls, Settled, Fresh

LEMMA TopSettled == ASSUME TypeInv, StackInv, sp > 0 PROVE Settled(Top)
BY DEF TypeInv, CallsOK, StackInv, Top

\* A frame that only moves its program point to one outside a cycle.
LEMMA Moved ==
  ASSUME NEW f \in ProperFrames, Settled(f),
         NEW p \in Points \ {"ack", "deliver", "post", "answered"}
  PROVE  /\ Settled([f EXCEPT !.pc = p]) /\ ~Fresh([f EXCEPT !.pc = p])
         /\ \A r \in Codes : /\ Settled([f EXCEPT !.pc = p, !.rc = r])
                             /\ ~Fresh([f EXCEPT !.pc = p, !.rc = r])
         /\ \A t \in Nat : /\ Settled([f EXCEPT !.pc = p, !.tmr = t])
                           /\ ~Fresh([f EXCEPT !.pc = p, !.tmr = t])
         /\ \A t \in Nat, i \in 0..MaxPacketId :
              /\ Settled([f EXCEPT !.pc = p, !.tmr = t, !.pid = i])
              /\ ~Fresh([f EXCEPT !.pc = p, !.tmr = t, !.pid = i])
BY DEF Settled, Fresh, ProperFrames, Frames

LEMMA MovedPoints ==
  {"checked", "send", "exit", "exited", "connect", "resubscribe", "loop", "reconnected",
   "sleep", "read", "cycleFailed", "unanswered"}
     \subseteq Points \ {"ack", "deliver", "post", "answered"}
BY DEF Points

LEMMA FreshReconnect == Settled(HandleReconnect) /\ ~Fresh(HandleReconnect)
BY DEF HandleReconnect, Frame, Settled, Fresh

LEMMA StateKept ==
  ASSUME SocketMatchesState, state' = state, sock' = "closed" <=> sock = "closed"
  PROVE  SocketMatchesState'
BY DEF SocketMatchesState

LEMMA EnterSocket ==
  ASSUME TypeInv, SocketInv, NEW f \in ProperFrames, Settled(f), ~Fresh(f), Enter(f)
  PROVE  SocketInv'
<1>1. SocketMatchesState'
  BY StateKept DEF Enter, client, net, SocketInv
<1>2. CASE sp = 0 /\ stk' = [stk EXCEPT ![1] = f] /\ sp' = 1
  <2>1. stk'[1] = f /\ 1..sp' = {1}
    BY <1>2, BoundsAssumption DEF TypeInv, CallsOK
  <2> QED BY <1>1, <1>2, <2>1 DEF SocketInv, StackInv, Settled, Fresh
<1>3. CASE At("deliver") /\ Invoke([Top EXCEPT !.pc = "post"], f)
  <2>1. sp > 0 /\ Top \in ProperFrames /\ Top.pc = "deliver" /\ Settled(Top)
    BY <1>3, AtTop, TopSettled, Known DEF SocketInv
  <2>2. [Top EXCEPT !.pc = "post"] \in ProperFrames
    BY <2>1, FrameUpdate, Known
  <2>3. Settled([Top EXCEPT !.pc = "post"]) /\ ~Fresh([Top EXCEPT !.pc = "post"])
    BY <2>1 DEF Settled, Fresh, ProperFrames, Frames
  <2>4. StackInv'
    BY <1>3, <2>1, <2>2, <2>3, InvokeStack DEF SocketInv
  <2> QED BY <1>1, <2>4 DEF SocketInv
<1> QED BY <1>2, <1>3 DEF Enter

LEMMA ApplicationSocket == ASSUME TypeInv, SocketInv, Application PROVE SocketInv'
<1>1. ASSUME NEW fn \in {"publish", "subscribe", "unsubscribe"}, NEW q \in 0..2,
             NEW t \in Topics \cup {NoTopic}, NEW w \in Answers,
             fn = "subscribe" => t \in Topics,
             Enter(Frame(fn, "check", t, w, q))
      PROVE  SocketInv'
  <2> DEFINE f == Frame(fn, "check", t, w, q)
  <2>1. f \in ProperFrames
    BY <1>1, NewFrame, Known
  <2>2. Settled(f) /\ ~Fresh(f)
    BY DEF Frame, Settled, Fresh
  <2>3. Enter(f)
    BY <1>1
  <2> HIDE DEF f
  <2> QED BY <2>1, <2>2, <2>3, EnterSocket
<1>2. CASE Publish
  <2>1. PICK q \in PublishQoS :
           Enter(Frame("publish", "check", NoTopic, <<"NONE", "PUBACK", "PUBCOMP">>[q + 1], q))
    BY <1>2 DEF Publish
  <2>2. q \in 0..2 /\ <<"NONE", "PUBACK", "PUBCOMP">>[q + 1] \in Answers
    BY OptionsAssumption, Known
  <2> QED BY <1>1, <2>1, <2>2
<1>3. CASE Subscribe
  <2>1. PICK t \in Topics : Enter(Frame("subscribe", "check", t, "SUBACK", 0))
    BY <1>3 DEF Subscribe
  <2>2. "SUBACK" \in Answers
    BY Known
  <2> QED BY <1>1, <2>1, <2>2
<1>4. CASE Unsubscribe
  <2>1. PICK t \in Topics : Enter(Frame("unsubscribe", "check", t, "UNSUBACK", 0))
    BY <1>4 DEF Unsubscribe
  <2>2. "UNSUBACK" \in Answers
    BY Known
  <2> QED BY <1>1, <2>1, <2>2
<1>5. CASE Yield
  <2> DEFINE f == [Frame("yield", "loop", NoTopic, "NONE", 0) EXCEPT !.tmr = YieldTime]
  <2>1. f \in ProperFrames
    <3>1. "yield" \in Calls /\ "loop" \in Points /\ "NONE" \in Answers
      BY Known
    <3>2. Frame("yield", "loop", NoTopic, "NONE", 0) \in ProperFrames
      BY <3>1, NewFrame
    <3> QED BY <3>2, FrameUpdate, Known
  <2>2. Settled(f) /\ ~Fresh(f)
    BY DEF Frame, Settled, Fresh
  <2>3. Enter(f)
    BY <1>5 DEF Yield
  <2> HIDE DEF f
  <2> QED BY <2>1, <2>2, <2>3, EnterSocket
<1>6. CASE UserDisconnect
  <2>1. state' = "INITIALIZED" /\ sock' = "closed"
    BY <1>6 DEF UserDisconnect, Disconnect, CloseConnection
  <2>2. ASSUME sp = 0, UNCHANGED calls PROVE StackInv'
    BY <2>2, StackKept DEF SocketInv
  <2>3. ASSUME At("deliver"), Goto([Top EXCEPT !.pc = "post"]) PROVE StackInv'
    <3> DEFINE f == [Top EXCEPT !.pc = "post"]
    <3>1. sp > 0 /\ Top \in ProperFrames /\ Top.pc = "deliver" /\ Settled(Top)
      BY <2>3, AtTop, TopSettled, Known DEF SocketInv
    <3>2. f \in ProperFrames /\ Goto(f)
      BY <2>3, <3>1, FrameUpdate, Known
    <3>3. Settled(f) /\ ~Fresh(f)
      BY <3>1 DEF Settled, Fresh, ProperFrames, Frames
    <3> HIDE DEF f
    <3> QED BY <3>1, <3>2, <3>3, GotoStack DEF SocketInv
  <2>4. StackInv'
    BY <1>6, <2>2, <2>3 DEF UserDisconnect
  <2> QED BY <2>1, <2>4 DEF SocketInv, SocketMatchesState
<1>7. CASE SetAutoReconnect \/ Destroy
  BY <1>7, StateKept, StackKept DEF SetAutoReconnect, Destroy, client, net, SocketInv
<1> QED BY <1>2, <1>3, <1>4, <1>5, <1>6, <1>7 DEF Application

LEMMA EnvironmentSocket ==
  ASSUME TypeInv, SocketInv, Environment \/ Elapse PROVE SocketInv'
<1>1. SocketMatchesState'
  BY StateKept DEF Environment, NetReset, NetMute, Fault, BrokerPublish, Stabilise, Elapse,
                   client, net, SocketInv
<1>2. CASE Environment
  BY <1>1, <1>2, StackKept
     DEF Environment, NetReset, NetMute, Fault, BrokerPublish, Stabilise, net, SocketInv
<1>3. CASE Elapse
  <2>1. sp' = sp /\ sock' = sock
    BY <1>3 DEF Elapse, net
  <2>2. \A k \in 1..sp : stk[k] \in Frames /\ stk'[k] = [stk[k] EXCEPT !.tmr = Ticked(stk[k].tmr)]
    BY <1>3, BoundsAssumption DEF Elapse, TypeInv, CallsOK, ProperFrames
  <2>3. \A k \in 1..sp : /\ Settled(stk[k]) <=> Settled(stk'[k])
                         /\ Fresh(stk[k]) <=> Fresh(stk'[k])
    BY <2>2 DEF Settled, Fresh, Frames
  <2>4. sp > 0 => sp \in 1..sp
    BY DEF TypeInv, CallsOK
  <2>5. StackInv'
    BY <2>1, <2>3, <2>4 DEF SocketInv, StackInv, Settled, Fresh
  <2> QED BY <1>1, <2>5 DEF SocketInv
<1> QED BY <1>2, <1>3

\* A step of the thread leaves the top frame where it can no longer answer a CONNECT.
LEMMA Leaving ==
  ASSUME TypeInv, SocketInv, sp > 0
  PROVE  /\ \A p \in Points \ {"ack", "deliver", "post", "answered"} :
              /\ Goto([Top EXCEPT !.pc = p]) => StackInv'
              /\ \A r \in Codes : Goto([Top EXCEPT !.pc = p, !.rc = r]) => StackInv'
              /\ \A t \in Nat : Goto([Top EXCEPT !.pc = p, !.tmr = t]) => StackInv'
              /\ \A t \in Nat, i \in 0..MaxPacketId :
                   Goto([Top EXCEPT !.pc = p, !.tmr = t, !.pid = i]) => StackInv'
              /\ Invoke([Top EXCEPT !.pc = p], HandleReconnect) => StackInv'
         /\ \A c \in Codes : Return(c) => StackInv'
<1>1. Top \in ProperFrames /\ Settled(Top) /\ StackInv
  BY TopFrame, TopSettled DEF TypeInv, SocketInv
<1>2. \A c \in Codes : Return(c) => StackInv'
  BY <1>1, ReturnStack
<1>3. SUFFICES ASSUME NEW p \in Points \ {"ack", "deliver", "post", "answered"}
      PROVE  /\ Goto([Top EXCEPT !.pc = p]) => StackInv'
             /\ \A r \in Codes : Goto([Top EXCEPT !.pc = p, !.rc = r]) => StackInv'
             /\ \A t \in Nat : Goto([Top EXCEPT !.pc = p, !.tmr = t]) => StackInv'
             /\ \A t \in Nat, i \in 0..MaxPacketId :
                  Goto([Top EXCEPT !.pc = p, !.tmr = t, !.pid = i]) => StackInv'
             /\ Invoke([Top EXCEPT !.pc = p], HandleReconnect) => StackInv'
  BY <1>2
<1>4. \A f \in ProperFrames : Goto(f) /\ Settled(f) /\ ~Fresh(f) => StackInv'
  BY <1>1, GotoStack
<1>5. Goto([Top EXCEPT !.pc = p]) => StackInv'
  BY <1>1, <1>4, Moved, FrameUpdate
<1>6. \A r \in Codes : Goto([Top EXCEPT !.pc = p, !.rc = r]) => StackInv'
  BY <1>1, <1>4, Moved, FrameUpdate
<1>7. \A t \in Nat : Goto([Top EXCEPT !.pc = p, !.tmr = t]) => StackInv'
  BY <1>1, <1>4, Moved, FrameUpdate
<1>8. \A t \in Nat, i \in 0..MaxPacketId :
         Goto([Top EXCEPT !.pc = p, !.tmr = t, !.pid = i]) => StackInv'
  BY <1>1, <1>4, Moved, FrameUpdate
<1>9. Invoke([Top EXCEPT !.pc = p], HandleReconnect) => StackInv'
  <2> DEFINE f == [Top EXCEPT !.pc = p]
  <2>1. f \in ProperFrames /\ Settled(f) /\ ~Fresh(f)
    BY <1>1, Moved, FrameUpdate
  <2> HIDE DEF f
  <2>2. Invoke(f, HandleReconnect) => StackInv'
    BY <1>1, <2>1, FixedFrames, FreshReconnect, InvokeStack
  <2> QED BY <2>2 DEF f
<1> QED BY <1>5, <1>6, <1>7, <1>8, <1>9

LEMMA SentSocket ==
  /\ \A type \in Answers, id \in 0..MaxPacketId :
        Sent(BrokerAnswer(type, id)) => sock' = sock /\ sock # "closed"
  /\ Sent(BrokerConnect) => sock' # "closed" /\ sock # "closed"
  /\ \A id \in 0..MaxPacketId :
        Sent(RequestReceived(id)) => sock' = sock /\ sock # "closed"
  /\ SendFails => sock' = sock
BY DEF Sent, SendFails, BrokerAnswer, BrokerConnect, RequestReceived, BrokerSubscribe,
       BrokerUnsubscribe, Reply, net

LEMMA RequestSocket ==
  ASSUME TypeInv, SocketInv,
         \/ HandlerReturns \/ CheckConnection \/ ConnectionChecked \/ RequestAnswered
         \/ RequestUnanswered \/ RequestExit \/ RequestExited \/ SendRequest
  PROVE  SocketInv'
<1>0. sp > 0 /\ Top \in ProperFrames /\ Settled(Top)
  BY AtTop, TopSettled, Known
     DEF HandlerReturns, CheckConnection, ConnectionChecked, RequestAnswered, SocketInv,
         RequestUnanswered, RequestExit, RequestExited, SendRequest
<1>1. CASE HandlerReturns
  <2> DEFINE f == [Top EXCEPT !.pc = "post"]
  <2>1. f \in ProperFrames /\ Goto(f)
    BY <1>0, <1>1, FrameUpdate, Known DEF HandlerReturns
  <2>2. Settled(f) /\ ~Fresh(f)
    BY <1>0, <1>1 DEF HandlerReturns, At, Top, Settled, Fresh, ProperFrames, Frames
  <2> HIDE DEF f
  <2>3. StackInv'
    BY <1>0, <2>1, <2>2, GotoStack DEF SocketInv
  <2> QED BY <1>1, <2>3, StateKept DEF HandlerReturns, client, net, SocketInv
<1>2. CASE CheckConnection \/ ConnectionChecked \/ RequestAnswered \/ RequestUnanswered
           \/ RequestExited
  <2>1. StackInv'
    BY <1>0, <1>2, Leaving, MovedPoints, Known
       DEF CheckConnection, ConnectionChecked, RequestAnswered, RequestUnanswered,
           RequestExited, TypeInv, CallsOK
  <2> QED BY <1>2, <2>1, StateKept
          DEF CheckConnection, ConnectionChecked, RequestAnswered, RequestUnanswered,
              RequestExited, client, net, SocketInv
<1>3. CASE RequestExit
  <2>1. StackInv'
    BY <1>0, <1>3, Leaving, MovedPoints DEF RequestExit
  <2>2. SocketMatchesState'
    BY <1>3 DEF RequestExit, Disconnect, CloseConnection, net, SocketInv, SocketMatchesState
  <2> QED BY <2>1, <2>2 DEF SocketInv
<1>4. CASE SendRequest
  <2> DEFINE id == IF Top.fn = "publish" /\ Top.qos = 0 THEN 0 ELSE NextPackId
  <2>1. id \in 0..MaxPacketId
    BY NextPackIdOK, PacketIdAssumption DEF TypeInv
  <2>2. \/ /\ Sent(RequestReceived(id))
           /\ \/ Return("SUCCESS")
              \/ Goto([Top EXCEPT !.pc = "read", !.tmr = CommandTimeout, !.pid = id])
        \/ SendFails /\ Goto([Top EXCEPT !.pc = "exit"])
    BY <1>4 DEF SendRequest
  <2> HIDE DEF id
  <2>3. StackInv'
    BY <1>0, <2>1, <2>2, Leaving, MovedPoints, Known
  <2>4. sock' = sock
    BY <2>1, <2>2, SentSocket
  <2> QED BY <1>4, <2>3, <2>4, StateKept DEF SendRequest, SocketInv
<1> QED BY <1>1, <1>2, <1>3, <1>4

LEMMA ReconnectSocket ==
  ASSUME TypeInv, SocketInv,
         \/ ReconnectStart \/ SendConnect \/ ConnectAnswered
         \/ ConnectUnanswered \/ Resubscribe
  PROVE  SocketInv'
<1>0. sp > 0 /\ Top \in ProperFrames /\ Settled(Top)
  BY AtTop, TopSettled, Known
     DEF ReconnectStart, SendConnect, ConnectAnswered, ConnectUnanswered, Resubscribe, SocketInv
<1>1. CASE ReconnectStart
  <2>1. StackInv'
    BY <1>0, <1>1, Leaving, MovedPoints, Known DEF ReconnectStart, BackOff
  <2>2. SocketMatchesState'
    BY <1>1 DEF ReconnectStart, net, SocketInv, SocketMatchesState
  <2> QED BY <2>1, <2>2 DEF SocketInv
<1>2. CASE SendConnect
  <2>1. StackInv'
    BY <1>0, <1>2, Leaving, MovedPoints, Known DEF SendConnect, BackOff
  <2>2. sock' = "closed" <=> sock = "closed"
    BY <1>2, SentSocket DEF SendConnect
  <2> QED BY <1>2, <2>1, <2>2, StateKept DEF SendConnect, SocketInv
<1>3. CASE ConnectAnswered
  <2>1. StackInv'
    BY <1>0, <1>3, Leaving, MovedPoints, Known DEF ConnectAnswered, BackOff
  <2>2. sock # "closed"
    <3>1. Top.got.type = "CONNACK" /\ Top.pc = "answered"
      BY <1>0, <1>3, AtTop, Known DEF ConnectAnswered, Settled
    <3> QED BY <1>0, <3>1 DEF SocketInv, StackInv, Fresh, Top
  <2>3. sock' = sock /\ (state' = state \/ state' = "CONNECTED")
    BY <1>3 DEF ConnectAnswered, net
  <2> QED BY <2>1, <2>2, <2>3 DEF SocketInv, SocketMatchesState
<1>4. CASE ConnectUnanswered
  <2>1. StackInv'
    BY <1>0, <1>4, Leaving, Known DEF ConnectUnanswered, BackOff
  <2> QED BY <1>4, <2>1, StateKept DEF ConnectUnanswered, net, SocketInv
<1>5. CASE Resubscribe
  <2>1. ASSUME NEW i \in Slots, handlers[i] # NoTopic,
               Invoke([Top EXCEPT !.slot = i + 1],
                      Frame("subscribe", "check", handlers[i], "SUBACK", 0))
        PROVE  StackInv'
    <3> DEFINE f == [Top EXCEPT !.slot = i + 1]
               g == Frame("subscribe", "check", handlers[i], "SUBACK", 0)
    <3>1. i + 1 \in 1..(MaxHandlers + 1)
      BY HandlersAssumption DEF Slots
    <3>2. handlers[i] \in Topics
      BY <2>1 DEF TypeInv, ClientOK
    <3>3. f \in ProperFrames
      BY <1>0, <3>1, FrameUpdate
    <3>4. g \in ProperFrames
      BY <3>2, NewFrame, Known
    <3>5. Settled(f) /\ ~Fresh(f)
      BY <1>0, <1>5 DEF Resubscribe, At, Top, Settled, Fresh, ProperFrames, Frames
    <3>6. Settled(g) /\ ~Fresh(g)
      BY DEF Frame, Settled, Fresh
    <3>7. Invoke(f, g)
      BY <2>1
    <3> HIDE DEF f, g
    <3> QED BY <1>0, <3>3, <3>4, <3>5, <3>6, <3>7, InvokeStack DEF SocketInv
  <2>2. StackInv'
    BY <1>0, <1>5, <2>1, Leaving, Known DEF Resubscribe
  <2> QED BY <1>5, <2>2, StateKept DEF Resubscribe, net, SocketInv
<1> QED BY <1>1, <1>2, <1>3, <1>4, <1>5

LEMMA YieldSocket ==
  ASSUME TypeInv, SocketInv, YieldLoop \/ YieldReconnected \/ YieldReturns
  PROVE  SocketInv'
<1>0. sp > 0 /\ Top \in ProperFrames /\ ret \in Codes
  BY AtTop, Known DEF YieldLoop, YieldReconnected, YieldReturns, TypeInv, CallsOK
<1>1. StackInv'
  BY <1>0, Leaving, MovedPoints, FrameFields DEF YieldLoop, YieldReconnected, YieldReturns
<1> QED BY <1>1, StateKept
        DEF YieldLoop, YieldReconnected, YieldReturns, client, net, SocketInv

LEMMA CycleSocket ==
  ASSUME TypeInv, SocketInv,
         \/ ReadPacket \/ ReadNothing \/ ReadError
         \/ Acknowledge \/ Keepalive \/ CycleFailed
  PROVE  SocketInv'
<1>0. sp > 0 /\ Top \in ProperFrames /\ Settled(Top) /\ StackInv
  BY AtTop, TopSettled, Known
     DEF ReadPacket, ReadNothing, ReadError, Acknowledge, Keepalive, CycleFailed, SocketInv
<1>1. CASE ReadPacket
  <2> DEFINE p == Head(pipe)
             f == [Top EXCEPT !.got = p, !.rc = "SUCCESS",
                              !.pc = IF NeedsAck(p) THEN "ack"
                                     ELSE IF p.type = "PUBLISH" THEN "deliver" ELSE "post"]
  <2>1. p \in Packets
    BY <1>1 DEF ReadPacket, TypeInv, NetOK
  <2>2. f \in ProperFrames /\ Goto(f)
    BY <1>0, <1>1, <2>1, FrameUpdate, Known DEF ReadPacket
  <2>3. Settled(f)
    BY <1>0 DEF Settled, ProperFrames, Frames
  <2>4. sock # "closed" /\ sock' = sock /\ state' = state
    BY <1>1 DEF ReadPacket
  <2> HIDE DEF f
  <2>5. StackInv'
    BY <1>0, <2>2, <2>3, <2>4, GotoStack
  <2> QED BY <2>4, <2>5, StateKept DEF SocketInv
<1>2. CASE ReadNothing
  <2> DEFINE f == [Top EXCEPT !.got = NoPacket, !.rc = "SUCCESS", !.pc = "post"]
  <2>1. f \in ProperFrames /\ Goto(f)
    BY <1>0, <1>2, FrameUpdate, Known DEF ReadNothing
  <2>2. Settled(f) /\ ~Fresh(f)
    BY <1>0 DEF Settled, Fresh, NoPacket, Packet, ProperFrames, Frames
  <2> HIDE DEF f
  <2>3. StackInv'
    BY <1>0, <2>1, <2>2, GotoStack
  <2> QED BY <1>2, <2>3, StateKept DEF ReadNothing, client, net, SocketInv
<1>3. CASE ReadError
  <2>1. StackInv'
    BY <1>0, <1>3, Leaving, MovedPoints DEF ReadError
  <2> QED BY <1>3, <2>1, StateKept DEF ReadError, client, net, SocketInv
<1>4. CASE Acknowledge
  <2> DEFINE isPublish == Top.got.type = "PUBLISH"
             answer == IF Top.got.type = "PUBREC" THEN "PUBCOMP"
                       ELSE IF isPublish /\ Top.got.qos = 2 THEN "PUBREL" ELSE "NONE"
  <2>1. Top.pc = "ack"
    BY <1>4, AtTop, Known DEF Acknowledge
  <2>2. answer \in Answers /\ Top.got.id \in 0..MaxPacketId
    BY <1>0, FrameFields, Known DEF Packets
  <2>3. sock' = sock /\ state' = state
    BY <1>4, <2>2, SentSocket DEF Acknowledge, client, net
  <2>4. CASE Goto([Top EXCEPT !.pc = IF isPublish THEN "deliver" ELSE "post"])
    <3> DEFINE f == [Top EXCEPT !.pc = IF isPublish THEN "deliver" ELSE "post"]
    <3>1. f \in ProperFrames /\ Goto(f)
      BY <1>0, <2>4, FrameUpdate, Known
    <3>2. Settled(f) /\ (Fresh(f) => Fresh(Top))
      BY <1>0, <2>1 DEF Settled, Fresh, ProperFrames, Frames
    <3> HIDE DEF f
    <3>3. StackInv'
      BY <1>0, <2>3, <3>1, <3>2, GotoStack DEF StackInv, Top
    <3> QED BY <2>3, <3>3, StateKept DEF SocketInv
  <2>5. CASE Goto([Top EXCEPT !.pc = IF isPublish THEN "deliver" ELSE "cycleFailed",
                              !.rc = "FAILURE"])
    <3> DEFINE f == [Top EXCEPT !.pc = IF isPublish THEN "deliver" ELSE "cycleFailed",
                                !.rc = "FAILURE"]
    <3>1. f \in ProperFrames /\ Goto(f)
      BY <1>0, <2>5, FrameUpdate, Known
    <3>2. Settled(f) /\ (Fresh(f) => Fresh(Top))
      BY <1>0, <2>1 DEF Settled, Fresh, ProperFrames, Frames
    <3> HIDE DEF f
    <3>3. StackInv'
      BY <1>0, <2>3, <3>1, <3>2, GotoStack DEF StackInv, Top
    <3> QED BY <2>3, <3>3, StateKept DEF SocketInv
  <2> QED BY <1>4, <2>4, <2>5 DEF Acknowledge
<1>5. CASE Keepalive
  <2>1. Top.pc = "post"
    BY <1>5, AtTop, Known DEF Keepalive
  <2>2. sock' = sock /\ state' = state
    BY <1>5, SentSocket, Known DEF Keepalive, net
  <2>3. ASSUME Goto(AfterCycle(Top)) PROVE StackInv'
    <3> DEFINE f == AfterCycle(Top)
    <3>1. f \in ProperFrames /\ Goto(f)
      BY <1>0, <2>3, FrameUpdate, Known DEF AfterCycle
    <3>2. Settled(f) /\ (Fresh(f) => Fresh(Top))
      BY <1>0, <2>1 DEF AfterCycle, Settled, Fresh, ProperFrames, Frames
    <3> HIDE DEF f
    <3> QED BY <1>0, <2>2, <3>1, <3>2, GotoStack DEF StackInv, Top
  <2>4. ASSUME Goto([Top EXCEPT !.pc = "cycleFailed"]) PROVE StackInv'
    BY <1>0, <2>4, Leaving, MovedPoints
  <2> QED BY <1>5, <2>2, <2>3, <2>4, StateKept DEF Keepalive, SocketInv
<1>6. CASE CycleFailed
  <2>1. StackInv'
    BY <1>0, <1>6, Leaving, MovedPoints, Known DEF CycleFailed
  <2>2. SocketMatchesState'
    BY <1>6 DEF CycleFailed, CloseConnection, net, SocketInv, SocketMatchesState
  <2> QED BY <2>1, <2>2 DEF SocketInv
<1> QED BY <1>1, <1>2, <1>3, <1>4, <1>5, <1>6

LEMMA SocketStep == TypeInv /\ SocketInv /\ [Next]_vars => SocketInv'
<1> SUFFICES ASSUME TypeInv, SocketInv, [Next]_vars PROVE SocketInv'
  OBVIOUS
<1>1. CASE ClientStep
  BY <1>1, RequestSocket, ReconnectSocket, YieldSocket, CycleSocket DEF ClientStep
<1>2. CASE Application
  BY <1>2, ApplicationSocket
<1>3. CASE Elapse \/ Environment
  BY <1>3, EnvironmentSocket
<1>4. CASE UNCHANGED vars
  BY <1>4, StateKept, StackKept DEF vars, client, net, SocketInv
<1> QED BY <1>1, <1>2, <1>3, <1>4 DEF Next

LEMMA SocketInit == Init => SocketInv
<1> SUFFICES ASSUME Init PROVE SocketInv
  OBVIOUS
<1>1. state = "NETWORK_READY" /\ sock = "up" /\ sp = 1
  BY DEF Init
<1>2. stk[1] = Frame("connect", "connect", NoTopic, "CONNACK", 0)
  BY BoundsAssumption DEF Init
<1>3. Settled(stk[1]) /\ ~Fresh(stk[1])
  BY <1>2 DEF Frame, Settled, Fresh
<1> QED BY <1>1, <1>3 DEF SocketInv, SocketMatchesState, StackInv

\* The client has a socket exactly while its state is not INITIALIZED, for any number of
\* nested calls, handlers and faults: no path leaks a descriptor by opening a second
\* connection over an open one, and no call that is about to report CONNECTED has had its
\* socket closed by a call nested in it.
THEOREM SocketFollowsState == Spec => []SocketMatchesState
<1>1. SocketInv => SocketMatchesState
  BY DEF SocketInv
<1> QED BY <1>1, SocketInit, SocketStep, TypeInvHolds, PTL DEF Spec

(***************************************************************************)
(* Keep-alive                                                              *)
(***************************************************************************)

\* What the steps of the client do to the ping flag and its timer: an outstanding ping keeps
\* its timer, a ping that becomes outstanding has just armed it, and no connection begins
\* with one outstanding.
LEMMA PingMoves ==
  ASSUME TypeInv, ClientStep \/ Application \/ Environment
  PROVE  /\ pingOut /\ pingOut' => timer'["ping_timer"] = timer["ping_timer"]
         /\ ~pingOut /\ pingOut' => timer'["ping_timer"] = KeepAlive
         /\ state # "CONNECTED" /\ state' = "CONNECTED" => ~pingOut'
<1> USE DEF client
<1>0. /\ timer \in [Timers -> Nat] /\ KeepAlive \in Nat
      /\ {"last_sent", "last_received", "reconnect_timer", "ping_timer"} \subseteq Timers
  BY Known DEF TypeInv, TimerOK
<1>a. \A t \in {"last_sent", "last_received", "reconnect_timer"} :
        \A d \in Nat : Armed(t, d)["ping_timer"] = timer["ping_timer"]
  BY <1>0 DEF Armed
<1>1. CASE ConnectAnswered
  <2>1. CASE Top.got.ok
    BY <1>1, <2>1 DEF ConnectAnswered
  <2>2. CASE ~Top.got.ok
    <3>1. UNCHANGED <<state, pingOut>>
      BY <1>1, <2>2 DEF ConnectAnswered
    <3>2. UNCHANGED timer \/ BackOff(timer)
      BY <1>1, <2>2 DEF ConnectAnswered
    <3>3. timer'["ping_timer"] = timer["ping_timer"]
      BY <1>0, <3>2 DEF BackOff
    <3> QED BY <3>1, <3>3
  <2> QED BY <2>1, <2>2
<1>2. CASE ReconnectStart \/ SendConnect \/ ConnectUnanswered \/ Resubscribe
  <2>1. UNCHANGED pingOut /\ (state' = "CONNECTED" => state = "CONNECTED")
    BY <1>2 DEF ReconnectStart, SendConnect, ConnectUnanswered, Resubscribe
  <2> DEFINE receiving == Armed("last_received", KeepAlive)
  <2>2. \/ UNCHANGED timer \/ BackOff(timer) \/ BackOff(receiving) \/ timer' = receiving
        \/ timer' = [receiving EXCEPT !["last_sent"] = KeepAlive]
        \/ timer' = Armed("reconnect_timer", 0)
    BY <1>2 DEF ReconnectStart, SendConnect, ConnectUnanswered, Resubscribe
  <2>3. receiving \in [Timers -> Nat] /\ receiving["ping_timer"] = timer["ping_timer"]
    BY <1>0 DEF Armed
  <2> HIDE DEF receiving
  <2>4. timer'["ping_timer"] = timer["ping_timer"]
    BY <1>0, <1>a, <2>2, <2>3 DEF BackOff
  <2> QED BY <2>1, <2>4
<1>3. CASE Keepalive
  <2>1. UNCHANGED state
    BY <1>3 DEF Keepalive
  <2>2. \/ UNCHANGED <<pingOut, timer>>
        \/ ~pingOut /\ timer' = [timer EXCEPT !["ping_timer"] = KeepAlive, !["last_sent"] = KeepAlive]
        \/ ~pingOut /\ UNCHANGED pingOut
    BY <1>3 DEF Keepalive
  <2>3. [timer EXCEPT !["ping_timer"] = KeepAlive, !["last_sent"] = KeepAlive]["ping_timer"] = KeepAlive
    BY <1>0
  <2>4. CASE UNCHANGED <<pingOut, timer>>
    BY <2>1, <2>4
  <2>5. CASE ~pingOut /\ timer' = [timer EXCEPT !["ping_timer"] = KeepAlive, !["last_sent"] = KeepAlive]
    BY <2>1, <2>3, <2>5
  <2>6. CASE ~pingOut /\ UNCHANGED pingOut
    BY <2>1, <2>6
  <2> QED BY <2>2, <2>4, <2>5, <2>6
<1>4. CASE ReadPacket \/ ReadNothing \/ ReadError \/ Acknowledge
  <2>1. UNCHANGED state /\ (pingOut' => pingOut)
    <3>1. CASE ReadPacket
      <4>1. UNCHANGED state /\ \E p : pingOut' = IF p THEN FALSE ELSE pingOut
        BY <3>1 DEF ReadPacket
      <4> QED BY <4>1
    <3>2. CASE ReadNothing \/ ReadError \/ Acknowledge
      <4>1. UNCHANGED <<state, pingOut>>
        BY <3>2 DEF ReadNothing, ReadError, Acknowledge
      <4> QED BY <4>1
    <3> QED BY <1>4, <3>1, <3>2
  <2>2. UNCHANGED timer \/ \E t \in {"last_sent", "last_received"} : timer' = Armed(t, KeepAlive)
    BY <1>4 DEF ReadPacket, ReadNothing, ReadError, Acknowledge
  <2> QED BY <1>0, <1>a, <2>1, <2>2
<1>5. CASE CycleFailed
  BY <1>5 DEF CycleFailed, CloseConnection
<1>6. CASE RequestExit \/ UserDisconnect
  <2>1. Disconnect
    BY <1>6 DEF RequestExit, UserDisconnect
  <2>2. (pingOut' => pingOut) /\ (state' = "CONNECTED" => state = "CONNECTED")
    BY <2>1 DEF Disconnect, CloseConnection
  <2>3. UNCHANGED timer \/ timer' = Armed("last_sent", KeepAlive)
    BY <2>1 DEF Disconnect, CloseConnection
  <2> QED BY <1>0, <1>a, <2>2, <2>3
<1>7. CASE SendRequest
  <2>1. UNCHANGED <<state, pingOut>>
    BY <1>7 DEF SendRequest
  <2>2. UNCHANGED timer \/ timer' = Armed("last_sent", KeepAlive)
    BY <1>7 DEF SendRequest
  <2> QED BY <1>0, <1>a, <2>1, <2>2
<1>8. CASE \/ HandlerReturns \/ CheckConnection \/ ConnectionChecked \/ RequestAnswered
           \/ RequestUnanswered \/ RequestExited \/ YieldLoop \/ YieldReconnected \/ YieldReturns
  <2>1. UNCHANGED <<state, pingOut, timer>>
    BY <1>8 DEF HandlerReturns, CheckConnection, ConnectionChecked, RequestAnswered,
                RequestUnanswered, RequestExited, YieldLoop, YieldReconnected, YieldReturns
  <2> QED BY <2>1
<1>9. CASE Environment \/ Publish \/ Subscribe \/ Unsubscribe \/ Yield \/ SetAutoReconnect \/ Destroy
  <2>1. UNCHANGED <<state, pingOut, timer>>
    BY <1>9 DEF Environment, NetReset, NetMute, Fault, BrokerPublish, Stabilise,
                Publish, Subscribe, Unsubscribe, Yield, Enter, SetAutoReconnect, Destroy
  <2> QED BY <2>1
<1> QED BY <1>1, <1>2, <1>3, <1>4, <1>5, <1>6, <1>7, <1>8, <1>9 DEF ClientStep, Application

\* The ping that is outstanding on a connection went out on it, and its timer has run from then on.
PingInv ==
  /\ since \in 0..KeepAlive \cup {Never}
  /\ state = "CONNECTED" /\ pingOut =>
       since \in Nat /\ since + timer["ping_timer"] >= KeepAlive

LEMMA PingStep ==
  ASSUME TypeInv, PingInv, [PingNext]_<<vars, since>>
  PROVE  PingInv'
<1>0. /\ timer["ping_timer"] \in Nat /\ KeepAlive \in Nat /\ Never = -1
      /\ "ping_timer" \in Timers
  BY Known DEF TypeInv, TimerOK, Never
<1>1. CASE /\ Elapse
           /\ since' = IF since \in 0..KeepAlive - 1 THEN since + 1 ELSE since
  <2>1. UNCHANGED <<state, pingOut>>
    BY <1>1 DEF Elapse, client
  <2>2. timer'["ping_timer"] = Ticked(timer["ping_timer"])
    BY <1>0, <1>1 DEF Elapse
  <2>3. timer'["ping_timer"] \in Nat /\ timer'["ping_timer"] >= timer["ping_timer"] - 1
    BY <1>0, <2>2 DEF Ticked
  <2>4. since' \in 0..KeepAlive \cup {Never}
    BY <1>0, <1>1 DEF PingInv
  <2>5. since \in Nat => since' \in Nat /\ (since' = since + 1 \/ since' = KeepAlive)
    BY <1>0, <1>1 DEF PingInv
  <2>6. ASSUME since \in Nat, since + timer["ping_timer"] >= KeepAlive
        PROVE  since' + timer'["ping_timer"] >= KeepAlive
    BY <1>0, <2>3, <2>5, <2>6
  <2> QED BY <2>1, <2>4, <2>5, <2>6 DEF PingInv
<1>2. CASE /\ ClientStep \/ Application \/ Environment
           /\ since' = IF state # "CONNECTED" /\ state' = "CONNECTED" THEN Never
                       ELSE IF ~pingOut /\ pingOut' THEN 0
                       ELSE since
  <2>1. since' \in 0..KeepAlive \cup {Never}
    BY <1>0, <1>2 DEF PingInv
  <2>2. ASSUME state' = "CONNECTED", pingOut'
        PROVE  since' \in Nat /\ since' + timer'["ping_timer"] >= KeepAlive
    <3>1. state = "CONNECTED"
      BY <1>2, <2>2, PingMoves
    <3>2. CASE pingOut
      <4>1. since' = since /\ timer'["ping_timer"] = timer["ping_timer"]
        BY <1>2, <2>2, <3>1, <3>2, PingMoves
      <4> QED BY <3>1, <3>2, <4>1 DEF PingInv
    <3>3. CASE ~pingOut
      <4>1. since' = 0 /\ timer'["ping_timer"] = KeepAlive
        BY <1>2, <2>2, <3>1, <3>3, PingMoves
      <4> QED BY <1>0, <4>1
    <3> QED BY <3>2, <3>3
  <2> QED BY <2>1, <2>2 DEF PingInv
<1>3. CASE UNCHANGED <<vars, since>>
  BY <1>3 DEF PingInv, vars, client
<1> QED BY <1>1, <1>2, <1>3 DEF PingNext

\* The keep-alive gives a connection up only for a PINGREQ sent on that very connection after
\* its CONNACK, and only when it has been out for a whole keep-alive interval: the flag that an
\* earlier connection or the handshake left behind never makes the first keep-alive fail.
THEOREM PingsHaveTheirTime == PingSpec => []PingHasItsTime
<1>1. PingInit => Init /\ PingInv
  BY Known DEF PingInit, PingInv, Init, Never
<1>2. [PingNext]_<<vars, since>> => [Next]_vars
  BY DEF PingNext, Next, vars
<1>3. PingSpec => Spec
  BY <1>1, <1>2, PTL DEF PingSpec, Spec
<1>4. TypeInv /\ PingInv /\ [PingNext]_<<vars, since>> => PingInv'
  BY PingStep
<1>5. PingSpec => [](TypeInv /\ PingInv)
  BY <1>1, <1>3, <1>4, TypeInvHolds, PTL DEF PingSpec
<1>6. TypeInv /\ PingInv => PingHasItsTime
  <2> SUFFICES ASSUME TypeInv, PingInv, state = "CONNECTED", KeepaliveDue, pingOut
               PROVE  since >= KeepAlive
    BY DEF PingHasItsTime
  <2>1. timer["ping_timer"] = 0 /\ KeepAlive \in Nat
    BY Known DEF KeepaliveDue
  <2>2. since \in Nat /\ since + timer["ping_timer"] >= KeepAlive
    BY DEF PingInv
  <2> QED BY <2>1, <2>2
<1> QED BY <1>5, <1>6, PTL

(***************************************************************************)
(* The requests and the answers to them, for an application whose message  *)
(* handlers do not call the API again.  Every call then waits at a fixed   *)
(* point while the one it made runs, so that what the innermost call and   *)
(* its caller are doing tells which packets can be on their way to the     *)
(* client.                                                                 *)
(***************************************************************************)

Requests == {"publish", "subscribe", "unsubscribe"}
Connecting == {"connect", "reconnect"}
Cycle == {"read", "ack", "deliver", "post", "cycleFailed"}
Acks == {"PUBACK", "PUBREC", "PUBCOMP", "SUBACK", "UNSUBACK"}

\* The innermost call and the call that waits for it.
Cur == IF sp = 0 THEN NoCall ELSE stk[sp]
Parent == IF sp < 2 THEN NoCall ELSE stk[sp - 1]

\* The program points of every function, and what its frame says of its answer.
AtOwnPoint(f) ==
  /\ f.fn = "connect" => f.pc \in {"connect", "answered", "unanswered"} \cup Cycle
  /\ f.fn = "reconnect" =>
       f.pc \in {"start", "connect", "resubscribe", "answered", "unanswered"} \cup Cycle
  /\ f.fn = "yield" => f.pc \in {"loop", "reconnected", "sleep"} \cup Cycle
  /\ f.fn \in Requests =>
       f.pc \in {"check", "checked", "send", "exit", "exited", "answered", "unanswered"}
                \cup Cycle
AwaitsOwnAnswer(f) ==
  /\ f.fn \in Connecting => f.want = "CONNACK" /\ (f.pc # "resubscribe" => f.slot = 1)
  /\ f.fn \in Requests => f.want \in {"NONE", "PUBACK", "PUBCOMP", "SUBACK", "UNSUBACK"}
  /\ f.fn = "subscribe" => f.want = "SUBACK"
  /\ f.fn = "unsubscribe" => f.want = "UNSUBACK"
  /\ f.fn \in Requests /\ f.want = "NONE" =>
       /\ f.fn = "publish" /\ f.qos = 0
       /\ f.pc \in {"check", "checked", "send", "exit", "exited"}
  /\ f.fn = "publish" => (f.want = "NONE" <=> f.qos = 0)
  /\ f.fn = "yield" => f.want = "NONE"
HoldsItsPacket(f) ==
  /\ f.pc = "deliver" => f.got.type = "PUBLISH"
  /\ f.pc = "ack" => NeedsAck(f.got)
  /\ f.pc = "answered" => f.got.type = f.want
Formed(f) ==
  f.fn \in Requests \cup Connecting \cup {"yield"}
    /\ AtOwnPoint(f) /\ AwaitsOwnAnswer(f) /\ HoldsItsPacket(f)

Nests(f, g) ==
  /\ f.pc \in {"checked", "exited", "resubscribe", "reconnected"}
  /\ g.fn = IF f.fn = "reconnect" THEN "subscribe" ELSE "reconnect"

ShapeInv == \A k \in 1..sp : Formed(stk[k]) /\ (k < sp => Nests(stk[k], stk[k + 1]))

(***************************************************************************)
(* How the innermost call moves                                            *)
(***************************************************************************)

\* g is f at program point p.
Advanced(f, g, p) ==
  /\ g \in ProperFrames /\ g.pc = p
  /\ g.fn = f.fn /\ g.topic = f.topic /\ g.want = f.want /\ g.qos = f.qos
  /\ g.got = f.got /\ g.pid = f.pid /\ g.slot = f.slot

MovesTo(p) == ShapeInv' /\ Advanced(Cur, Cur', p) /\ Parent' = Parent
Enters(g) == ShapeInv' /\ Cur' = g
Returns == ShapeInv' /\ Cur' = Parent

LEMMA NoCallFields ==
  /\ NoCall.fn = "none" /\ NoCall.pc = "none" /\ NoCall.topic = NoTopic
  /\ NoCall.got.type = "NONE" /\ NoCall.want = "NONE" /\ NoCall.slot = 1
BY DEF NoCall, Frame, NoPacket, Packet

LEMMA HandleReconnectFields ==
  /\ HandleReconnect.fn = "reconnect" /\ HandleReconnect.pc = "start"
  /\ HandleReconnect.want = "CONNACK" /\ HandleReconnect.slot = 1
BY DEF HandleReconnect, Frame

LEMMA ReconnectFormed == Formed(HandleReconnect)
<1> HIDE DEF HandleReconnect
<1> QED BY HandleReconnectFields DEF Formed, AtOwnPoint, AwaitsOwnAnswer, HoldsItsPacket,
           Requests, Connecting, Cycle

LEMMA Calling ==
  ASSUME TypeInv, ShapeInv
  PROVE  /\ Cur \in ProperFrames /\ Parent \in ProperFrames
         /\ sp > 0 => Cur = Top /\ Formed(Cur)
         /\ sp = 0 => Cur = NoCall /\ Parent = NoCall
         /\ Parent = NoCall \/ (sp > 1 /\ Formed(Parent) /\ Nests(Parent, Cur))
<1>1. sp \in 0..MaxDepth /\ MaxDepth \in Nat /\ stk \in [1..MaxDepth -> ProperFrames]
  BY BoundsAssumption DEF TypeInv, CallsOK
<1>2. sp > 0 => Cur = Top /\ Formed(Cur) /\ Cur \in ProperFrames
  BY <1>1 DEF Cur, Top, ShapeInv
<1>3. sp = 0 => Cur = NoCall /\ Parent = NoCall
  BY DEF Cur, Parent
<1>4. sp < 2 => Parent = NoCall
  BY DEF Parent
<1>5. sp >= 2 => Parent \in ProperFrames /\ Formed(Parent) /\ Nests(Parent, Cur)
  <2> SUFFICES ASSUME sp >= 2 PROVE Parent \in ProperFrames /\ Formed(Parent) /\ Nests(Parent, Cur)
    OBVIOUS
  <2>1. Parent = stk[sp - 1] /\ Cur = stk[sp - 1 + 1] /\ sp - 1 \in 1..sp /\ sp - 1 < sp
    BY <1>1 DEF Parent, Cur
  <2>2. Parent \in ProperFrames
    BY <1>1, <2>1
  <2> QED BY <2>1, <2>2 DEF ShapeInv
<1> QED BY <1>1, <1>2, <1>3, <1>4, <1>5, FixedFrames

LEMMA Running ==
  ASSUME TypeInv, ShapeInv, Cur.fn # "none"
  PROVE  sp > 0 /\ Cur = Top /\ Cur \in ProperFrames /\ Formed(Cur)
<1>1. sp \in 0..MaxDepth
  BY DEF TypeInv, CallsOK
<1>2. sp # 0
  BY Calling, NoCallFields
<1> QED BY <1>1, <1>2, Calling

\* The caller waits where the code makes the call.
LEMMA Waiting ==
  ASSUME TypeInv, ShapeInv
  PROVE  /\ Parent.pc \in {"none", "checked", "exited", "resubscribe", "reconnected"}
         /\ Parent.fn = "none" => Parent = NoCall
         /\ Parent.fn # "none" => Nests(Parent, Cur) /\ Formed(Parent)
         /\ Cur.fn \in {"publish", "unsubscribe", "yield", "connect", "none"} => Parent = NoCall
         /\ Cur.fn = "subscribe" /\ Parent # NoCall =>
              Parent.fn = "reconnect" /\ Parent.pc = "resubscribe"
         /\ Cur.fn = "reconnect" => Parent.fn \notin Connecting
         /\ Parent.fn \in Connecting => Parent.pc = "resubscribe"
BY Calling, NoCallFields
   DEF Nests, Formed, AtOwnPoint, Requests, Connecting, Cycle

LEMMA GoesOn ==
  ASSUME TypeInv, ShapeInv, sp > 0, NEW f \in ProperFrames, Goto(f), Formed(f), f.fn = Cur.fn
  PROVE  ShapeInv' /\ Cur' = f /\ Parent' = Parent
<1>1. /\ sp' = sp /\ stk'[sp] = f /\ sp \in 1..sp
      /\ \A k \in 1..sp : k < sp => stk'[k] = stk[k]
  BY BoundsAssumption DEF Goto, TypeInv, CallsOK
<1>2. \A k \in 1..sp : k = sp \/ k < sp
  BY DEF TypeInv, CallsOK
<1>3. Cur = stk[sp]
  BY DEF Cur
<1>4. \A k \in 1..sp : k < sp => k + 1 \in 1..sp /\ Nests(stk[k], stk[k + 1])
  BY DEF TypeInv, CallsOK, ShapeInv
<1>5. ASSUME NEW k \in 1..sp, k < sp PROVE Nests(stk'[k], stk'[k + 1])
  <2>1. stk'[k] = stk[k] /\ stk'[k + 1].fn = stk[k + 1].fn
    BY <1>1, <1>2, <1>3, <1>4, <1>5
  <2> QED BY <1>4, <1>5, <2>1 DEF Nests
<1>6. ShapeInv'
  <2>1. \A k \in 1..sp : Formed(stk'[k])
    BY <1>1, <1>2 DEF ShapeInv
  <2> QED BY <1>1, <1>5, <2>1 DEF ShapeInv
<1>7. Cur' = f
  BY <1>1 DEF Cur
<1>8. Parent' = Parent
  BY <1>1 DEF Parent, TypeInv, CallsOK
<1> QED BY <1>6, <1>7, <1>8

LEMMA CallsIn ==
  ASSUME TypeInv, ShapeInv, sp > 0, NEW f \in ProperFrames, NEW g \in ProperFrames,
         Invoke(f, g), Formed(f), Formed(g), f.fn = Cur.fn, Nests(f, g)
  PROVE  ShapeInv' /\ Cur' = g /\ Parent' = f
<1>1. /\ sp' = sp + 1 /\ stk'[sp] = f /\ stk'[sp + 1] = g /\ sp \in 1..sp
      /\ \A k \in 1..sp : k < sp => stk'[k] = stk[k]
  BY BoundsAssumption DEF Invoke, TypeInv, CallsOK
<1>2. \A k \in 1..sp : k = sp \/ k < sp
  BY DEF TypeInv, CallsOK
<1>3. Cur = stk[sp]
  BY DEF Cur
<1>4. \A k \in 1..sp : k < sp => k + 1 \in 1..sp /\ Nests(stk[k], stk[k + 1])
  BY DEF TypeInv, CallsOK, ShapeInv
<1>5. ASSUME NEW k \in 1..sp PROVE Nests(stk'[k], stk'[k + 1]) /\ Formed(stk'[k])
  <2>1. CASE k = sp
    BY <1>1, <2>1
  <2>2. CASE k < sp
    <3>1. stk'[k] = stk[k] /\ stk'[k + 1].fn = stk[k + 1].fn
      BY <1>1, <1>2, <1>3, <1>4, <2>2
    <3> QED BY <1>4, <2>2, <3>1 DEF Nests, ShapeInv
  <2> QED BY <1>2, <2>1, <2>2
<1>6. \A k \in 1..sp' : k = sp + 1 \/ k \in 1..sp
  BY <1>1 DEF TypeInv, CallsOK
<1>7. \A k \in 1..sp' : Formed(stk'[k])
  BY <1>1, <1>5, <1>6
<1>8. \A k \in 1..sp' : k < sp' => Nests(stk'[k], stk'[k + 1])
  BY <1>1, <1>5, <1>6 DEF TypeInv, CallsOK
<1>9. ShapeInv'
  BY <1>7, <1>8 DEF ShapeInv
<1>10. Cur' = g /\ Parent' = f
  BY <1>1 DEF Cur, Parent, TypeInv, CallsOK
<1> QED BY <1>9, <1>10

LEMMA CallsOut ==
  ASSUME TypeInv, ShapeInv, sp > 0, NEW c, Return(c) PROVE Returns
<1>1. /\ sp' = sp - 1 /\ sp' \in Nat
      /\ \A k \in 1..sp' : stk'[k] = stk[k] /\ k \in 1..sp /\ k < sp
  BY BoundsAssumption DEF Return, TypeInv, CallsOK
<1>2. \A k \in 1..sp' : k < sp' => k + 1 \in 1..sp'
  BY <1>1
<1>3. ShapeInv'
  BY <1>1, <1>2 DEF ShapeInv
<1>4. Cur' = Parent
  BY <1>1 DEF Cur, Parent, TypeInv, CallsOK
<1> QED BY <1>3, <1>4 DEF Returns

LEMMA CallsStay ==
  ASSUME ShapeInv, UNCHANGED calls PROVE ShapeInv' /\ Cur' = Cur /\ Parent' = Parent
BY DEF ShapeInv, calls, Cur, Parent, Formed, AtOwnPoint, AwaitsOwnAnswer, HoldsItsPacket, Nests

LEMMA Edits ==
  ASSUME NEW f \in ProperFrames, NEW p \in Points
  PROVE  /\ Advanced(f, [f EXCEPT !.pc = p], p)
         /\ \A r \in Codes : Advanced(f, [f EXCEPT !.pc = p, !.rc = r], p)
         /\ \A t \in Nat : Advanced(f, [f EXCEPT !.pc = p, !.tmr = t], p)
<1>1. f \in Frames
  BY DEF ProperFrames
<1>2. ASSUME NEW g, g = [f EXCEPT !.pc = p] PROVE Advanced(f, g, p)
  <2>1. g \in ProperFrames
    BY <1>2, FrameUpdate
  <2> QED BY <1>1, <1>2, <2>1 DEF Advanced, Frames
<1>3. ASSUME NEW r \in Codes, NEW g, g = [f EXCEPT !.pc = p, !.rc = r] PROVE Advanced(f, g, p)
  <2>1. g \in ProperFrames
    BY <1>3, FrameUpdate
  <2> QED BY <1>1, <1>3, <2>1 DEF Advanced, Frames
<1>4. ASSUME NEW t \in Nat, NEW g, g = [f EXCEPT !.pc = p, !.tmr = t] PROVE Advanced(f, g, p)
  <2>1. g \in ProperFrames
    BY <1>4, FrameUpdate
  <2> QED BY <1>1, <1>4, <2>1 DEF Advanced, Frames
<1> QED BY <1>2, <1>3, <1>4

LEMMA Advances ==
  ASSUME TypeInv, ShapeInv, sp > 0, NEW p, NEW g, Advanced(Cur, g, p), Goto(g), Formed(g)
  PROVE  MovesTo(p)
<1>1. g \in ProperFrames /\ g.fn = Cur.fn
  BY DEF Advanced
<1>2. ShapeInv' /\ Cur' = g /\ Parent' = Parent
  BY <1>1, GoesOn
<1> QED BY <1>2 DEF MovesTo

LEMMA Runs ==
  ASSUME TypeInv, ShapeInv, NEW p \in Points, At(p)
  PROVE  sp > 0 /\ Cur = Top /\ Cur.pc = p /\ Cur \in ProperFrames /\ Formed(Cur)
BY AtTop, Calling

LEMMA StringsDiffer ==
  /\ Requests \cap Connecting = {} /\ "yield" \notin Requests \cup Connecting
  /\ "none" \notin Requests \cup Connecting
BY DEF Requests, Connecting

\* The moves of every action of the client.
LEMMA HandlerReturnsMoves ==
  ASSUME TypeInv, ShapeInv, HandlerReturns
  PROVE  Cur.pc = "deliver" /\ Cur.got.type = "PUBLISH" /\ MovesTo("post")
<1>1. sp > 0 /\ Cur = Top /\ Cur.pc = "deliver" /\ Cur \in ProperFrames /\ Formed(Cur)
  BY Runs, Known DEF HandlerReturns
<1> DEFINE g == [Cur EXCEPT !.pc = "post"]
<1>2. Advanced(Cur, g, "post")
  BY <1>1, Edits, Known
<1>3. Goto(g)
  BY <1>1 DEF HandlerReturns
<1> HIDE DEF g
<1>4. Formed(g)
  BY <1>1, <1>2 DEF Formed, AtOwnPoint, AwaitsOwnAnswer, HoldsItsPacket, Requests, Connecting,
                    Cycle, Advanced
<1> QED BY <1>1, <1>2, <1>3, <1>4, Advances DEF Formed, HoldsItsPacket

LEMMA CheckConnectionMoves ==
  ASSUME TypeInv, ShapeInv, CheckConnection
  PROVE  /\ Cur.pc = "check" /\ Cur.fn \in Requests
         /\ \/ state = "CONNECTED" /\ MovesTo("send")
            \/ state # "CONNECTED" /\ Enters(HandleReconnect)
            \/ state # "CONNECTED" /\ Returns
<1>1. sp > 0 /\ Cur = Top /\ Cur.pc = "check" /\ Cur \in ProperFrames /\ Formed(Cur)
  BY Runs, Known DEF CheckConnection
<1>2. Cur.fn \in Requests
  BY <1>1 DEF Formed, AtOwnPoint, Connecting, Cycle
<1>3. ASSUME Goto([Cur EXCEPT !.pc = "send"]) PROVE MovesTo("send")
  <2> DEFINE g == [Cur EXCEPT !.pc = "send"]
  <2>1. Advanced(Cur, g, "send")
    BY <1>1, Edits, Known
  <2>2. Goto(g)
    BY <1>3
  <2> HIDE DEF g
  <2>3. Formed(g)
    BY <1>1, <1>2, <2>1 DEF Formed, AtOwnPoint, AwaitsOwnAnswer, HoldsItsPacket, Requests,
                            Connecting, Cycle, Advanced
  <2> QED BY <1>1, <2>1, <2>2, <2>3, Advances
<1>4. ASSUME Invoke([Cur EXCEPT !.pc = "checked"], HandleReconnect) PROVE Enters(HandleReconnect)
  <2> DEFINE g == [Cur EXCEPT !.pc = "checked"]
  <2>1. Advanced(Cur, g, "checked")
    BY <1>1, Edits, Known
  <2>2. Invoke(g, HandleReconnect)
    BY <1>4
  <2> HIDE DEF g, HandleReconnect
  <2>3. Formed(g)
    BY <1>1, <1>2, <2>1 DEF Formed, AtOwnPoint, AwaitsOwnAnswer, HoldsItsPacket, Requests,
                            Connecting, Cycle, Advanced
  <2>4. Nests(g, HandleReconnect) /\ g \in ProperFrames /\ g.fn = Cur.fn
    BY <1>2, <2>1, HandleReconnectFields DEF Nests, Advanced, Requests
  <2> QED BY <1>1, <2>2, <2>3, <2>4, CallsIn, ReconnectFormed, FixedFrames DEF Enters
<1> QED BY <1>1, <1>2, <1>3, <1>4, CallsOut DEF CheckConnection

LEMMA ConnectionCheckedMoves ==
  ASSUME TypeInv, ShapeInv, ConnectionChecked
  PROVE  /\ Cur.pc = "checked" /\ Cur.fn \in Requests
         /\ MovesTo("send") \/ Returns
<1>1. sp > 0 /\ Cur = Top /\ Cur.pc = "checked" /\ Cur \in ProperFrames /\ Formed(Cur)
  BY Runs, Known DEF ConnectionChecked
<1>2. Cur.fn \in Requests
  BY <1>1 DEF Formed, AtOwnPoint, Connecting, Cycle
<1>3. ASSUME Goto([Cur EXCEPT !.pc = "send"]) PROVE MovesTo("send")
  <2> DEFINE g == [Cur EXCEPT !.pc = "send"]
  <2>1. Advanced(Cur, g, "send")
    BY <1>1, Edits, Known
  <2>2. Goto(g)
    BY <1>3
  <2> HIDE DEF g
  <2>3. Formed(g)
    BY <1>1, <1>2, <2>1 DEF Formed, AtOwnPoint, AwaitsOwnAnswer, HoldsItsPacket, Requests,
                            Connecting, Cycle, Advanced
  <2> QED BY <1>1, <2>1, <2>2, <2>3, Advances
<1> QED BY <1>1, <1>2, <1>3, CallsOut DEF ConnectionChecked

LEMMA SendRequestMoves ==
  ASSUME TypeInv, ShapeInv, SendRequest
  PROVE  /\ Cur.pc = "send" /\ Cur.fn \in Requests /\ Cur = Top
         /\ \/ /\ SendFails /\ MovesTo("exit") /\ UNCHANGED handlers
            \/ /\ Cur.fn = "publish" /\ Cur.qos = 0 /\ Returns /\ UNCHANGED handlers
               /\ Sent(RequestReceived(0))
            \/ \E id \in 1..MaxPacketId :
                 /\ Sent(RequestReceived(id)) /\ ShapeInv'
                 /\ handlers' = IF Cur.fn = "subscribe" THEN Registered(Cur.topic) ELSE handlers
                 /\ Cur'.fn = Cur.fn /\ Cur'.pc = "read" /\ Cur'.topic = Cur.topic
                 /\ Cur'.qos = Cur.qos /\ Cur'.want = Cur.want /\ Cur'.pid = id
                 /\ Cur.fn = "publish" => Cur.qos # 0
                 /\ Parent' = Parent
<1>1. sp > 0 /\ Cur = Top /\ Cur.pc = "send" /\ Cur \in ProperFrames /\ Formed(Cur)
  BY Runs, Known DEF SendRequest
<1>2. Cur.fn \in Requests
  BY <1>1 DEF Formed, AtOwnPoint, Connecting, Cycle
<1> DEFINE id == IF Top.fn = "publish" /\ Top.qos = 0 THEN 0 ELSE NextPackId
<1>3. ASSUME Goto([Cur EXCEPT !.pc = "exit"]) PROVE MovesTo("exit")
  <2> DEFINE g == [Cur EXCEPT !.pc = "exit"]
  <2>1. Advanced(Cur, g, "exit")
    BY <1>1, Edits, Known
  <2>2. Goto(g)
    BY <1>3
  <2> HIDE DEF g
  <2>3. Formed(g)
    BY <1>1, <1>2, <2>1 DEF Formed, AtOwnPoint, AwaitsOwnAnswer, HoldsItsPacket, Requests,
                            Connecting, Cycle, Advanced
  <2> QED BY <1>1, <2>1, <2>2, <2>3, Advances
<1>4. ASSUME Top.want # "NONE", Sent(RequestReceived(id)),
             Goto([Cur EXCEPT !.pc = "read", !.tmr = CommandTimeout, !.pid = id]),
             handlers' = IF Top.fn = "subscribe" THEN Registered(Top.topic) ELSE handlers,
             Cur.fn = "publish" => Cur.qos # 0
      PROVE  \E n \in 1..MaxPacketId :
                 /\ Sent(RequestReceived(n)) /\ ShapeInv'
                 /\ handlers' = IF Cur.fn = "subscribe" THEN Registered(Cur.topic) ELSE handlers
                 /\ Cur'.fn = Cur.fn /\ Cur'.pc = "read" /\ Cur'.topic = Cur.topic
                 /\ Cur'.qos = Cur.qos /\ Cur'.want = Cur.want /\ Cur'.pid = n
                 /\ Cur.fn = "publish" => Cur.qos # 0
                 /\ Parent' = Parent
  <2> DEFINE g == [Cur EXCEPT !.pc = "read", !.tmr = CommandTimeout, !.pid = id]
  <2>1. id = NextPackId /\ NextPackId \in 1..MaxPacketId /\ id \in 0..MaxPacketId
    BY <1>1, <1>4, NextPackIdOK DEF TypeInv, ClientOK
  <2> HIDE DEF id
  <2>2. /\ g \in ProperFrames /\ g.fn = Cur.fn /\ g.pc = "read" /\ g.topic = Cur.topic
        /\ g.qos = Cur.qos /\ g.want = Cur.want /\ g.pid = id /\ g.slot = Cur.slot
        /\ g.got = Cur.got
    <3>1. g \in ProperFrames
      BY <1>1, <2>1, FrameUpdate, Known
    <3>2. Cur \in Frames
      BY <1>1 DEF ProperFrames
    <3> QED BY <3>1, <3>2 DEF Frames
  <2>3. Goto(g)
    BY <1>4
  <2> HIDE DEF g
  <2>4. Formed(g)
    BY <1>1, <1>2, <1>4, <2>2 DEF Formed, AtOwnPoint, AwaitsOwnAnswer, HoldsItsPacket, Requests,
                            Connecting, Cycle
  <2>5. ShapeInv' /\ Cur' = g /\ Parent' = Parent
    BY <1>1, <2>2, <2>3, <2>4, GoesOn
  <2> QED BY <1>1, <1>4, <2>1, <2>2, <2>5
<1>5. Top.want = "NONE" => Top.fn = "publish" /\ Top.qos = 0
  BY <1>1, <1>2 DEF Formed, AwaitsOwnAnswer
<1>6. CASE /\ Sent(RequestReceived(id))
           /\ handlers' = IF Top.fn = "subscribe" THEN Registered(Top.topic) ELSE handlers
           /\ IF Top.want = "NONE"
              THEN Return("SUCCESS")
              ELSE Goto([Top EXCEPT !.pc = "read", !.tmr = CommandTimeout, !.pid = id])
  <2>1. CASE Top.want = "NONE"
    <3>1. id = 0 /\ Returns
      BY <1>1, <1>5, <1>6, <2>1, CallsOut
    <3> QED BY <1>1, <1>2, <1>5, <1>6, <2>1, <3>1
  <2>2. CASE Top.want # "NONE"
    <3>1. ~(Cur.fn = "publish" /\ Cur.qos = 0)
      BY <1>1, <2>2 DEF Formed, AwaitsOwnAnswer
    <3> QED BY <1>1, <1>2, <1>4, <1>6, <2>2, <3>1
  <2> QED BY <2>1, <2>2
<1> QED BY <1>1, <1>2, <1>3, <1>6 DEF SendRequest

\* A step that only moves the innermost call to a point its function has.
LEMMA Edited ==
  ASSUME TypeInv, ShapeInv, sp > 0, NEW p \in Points,
         \/ Goto([Top EXCEPT !.pc = p])
         \/ \E r \in Codes : Goto([Top EXCEPT !.pc = p, !.rc = r])
         \/ \E t \in Nat : Goto([Top EXCEPT !.pc = p, !.tmr = t]),
         \A g : Advanced(Cur, g, p) => Formed(g)
  PROVE  MovesTo(p)
<1>1. Cur = Top /\ Cur \in ProperFrames
  BY Calling
<1>2. PICK g : Advanced(Cur, g, p) /\ Goto(g)
  BY <1>1, Edits
<1> QED BY <1>2, Advances

LEMMA RequestEndMoves ==
  ASSUME TypeInv, ShapeInv
  PROVE  /\ RequestAnswered =>
              /\ Cur.pc = "answered" /\ Cur.fn \in Requests /\ Cur.got.type = Cur.want
              /\ Cur = Top /\ Returns
         /\ RequestUnanswered =>
              Cur.pc = "unanswered" /\ Cur.fn \in Requests /\ Cur = Top /\ MovesTo("exit")
         /\ RequestExit =>
              Cur.pc = "exit" /\ Cur.fn \in Requests /\ Enters(HandleReconnect)
         /\ RequestExited =>
              Cur.pc = "exited" /\ Cur.fn \in Requests /\ Returns
<1>1. ASSUME RequestAnswered
      PROVE  /\ Cur.pc = "answered" /\ Cur.fn \in Requests /\ Cur.got.type = Cur.want
             /\ Cur = Top /\ Returns
  <2>1. sp > 0 /\ Cur = Top /\ Cur.pc = "answered" /\ Formed(Cur)
    BY <1>1, Runs, Known DEF RequestAnswered
  <2>2. Returns
    BY <1>1, <2>1, CallsOut DEF RequestAnswered
  <2> QED BY <1>1, <2>1, <2>2 DEF RequestAnswered, Formed, HoldsItsPacket, Requests
<1>2. ASSUME RequestUnanswered
      PROVE  Cur.pc = "unanswered" /\ Cur.fn \in Requests /\ Cur = Top /\ MovesTo("exit")
  <2>1. sp > 0 /\ Cur = Top /\ Cur.pc = "unanswered" /\ Formed(Cur)
    BY <1>2, Runs, Known DEF RequestUnanswered
  <2>2. Cur.fn \in Requests
    BY <1>2, <2>1 DEF RequestUnanswered, Requests
  <2>3. \A g : Advanced(Cur, g, "exit") => Formed(g)
    BY <2>1, <2>2 DEF Formed, AtOwnPoint, AwaitsOwnAnswer, HoldsItsPacket, Requests,
                      Connecting, Cycle, Advanced
  <2> QED BY <1>2, <2>1, <2>2, <2>3, Edited, Known DEF RequestUnanswered
<1>3. ASSUME RequestExit
      PROVE  Cur.pc = "exit" /\ Cur.fn \in Requests /\ Enters(HandleReconnect)
  <2>1. sp > 0 /\ Cur = Top /\ Cur.pc = "exit" /\ Cur \in ProperFrames /\ Formed(Cur)
    BY <1>3, Runs, Known DEF RequestExit
  <2>2. Cur.fn \in Requests
    BY <2>1 DEF Formed, AtOwnPoint, Connecting, Cycle
  <2> DEFINE g == [Cur EXCEPT !.pc = "exited"]
  <2>3. Advanced(Cur, g, "exited")
    BY <2>1, Edits, Known
  <2>4. Invoke(g, HandleReconnect)
    BY <1>3, <2>1 DEF RequestExit
  <2> HIDE DEF g, HandleReconnect
  <2>5. Formed(g)
    BY <2>1, <2>2, <2>3 DEF Formed, AtOwnPoint, AwaitsOwnAnswer, HoldsItsPacket, Requests,
                            Connecting, Cycle, Advanced
  <2>6. Nests(g, HandleReconnect) /\ g \in ProperFrames /\ g.fn = Cur.fn
    BY <2>2, <2>3, HandleReconnectFields DEF Nests, Advanced, Requests
  <2> QED BY <2>1, <2>2, <2>4, <2>5, <2>6, CallsIn, ReconnectFormed, FixedFrames DEF Enters
<1>4. ASSUME RequestExited
      PROVE  Cur.pc = "exited" /\ Cur.fn \in Requests /\ Returns
  <2>1. sp > 0 /\ Cur = Top /\ Cur.pc = "exited" /\ Formed(Cur)
    BY <1>4, Runs, Known DEF RequestExited
  <2>2. Cur.fn \in Requests
    BY <2>1 DEF Formed, AtOwnPoint, Connecting, Cycle
  <2> QED BY <1>4, <2>1, <2>2, CallsOut DEF RequestExited
<1> QED BY <1>1, <1>2, <1>3, <1>4

LEMMA ConnectMoves ==
  ASSUME TypeInv, ShapeInv
  PROVE  /\ ReconnectStart =>
              /\ Cur.pc = "start" /\ Cur.fn = "reconnect"
              /\ \/ state' = state /\ Returns
                 \/ MovesTo("connect")
         /\ SendConnect =>
              /\ Cur.pc = "connect" /\ Cur.fn \in Connecting
              /\ \/ Sent(BrokerConnect) /\ MovesTo("read")
                    /\ connects' = IF connects = 0 THEN 1 ELSE 2
                 \/ SendFails /\ UNCHANGED connects /\ Returns
         /\ ConnectAnswered =>
              /\ Cur.pc = "answered" /\ Cur.fn \in Connecting
              /\ \/ Cur.fn = "reconnect" /\ state' = "CONNECTED" /\ MovesTo("resubscribe")
                 \/ Cur.fn = "connect" /\ state' = "CONNECTED" /\ Returns
                 \/ state' = state /\ Returns
         /\ ConnectUnanswered =>
              Cur.pc = "unanswered" /\ Cur.fn \in Connecting /\ Returns
<1>0. \A armed : sp > 0 /\ BackOff(armed) => Returns
  BY CallsOut DEF BackOff
<1>1. ASSUME ReconnectStart
      PROVE  /\ Cur.pc = "start" /\ Cur.fn = "reconnect"
             /\ \/ state' = state /\ Returns
                \/ MovesTo("connect")
  <2>1. sp > 0 /\ Cur = Top /\ Cur.pc = "start" /\ Formed(Cur)
    BY <1>1, Runs, Known DEF ReconnectStart
  <2>2. Cur.fn = "reconnect"
    BY <2>1 DEF Formed, AtOwnPoint, Connecting, Cycle, Requests
  <2>3. \A g : Advanced(Cur, g, "connect") => Formed(g)
    BY <2>1, <2>2 DEF Formed, AtOwnPoint, AwaitsOwnAnswer, HoldsItsPacket, Requests,
                      Connecting, Cycle, Advanced
  <2>4. Goto([Top EXCEPT !.pc = "connect"]) => MovesTo("connect")
    BY <2>1, <2>3, Edited, Known
  <2> QED BY <1>0, <1>1, <2>1, <2>2, <2>4, CallsOut DEF ReconnectStart
<1>2. ASSUME SendConnect
      PROVE  /\ Cur.pc = "connect" /\ Cur.fn \in Connecting
             /\ \/ Sent(BrokerConnect) /\ MovesTo("read")
                   /\ connects' = IF connects = 0 THEN 1 ELSE 2
                \/ SendFails /\ UNCHANGED connects /\ Returns
  <2>1. sp > 0 /\ Cur = Top /\ Cur.pc = "connect" /\ Formed(Cur)
    BY <1>2, Runs, Known DEF SendConnect
  <2>2. Cur.fn \in Connecting
    BY <2>1 DEF Formed, AtOwnPoint, Connecting, Cycle, Requests
  <2>3. \A g : Advanced(Cur, g, "read") => Formed(g)
    BY <2>1, <2>2 DEF Formed, AtOwnPoint, AwaitsOwnAnswer, HoldsItsPacket, Requests,
                      Connecting, Cycle, Advanced
  <2>4. Goto([Top EXCEPT !.pc = "read", !.tmr = CommandTimeout]) => MovesTo("read")
    BY <2>1, <2>3, Edited, Known
  <2> QED BY <1>0, <1>2, <2>1, <2>2, <2>4, CallsOut DEF SendConnect
<1>3. ASSUME ConnectAnswered
      PROVE  /\ Cur.pc = "answered" /\ Cur.fn \in Connecting
             /\ \/ Cur.fn = "reconnect" /\ state' = "CONNECTED" /\ MovesTo("resubscribe")
                \/ Cur.fn = "connect" /\ state' = "CONNECTED" /\ Returns
                \/ state' = state /\ Returns
  <2>1. sp > 0 /\ Cur = Top /\ Cur.pc = "answered" /\ Formed(Cur)
    BY <1>3, Runs, Known DEF ConnectAnswered
  <2>2. Cur.fn \in Connecting
    BY <1>3, <2>1 DEF ConnectAnswered, Connecting
  <2>3. Cur.fn = "reconnect" => \A g : Advanced(Cur, g, "resubscribe") => Formed(g)
    BY <2>1, <2>2 DEF Formed, AtOwnPoint, AwaitsOwnAnswer, HoldsItsPacket, Requests,
                      Connecting, Cycle, Advanced
  <2>4. Cur.fn = "reconnect" /\ Goto([Top EXCEPT !.pc = "resubscribe"]) => MovesTo("resubscribe")
    BY <2>1, <2>3, Edited, Known
  <2> QED BY <1>0, <1>3, <2>1, <2>2, <2>4, CallsOut DEF ConnectAnswered, Connecting
<1>4. ASSUME ConnectUnanswered
      PROVE  Cur.pc = "unanswered" /\ Cur.fn \in Connecting /\ Returns
  <2>1. sp > 0 /\ Cur = Top /\ Cur.pc = "unanswered" /\ Formed(Cur)
    BY <1>4, Runs, Known DEF ConnectUnanswered
  <2> QED BY <1>0, <1>4, <2>1, CallsOut DEF ConnectUnanswered, Connecting
<1> QED BY <1>1, <1>2, <1>3, <1>4

\* Resubscribe subscribes to the next filter in the table, or has seen them all.
LEMMA ResubscribeMoves ==
  ASSUME TypeInv, ShapeInv, Resubscribe
  PROVE  /\ Cur.pc = "resubscribe" /\ Cur.fn = "reconnect"
         /\ \/ /\ CleanSession => \A i \in Slots : i >= Cur.slot => handlers[i] = NoTopic
               /\ Returns
            \/ \E i \in Slots :
                 /\ i >= Cur.slot
                 /\ \A j \in Slots : j >= Cur.slot /\ handlers[j] # NoTopic => i <= j
                 /\ ShapeInv'
                 /\ Cur'.fn = "subscribe" /\ Cur'.pc = "check" /\ Cur'.topic = handlers[i]
                 /\ Parent'.fn = "reconnect" /\ Parent'.slot = i + 1
<1>1. sp > 0 /\ Cur = Top /\ Cur.pc = "resubscribe" /\ Cur \in ProperFrames /\ Formed(Cur)
  BY Runs, Known DEF Resubscribe
<1>2. Cur.fn = "reconnect"
  BY <1>1 DEF Formed, AtOwnPoint, Connecting, Cycle, Requests
<1> DEFINE rest == {i \in Slots : CleanSession /\ i >= Cur.slot /\ handlers[i] # NoTopic}
<1>3. CASE rest = {} /\ Return("SUCCESS")
  BY <1>1, <1>2, <1>3, CallsOut
<1>4. ASSUME NEW i \in rest, \A j \in rest : i <= j,
             Invoke([Cur EXCEPT !.slot = i + 1],
                    Frame("subscribe", "check", handlers[i], "SUBACK", 0))
      PROVE  /\ i \in Slots /\ i >= Cur.slot
             /\ \A j \in Slots : j >= Cur.slot /\ handlers[j] # NoTopic => i <= j
             /\ ShapeInv'
             /\ Cur'.fn = "subscribe" /\ Cur'.pc = "check" /\ Cur'.topic = handlers[i]
             /\ Parent'.fn = "reconnect" /\ Parent'.slot = i + 1
  <2> DEFINE f == [Cur EXCEPT !.slot = i + 1]
             g == Frame("subscribe", "check", handlers[i], "SUBACK", 0)
  <2>1. i + 1 \in 1..(MaxHandlers + 1) /\ handlers[i] \in Topics
    BY <1>4, HandlersAssumption DEF Slots, TypeInv, ClientOK
  <2>2. /\ f \in ProperFrames /\ f.fn = Cur.fn /\ f.pc = Cur.pc /\ f.want = Cur.want
        /\ f.slot = i + 1 /\ f.got = Cur.got
    <3>1. f \in ProperFrames
      BY <1>1, <2>1, FrameUpdate
    <3>2. Cur \in Frames
      BY <1>1 DEF ProperFrames
    <3> QED BY <3>1, <3>2 DEF Frames
  <2>3. g \in ProperFrames
    BY <2>1, NewFrame, Known
  <2>4. /\ g.fn = "subscribe" /\ g.pc = "check" /\ g.topic = handlers[i] /\ g.want = "SUBACK"
    BY DEF Frame
  <2>5. Invoke(f, g)
    BY <1>4
  <2> HIDE DEF f, g
  <2>6. Formed(f)
    BY <1>1, <1>2, <2>2 DEF Formed, AtOwnPoint, AwaitsOwnAnswer, HoldsItsPacket, Requests,
                            Connecting, Cycle
  <2>7. Formed(g)
    BY <2>4 DEF Formed, AtOwnPoint, AwaitsOwnAnswer, HoldsItsPacket, Requests, Connecting, Cycle
  <2>8. Nests(f, g)
    BY <1>1, <1>2, <2>2, <2>4 DEF Nests
  <2>9. ShapeInv' /\ Cur' = g /\ Parent' = f
    BY <1>1, <2>2, <2>3, <2>5, <2>6, <2>7, <2>8, CallsIn
  <2> QED BY <1>2, <1>4, <2>2, <2>4, <2>9
<1>5. \/ rest = {} /\ Return("SUCCESS")
      \/ \E i \in rest : /\ \A j \in rest : i <= j
                         /\ Invoke([Cur EXCEPT !.slot = i + 1],
                                   Frame("subscribe", "check", handlers[i], "SUBACK", 0))
  BY <1>1 DEF Resubscribe
<1> QED BY <1>1, <1>2, <1>3, <1>4, <1>5

LEMMA YieldMoves ==
  ASSUME TypeInv, ShapeInv
  PROVE  /\ YieldLoop =>
              /\ Cur.pc = "loop" /\ Cur.fn = "yield"
              /\ \/ state # "CONNECTED" /\ Enters(HandleReconnect)
                 \/ MovesTo("read")
         /\ YieldReconnected =>
              /\ Cur.pc = "reconnected" /\ Cur.fn = "yield"
              /\ MovesTo("loop") \/ MovesTo("sleep")
         /\ YieldReturns =>
              Cur.pc = "sleep" /\ Cur.fn = "yield" /\ Returns
<1>1. ASSUME YieldLoop
      PROVE  /\ Cur.pc = "loop" /\ Cur.fn = "yield"
             /\ \/ state # "CONNECTED" /\ Enters(HandleReconnect)
                \/ MovesTo("read")
  <2>1. sp > 0 /\ Cur = Top /\ Cur.pc = "loop" /\ Cur \in ProperFrames /\ Formed(Cur)
    BY <1>1, Runs, Known DEF YieldLoop
  <2>2. Cur.fn = "yield"
    BY <2>1 DEF Formed, AtOwnPoint, Connecting, Cycle, Requests
  <2>3. \A g : Advanced(Cur, g, "read") \/ Advanced(Cur, g, "reconnected") => Formed(g)
    BY <2>1, <2>2 DEF Formed, AtOwnPoint, AwaitsOwnAnswer, HoldsItsPacket, Requests,
                      Connecting, Cycle, Advanced
  <2>4. Goto([Top EXCEPT !.pc = "read"]) => MovesTo("read")
    BY <2>1, <2>3, Edited, Known
  <2>5. ASSUME Invoke([Cur EXCEPT !.pc = "reconnected"], HandleReconnect)
        PROVE  Enters(HandleReconnect)
    <3>1. PICK g : Advanced(Cur, g, "reconnected") /\ Invoke(g, HandleReconnect)
      BY <2>1, <2>5, Edits, Known
    <3> HIDE DEF HandleReconnect
    <3>2. Nests(g, HandleReconnect) /\ g \in ProperFrames /\ g.fn = Cur.fn
      BY <2>2, <3>1, HandleReconnectFields DEF Nests, Advanced, Requests
    <3> QED BY <2>1, <2>3, <3>1, <3>2, CallsIn, ReconnectFormed, FixedFrames DEF Enters
  <2> QED BY <1>1, <2>1, <2>2, <2>4, <2>5 DEF YieldLoop
<1>2. ASSUME YieldReconnected
      PROVE  /\ Cur.pc = "reconnected" /\ Cur.fn = "yield"
             /\ MovesTo("loop") \/ MovesTo("sleep")
  <2>1. sp > 0 /\ Cur = Top /\ Cur.pc = "reconnected" /\ Formed(Cur)
    BY <1>2, Runs, Known DEF YieldReconnected
  <2>2. Cur.fn = "yield"
    BY <2>1 DEF Formed, AtOwnPoint, Connecting, Cycle, Requests
  <2>3. \A g : Advanced(Cur, g, "loop") \/ Advanced(Cur, g, "sleep") => Formed(g)
    BY <2>1, <2>2 DEF Formed, AtOwnPoint, AwaitsOwnAnswer, HoldsItsPacket, Requests,
                      Connecting, Cycle, Advanced
  <2>4. ret \in Codes
    BY DEF TypeInv, CallsOK
  <2>5. \A p \in {"loop", "sleep"} : Goto([Top EXCEPT !.pc = p, !.rc = ret]) => MovesTo(p)
    BY <2>1, <2>3, <2>4, Edited, Known
  <2> QED BY <1>2, <2>1, <2>2, <2>5 DEF YieldReconnected
<1>3. ASSUME YieldReturns PROVE Cur.pc = "sleep" /\ Cur.fn = "yield" /\ Returns
  <2>1. sp > 0 /\ Cur = Top /\ Cur.pc = "sleep" /\ Formed(Cur)
    BY <1>3, Runs, Known DEF YieldReturns
  <2>2. Cur.fn = "yield"
    BY <2>1 DEF Formed, AtOwnPoint, Connecting, Cycle, Requests
  <2> QED BY <1>3, <2>1, <2>2, CallsOut DEF YieldReturns
<1> QED BY <1>1, <1>2, <1>3

\* The innermost call has read packet p and is at program point pc.
Reads(p, pc) ==
  /\ ShapeInv' /\ Parent' = Parent
  /\ Cur'.fn = Cur.fn /\ Cur'.topic = Cur.topic /\ Cur'.want = Cur.want /\ Cur'.qos = Cur.qos
  /\ Cur'.pid = Cur.pid /\ Cur'.slot = Cur.slot
  /\ Cur'.got = p /\ Cur'.pc = pc

LEMMA Reading ==
  ASSUME TypeInv, ShapeInv, sp > 0, Cur.pc = "read", NEW p \in Packets, NEW pc \in Points,
         pc \in {"ack", "deliver", "post"},
         pc = "ack" => NeedsAck(p), pc = "deliver" => p.type = "PUBLISH",
         Goto([Top EXCEPT !.got = p, !.rc = "SUCCESS", !.pc = pc])
  PROVE  Reads(p, pc)
<1>1. Cur = Top /\ Cur \in ProperFrames /\ Formed(Cur)
  BY Calling
<1> DEFINE g == [Cur EXCEPT !.got = p, !.rc = "SUCCESS", !.pc = pc]
<1>2. /\ g \in ProperFrames /\ g.fn = Cur.fn /\ g.topic = Cur.topic /\ g.want = Cur.want
      /\ g.qos = Cur.qos /\ g.pid = Cur.pid /\ g.slot = Cur.slot /\ g.got = p /\ g.pc = pc
  <2>1. g \in ProperFrames
    BY <1>1, FrameUpdate, Known
  <2>2. Cur \in Frames
    BY <1>1 DEF ProperFrames
  <2> QED BY <2>1, <2>2 DEF Frames
<1>3. Goto(g)
  BY <1>1
<1> HIDE DEF g
<1>4. Formed(g)
  BY <1>1, <1>2 DEF Formed, AtOwnPoint, AwaitsOwnAnswer, HoldsItsPacket, Requests, Connecting,
                    Cycle
<1>5. ShapeInv' /\ Cur' = g /\ Parent' = Parent
  BY <1>1, <1>2, <1>3, <1>4, GoesOn
<1> QED BY <1>2, <1>5 DEF Reads

LEMMA ReadMoves ==
  ASSUME TypeInv, ShapeInv
  PROVE  /\ ReadPacket =>
              /\ Cur.pc = "read" /\ Cur.fn # "none"
              /\ pipe # <<>> /\ Head(pipe) \in Packets
              /\ \/ Reads(Head(pipe), "ack")
                 \/ Reads(Head(pipe), "deliver")
                 \/ Reads(Head(pipe), "post")
         /\ ReadNothing => Cur.pc = "read" /\ Cur.fn # "none" /\ Reads(NoPacket, "post")
         /\ ReadError => Cur.pc = "read" /\ Cur.fn # "none" /\ MovesTo("cycleFailed")
<1>1. ASSUME ReadPacket
      PROVE  /\ Cur.pc = "read" /\ Cur.fn # "none"
             /\ pipe # <<>> /\ Head(pipe) \in Packets
             /\ \/ Reads(Head(pipe), "ack")
                \/ Reads(Head(pipe), "deliver")
                \/ Reads(Head(pipe), "post")
  <2>1. sp > 0 /\ Cur = Top /\ Cur.pc = "read" /\ Formed(Cur)
    BY <1>1, Runs, Known DEF ReadPacket
  <2>2. pipe # <<>> /\ Head(pipe) \in Packets
    BY <1>1 DEF ReadPacket, TypeInv, NetOK
  <2> DEFINE pc == IF NeedsAck(Head(pipe)) THEN "ack"
                   ELSE IF Head(pipe).type = "PUBLISH" THEN "deliver" ELSE "post"
  <2>3. Goto([Top EXCEPT !.got = Head(pipe), !.rc = "SUCCESS", !.pc = pc])
    BY <1>1 DEF ReadPacket
  <2>4. /\ pc \in {"ack", "deliver", "post"} /\ pc \in Points
        /\ pc = "ack" => NeedsAck(Head(pipe))
        /\ pc = "deliver" => Head(pipe).type = "PUBLISH"
    BY Known
  <2> HIDE DEF pc
  <2>5. Reads(Head(pipe), pc)
    BY <2>1, <2>2, <2>3, <2>4, Reading
  <2> QED BY <2>1, <2>2, <2>4, <2>5 DEF Formed, Requests, Connecting
<1>2. ASSUME ReadNothing PROVE Cur.pc = "read" /\ Cur.fn # "none" /\ Reads(NoPacket, "post")
  <2>1. sp > 0 /\ Cur = Top /\ Cur.pc = "read" /\ Formed(Cur)
    BY <1>2, Runs, Known DEF ReadNothing
  <2>2. Reads(NoPacket, "post")
    BY <1>2, <2>1, Reading, Known DEF ReadNothing
  <2> QED BY <2>1, <2>2 DEF Formed, Requests, Connecting
<1>3. ASSUME ReadError PROVE Cur.pc = "read" /\ Cur.fn # "none" /\ MovesTo("cycleFailed")
  <2>1. sp > 0 /\ Cur = Top /\ Cur.pc = "read" /\ Formed(Cur)
    BY <1>3, Runs, Known DEF ReadError
  <2>2. \A g : Advanced(Cur, g, "cycleFailed") => Formed(g)
    BY <2>1 DEF Formed, AtOwnPoint, AwaitsOwnAnswer, HoldsItsPacket, Requests, Connecting,
                Cycle, Advanced
  <2>3. MovesTo("cycleFailed")
    BY <1>3, <2>1, <2>2, Edited, Known DEF ReadError
  <2> QED BY <2>1, <2>3 DEF Formed, Requests, Connecting
<1> QED BY <1>1, <1>2, <1>3

LEMMA AcknowledgeMoves ==
  ASSUME TypeInv, ShapeInv, Acknowledge
  PROVE  /\ Cur.pc = "ack" /\ Cur.fn # "none" /\ Cur = Top
         /\ Cur.got.type \in {"PUBREC", "PUBREL", "PUBLISH"}
         /\ \/ Cur.got.type = "PUBLISH" /\ MovesTo("deliver")
            \/ Cur.got.type # "PUBLISH" /\ (MovesTo("post") \/ MovesTo("cycleFailed"))
<1>1. sp > 0 /\ Cur = Top /\ Cur.pc = "ack" /\ Formed(Cur)
  BY Runs, Known DEF Acknowledge
<1>2. \A g : \/ Cur.got.type = "PUBLISH" /\ Advanced(Cur, g, "deliver")
             \/ Advanced(Cur, g, "post")
             \/ Advanced(Cur, g, "cycleFailed")
             => Formed(g)
  BY <1>1 DEF Formed, AtOwnPoint, AwaitsOwnAnswer, HoldsItsPacket, Requests, Connecting,
              Cycle, Advanced
<1>3. Cur.got.type \in {"PUBREC", "PUBREL", "PUBLISH"} /\ Cur.fn # "none"
  BY <1>1 DEF Formed, HoldsItsPacket, NeedsAck, Requests, Connecting
<1>4. ASSUME Cur.got.type = "PUBLISH",
             \/ Goto([Top EXCEPT !.pc = "deliver"])
             \/ Goto([Top EXCEPT !.pc = "deliver", !.rc = "FAILURE"])
      PROVE  MovesTo("deliver")
  BY <1>1, <1>2, <1>4, Edited, Known
<1>5. ASSUME \/ Goto([Top EXCEPT !.pc = "post"])
             \/ Goto([Top EXCEPT !.pc = "cycleFailed", !.rc = "FAILURE"])
      PROVE  MovesTo("post") \/ MovesTo("cycleFailed")
  BY <1>1, <1>2, <1>5, Edited, Known
<1>6. \/ Goto([Top EXCEPT !.pc = IF Top.got.type = "PUBLISH" THEN "deliver" ELSE "post"])
      \/ Goto([Top EXCEPT !.pc = IF Top.got.type = "PUBLISH" THEN "deliver" ELSE "cycleFailed",
                          !.rc = "FAILURE"])
  BY DEF Acknowledge
<1> QED BY <1>1, <1>3, <1>4, <1>5, <1>6

LEMMA KeepaliveMoves ==
  ASSUME TypeInv, ShapeInv, Keepalive
  PROVE  /\ Cur.pc = "post" /\ Cur.fn # "none"
         /\ \/ MovesTo("cycleFailed")
            \/ Cur.fn = "yield" /\ (MovesTo("loop") \/ MovesTo("sleep"))
            \/ Cur.fn # "yield" /\ (MovesTo("read") \/ MovesTo("unanswered"))
            \/ Cur.fn # "yield" /\ Cur.got.type = Cur.want /\ MovesTo("answered")
<1>1. sp > 0 /\ Cur = Top /\ Cur.pc = "post" /\ Formed(Cur)
  BY Runs, Known DEF Keepalive
<1>2. /\ \A g : Advanced(Cur, g, "cycleFailed") => Formed(g)
      /\ Cur.fn = "yield" =>
           \A g : Advanced(Cur, g, "loop") \/ Advanced(Cur, g, "sleep") => Formed(g)
      /\ Cur.fn # "yield" =>
           \A g : Advanced(Cur, g, "read") \/ Advanced(Cur, g, "unanswered") => Formed(g)
      /\ Cur.fn # "yield" /\ Cur.got.type = Cur.want =>
           \A g : Advanced(Cur, g, "answered") => Formed(g)
  BY <1>1 DEF Formed, AtOwnPoint, AwaitsOwnAnswer, HoldsItsPacket, Requests, Connecting,
              Cycle, Advanced
<1>3. /\ Goto([Top EXCEPT !.pc = "cycleFailed"]) => MovesTo("cycleFailed")
      /\ Cur.fn = "yield" =>
           /\ Goto([Top EXCEPT !.pc = "loop"]) => MovesTo("loop")
           /\ Goto([Top EXCEPT !.pc = "sleep"]) => MovesTo("sleep")
      /\ Cur.fn # "yield" =>
           /\ Goto([Top EXCEPT !.pc = "read"]) => MovesTo("read")
           /\ Goto([Top EXCEPT !.pc = "unanswered"]) => MovesTo("unanswered")
           /\ Cur.got.type = Cur.want /\ Goto([Top EXCEPT !.pc = "answered"]) =>
                MovesTo("answered")
  BY <1>1, <1>2, Edited, Known
<1>4. Goto(AfterCycle(Top)) \/ Goto([Top EXCEPT !.pc = "cycleFailed"])
  BY DEF Keepalive
<1>5. \/ AfterCycle(Top) = [Top EXCEPT !.pc = "cycleFailed"]
      \/ /\ Top.fn = "yield"
         /\ AfterCycle(Top) \in {[Top EXCEPT !.pc = "loop"], [Top EXCEPT !.pc = "sleep"]}
      \/ /\ Top.fn # "yield" /\ Top.got.type = Top.want
         /\ AfterCycle(Top) = [Top EXCEPT !.pc = "answered"]
      \/ /\ Top.fn # "yield"
         /\ AfterCycle(Top) \in {[Top EXCEPT !.pc = "read"], [Top EXCEPT !.pc = "unanswered"]}
  BY DEF AfterCycle
<1>6. Cur.fn # "none"
  BY <1>1 DEF Formed, Requests, Connecting
<1> QED BY <1>1, <1>3, <1>4, <1>5, <1>6

LEMMA CycleFailedMoves ==
  ASSUME TypeInv, ShapeInv, CycleFailed
  PROVE  /\ Cur.pc = "cycleFailed" /\ Cur.fn # "none"
         /\ MovesTo("sleep") \/ MovesTo("unanswered")
<1>1. sp > 0 /\ Cur = Top /\ Cur.pc = "cycleFailed" /\ Formed(Cur)
  BY Runs, Known DEF CycleFailed
<1>2. /\ Cur.fn = "yield" => \A g : Advanced(Cur, g, "sleep") => Formed(g)
      /\ Cur.fn # "yield" => \A g : Advanced(Cur, g, "unanswered") => Formed(g)
  BY <1>1 DEF Formed, AtOwnPoint, AwaitsOwnAnswer, HoldsItsPacket, Requests, Connecting,
              Cycle, Advanced
<1>3. /\ Cur.fn = "yield" /\ Goto([Top EXCEPT !.pc = "sleep", !.rc = "FAILURE"]) =>
           MovesTo("sleep")
      /\ Cur.fn # "yield" /\ Goto([Top EXCEPT !.pc = "unanswered", !.rc = "FAILURE"]) =>
           MovesTo("unanswered")
  BY <1>1, <1>2, Edited, Known
<1>4. Cur.fn # "none"
  BY <1>1 DEF Formed, Requests, Connecting
<1> QED BY <1>1, <1>3, <1>4 DEF CycleFailed

\* The application calls the API from its main loop only.
LEMMA EnterMoves ==
  ASSUME TypeInv, ShapeInv, ~Callbacks, NEW f \in ProperFrames, Formed(f), Enter(f)
  PROVE  Cur = NoCall /\ ShapeInv' /\ Cur' = f /\ Parent' = NoCall
<1>1. sp = 0 /\ sp' = 1 /\ stk'[1] = f
  BY BoundsAssumption DEF Enter, TypeInv, CallsOK
<1>2. ShapeInv'
  BY <1>1 DEF ShapeInv
<1> QED BY <1>1, <1>2 DEF Cur, Parent

LEMMA ApplicationMoves ==
  ASSUME TypeInv, ShapeInv, ~Callbacks
  PROVE  /\ Publish \/ Subscribe \/ Unsubscribe \/ Yield =>
              /\ Cur = NoCall /\ ShapeInv' /\ Parent' = NoCall /\ ~app.destroyed
              /\ \/ Cur'.fn \in Requests /\ Cur'.pc = "check"
                 \/ Cur'.fn = "yield" /\ Cur'.pc = "loop"
              /\ UNCHANGED <<client, timer, net, app, stable, connects>>
         /\ UserDisconnect => Cur = NoCall /\ ShapeInv' /\ Cur' = NoCall
<1>1. ASSUME Publish
      PROVE  /\ Cur = NoCall /\ ShapeInv' /\ Parent' = NoCall
             /\ Cur'.fn \in Requests /\ Cur'.pc = "check"
  <2>1. PICK q \in PublishQoS :
           Enter(Frame("publish", "check", NoTopic, <<"NONE", "PUBACK", "PUBCOMP">>[q + 1], q))
    BY <1>1 DEF Publish
  <2> DEFINE w == <<"NONE", "PUBACK", "PUBCOMP">>[q + 1]
             f == Frame("publish", "check", NoTopic, w, q)
  <2>2. q \in 0..2 /\ w \in {"NONE", "PUBACK", "PUBCOMP"} /\ (w = "NONE" <=> q = 0)
    BY OptionsAssumption
  <2> HIDE DEF w
  <2>3. f \in ProperFrames
    BY <2>2, NewFrame, Known
  <2>4. f.fn = "publish" /\ f.pc = "check" /\ f.want = w /\ f.qos = q
    BY DEF Frame
  <2>5. Enter(f)
    BY <2>1 DEF w
  <2> HIDE DEF f
  <2>6. Formed(f)
    BY <2>2, <2>4 DEF Formed, AtOwnPoint, AwaitsOwnAnswer, HoldsItsPacket, Requests,
                      Connecting, Cycle
  <2> QED BY <2>3, <2>4, <2>5, <2>6, EnterMoves DEF Requests
<1>2. ASSUME Subscribe \/ Unsubscribe
      PROVE  /\ Cur = NoCall /\ ShapeInv' /\ Parent' = NoCall
             /\ Cur'.fn \in Requests /\ Cur'.pc = "check"
  <2>1. PICK t \in Topics : \/ Enter(Frame("subscribe", "check", t, "SUBACK", 0))
                            \/ Enter(Frame("unsubscribe", "check", t, "UNSUBACK", 0))
    BY <1>2 DEF Subscribe, Unsubscribe
  <2>2. ASSUME NEW fn, NEW w, <<fn, w>> \in {<<"subscribe", "SUBACK">>, <<"unsubscribe", "UNSUBACK">>},
               Enter(Frame(fn, "check", t, w, 0))
        PROVE  /\ Cur = NoCall /\ ShapeInv' /\ Parent' = NoCall
               /\ Cur'.fn \in Requests /\ Cur'.pc = "check"
    <3> DEFINE f == Frame(fn, "check", t, w, 0)
    <3>1. f \in ProperFrames
      BY <2>2, NewFrame, Known
    <3>2. f.fn = fn /\ f.pc = "check" /\ f.want = w
      BY DEF Frame
    <3>3. Enter(f)
      BY <2>2
    <3> HIDE DEF f
    <3>4. Formed(f)
      BY <2>2, <3>2 DEF Formed, AtOwnPoint, AwaitsOwnAnswer, HoldsItsPacket, Requests,
                        Connecting, Cycle
    <3> QED BY <2>2, <3>1, <3>2, <3>3, <3>4, EnterMoves DEF Requests
  <2> QED BY <2>1, <2>2
<1>3. ASSUME Yield
      PROVE  /\ Cur = NoCall /\ ShapeInv' /\ Parent' = NoCall
             /\ Cur'.fn = "yield" /\ Cur'.pc = "loop"
  <2> DEFINE h == Frame("yield", "loop", NoTopic, "NONE", 0)
             f == [h EXCEPT !.tmr = YieldTime]
  <2>1. h \in ProperFrames
    BY NewFrame, Known
  <2>2. h.fn = "yield" /\ h.pc = "loop" /\ h.want = "NONE"
    BY DEF Frame
  <2>3. Enter(f)
    BY <1>3 DEF Yield
  <2> HIDE DEF h
  <2>4. f \in ProperFrames /\ h \in Frames
    BY <2>1, FrameUpdate, Known DEF ProperFrames
  <2>5. f.fn = "yield" /\ f.pc = "loop" /\ f.want = "NONE"
    BY <2>2, <2>4 DEF Frames
  <2> HIDE DEF f
  <2>6. Formed(f)
    BY <2>5 DEF Formed, AtOwnPoint, AwaitsOwnAnswer, HoldsItsPacket, Requests, Connecting, Cycle
  <2> QED BY <2>3, <2>4, <2>5, <2>6, EnterMoves
<1>4. ASSUME UserDisconnect PROVE Cur = NoCall /\ ShapeInv' /\ Cur' = NoCall
  <2>1. sp = 0 /\ UNCHANGED calls
    BY <1>4 DEF UserDisconnect
  <2> QED BY <2>1, CallsStay, Calling
<1>5. Publish \/ Subscribe \/ Unsubscribe \/ Yield =>
        ~app.destroyed /\ UNCHANGED <<client, timer, net, app, stable, connects>>
  BY DEF Publish, Subscribe, Unsubscribe, Yield, Enter
<1> QED BY <1>1, <1>2, <1>3, <1>4, <1>5

LEMMA ElapseMoves ==
  ASSUME TypeInv, ShapeInv, Elapse
  PROVE  /\ ShapeInv'
         /\ Cur'.fn = Cur.fn /\ Cur'.pc = Cur.pc /\ Cur'.topic = Cur.topic /\ Cur'.got = Cur.got
         /\ Cur'.pid = Cur.pid /\ Cur'.slot = Cur.slot
         /\ Parent'.fn = Parent.fn /\ Parent'.slot = Parent.slot
<1>1. sp' = sp /\ sp \in 0..MaxDepth
  BY DEF Elapse, TypeInv, CallsOK
<1>2. \A k \in 1..sp : stk[k] \in Frames /\ stk'[k] = [stk[k] EXCEPT !.tmr = Ticked(stk[k].tmr)]
  BY BoundsAssumption DEF Elapse, TypeInv, CallsOK, ProperFrames
<1>3. \A k \in 1..sp :
         /\ stk'[k].fn = stk[k].fn /\ stk'[k].pc = stk[k].pc /\ stk'[k].topic = stk[k].topic
         /\ stk'[k].want = stk[k].want /\ stk'[k].qos = stk[k].qos /\ stk'[k].got = stk[k].got
         /\ stk'[k].pid = stk[k].pid /\ stk'[k].slot = stk[k].slot
  <2> TAKE k \in 1..sp
  <2> PICK f \in Frames : f = stk[k]
    BY <1>2
  <2> PICK g : g = stk'[k]
    OBVIOUS
  <2>1. g = [f EXCEPT !.tmr = Ticked(stk[k].tmr)]
    BY <1>2
  <2>2. /\ g.fn = f.fn /\ g.pc = f.pc /\ g.topic = f.topic /\ g.want = f.want
        /\ g.qos = f.qos /\ g.got = f.got /\ g.pid = f.pid /\ g.slot = f.slot
    BY <2>1 DEF Frames
  <2> QED BY <2>2
<1>4. \A k \in 1..sp : Formed(stk'[k])
  <2> TAKE k \in 1..sp
  <2>1. Formed(stk[k])
    BY DEF ShapeInv
  <2> QED BY <1>3, <2>1 DEF Formed, AtOwnPoint, AwaitsOwnAnswer, HoldsItsPacket
<1>5. \A k \in 1..sp : k < sp => Nests(stk'[k], stk'[k + 1])
  <2> SUFFICES ASSUME NEW k \in 1..sp, k < sp PROVE Nests(stk'[k], stk'[k + 1])
    OBVIOUS
  <2>1. k + 1 \in 1..sp /\ Nests(stk[k], stk[k + 1])
    BY <1>1 DEF ShapeInv
  <2> QED BY <1>3, <2>1 DEF Nests
<1>6. ShapeInv'
  BY <1>1, <1>4, <1>5 DEF ShapeInv
<1>7. sp > 0 => sp \in 1..sp /\ (sp >= 2 => sp - 1 \in 1..sp)
  BY <1>1
<1> QED BY <1>1, <1>3, <1>6, <1>7 DEF Cur, Parent

(***************************************************************************)
(* The connection below the calls                                          *)
(***************************************************************************)

\* Until the first CONNECT nothing travels on a connection, and only the call that is
\* about to send it runs; a broker closes a connection that brings a second one.
ConnInv ==
  /\ connects = 0 => ~broker.greeted /\ pipe = <<>>
  /\ sock = "up" => /\ connects \in {0, 1} /\ (broker.greeted <=> connects = 1)
                    /\ connects = 0 => Cur.pc = "connect"

\* A call that is connecting runs on a client that is not connected yet.
DownInv == Cur.fn \in Connecting /\ Cur.pc # "resubscribe" => state # "CONNECTED"

LEMMA ConnKept ==
  ASSUME ConnInv, connects' = connects, sock' = "up" => sock = "up",
         broker'.greeted = broker.greeted, connects = 0 => pipe' = <<>>,
         sock = "up" /\ connects = 0 => Cur'.pc = "connect"
  PROVE  ConnInv'
BY DEF ConnInv

LEMMA SentConn ==
  ASSUME NetOK
  PROVE  /\ \A type, id : Sent(BrokerAnswer(type, id)) =>
              sock' = sock /\ broker'.greeted = broker.greeted /\ (sock # "up" => pipe' = pipe)
         /\ \A id : Sent(RequestReceived(id)) =>
              sock' = sock /\ broker'.greeted = broker.greeted /\ (sock # "up" => pipe' = pipe)
         /\ SendFails => sock # "up" /\ UNCHANGED net
BY DEF Sent, SendFails, BrokerAnswer, RequestReceived, BrokerSubscribe, BrokerUnsubscribe, Reply,
       net, NetOK

\* A step on which the connection and what is behind it stay as they are.
LEMMA ConnUnmoved ==
  ASSUME ConnInv, UNCHANGED <<net, connects>>,
         sock = "up" /\ connects = 0 => Cur'.pc = "connect"
  PROVE  ConnInv'
BY ConnKept DEF net, ConnInv

LEMMA ConnClosed ==
  ASSUME ConnInv, CloseConnection, connects' = connects PROVE ConnInv'
BY ConnKept DEF CloseConnection, ConnInv

LEMMA ConnStep ==
  ASSUME TypeInv, ShapeInv, ConnInv, ~Callbacks, [Next]_vars PROVE ConnInv'
<1>0. /\ sock = "up" => connects \in {0, 1} /\ (connects = 0 => Cur.pc = "connect")
      /\ connects = 0 => pipe = <<>>
      /\ NetOK /\ connects \in 0..2
  BY DEF ConnInv, TypeInv, AppOK
<1>1. CASE \/ HandlerReturns \/ CheckConnection \/ ConnectionChecked \/ RequestAnswered
           \/ RequestUnanswered \/ RequestExited
  <2>1. Cur.pc # "connect"
    BY <1>1, HandlerReturnsMoves, CheckConnectionMoves, ConnectionCheckedMoves, RequestEndMoves
  <2>2. UNCHANGED <<net, connects>>
    BY <1>1 DEF HandlerReturns, CheckConnection, ConnectionChecked, RequestAnswered,
                RequestUnanswered, RequestExited
  <2> QED BY <1>0, <2>1, <2>2, ConnUnmoved
<1>2. CASE SendRequest
  <2>1. /\ Cur.pc = "send"
        /\ SendFails \/ \E id \in 0..MaxPacketId : Sent(RequestReceived(id))
    BY <1>2, SendRequestMoves, Known
  <2>2. connects' = connects
    BY <1>2 DEF SendRequest
  <2>3. CASE SendFails
    BY <1>0, <2>1, <2>2, <2>3, ConnUnmoved, SentConn
  <2>4. CASE \E id \in 0..MaxPacketId : Sent(RequestReceived(id))
    BY <1>0, <2>1, <2>2, <2>4, ConnKept, SentConn
  <2> QED BY <2>1, <2>3, <2>4
<1>3. CASE RequestExit
  <2>1. Cur.pc # "connect"
    BY <1>3, RequestEndMoves
  <2>2. CloseConnection \/ UNCHANGED net
    BY <1>3 DEF RequestExit, Disconnect
  <2>3. connects' = connects
    BY <1>3 DEF RequestExit
  <2> QED BY <1>0, <2>1, <2>2, <2>3, ConnUnmoved, ConnClosed
<1>4. CASE ReconnectStart
  <2>1. Cur.pc # "connect"
    BY <1>4, ConnectMoves
  <2>2. CASE UNCHANGED <<net, connects>>
    BY <1>0, <2>1, <2>2, ConnUnmoved
  <2>3. CASE /\ sock' = "up" /\ pipe' = <<>> /\ broker' = [broker EXCEPT !.greeted = FALSE]
             /\ connects' = 0 /\ Goto([Top EXCEPT !.pc = "connect"])
    <3>1. broker'.greeted = FALSE
      BY <1>0, <2>3 DEF NetOK
    <3>2. sp > 0 /\ Top \in ProperFrames
      BY <1>4, AtTop, Known DEF ReconnectStart
    <3>3. stk'[sp] = [Top EXCEPT !.pc = "connect"] /\ sp' = sp
      BY <2>3, <3>2, BoundsAssumption DEF Goto, TypeInv, CallsOK
    <3>4. Cur'.pc = "connect"
      BY <3>2, <3>3 DEF Cur, TypeInv, CallsOK, ProperFrames, Frames
    <3> QED BY <2>3, <3>1, <3>4 DEF ConnInv
  <2>4. CASE UNCHANGED <<sock, pipe, broker, connects>>
    BY <1>0, <2>1, <2>4, ConnKept DEF ConnInv
  <2> QED BY <1>4, <2>2, <2>3, <2>4 DEF ReconnectStart
<1>5. CASE SendConnect
  <2>1. CASE Sent(BrokerConnect) /\ connects' = IF connects = 0 THEN 1 ELSE 2
    <3>1. CASE sock = "up" /\ BrokerConnect /\ broker.greeted
      <4>1. sock' = "reset" /\ connects' # 0
        BY <2>1, <3>1 DEF BrokerConnect
      <4> QED BY <4>1 DEF ConnInv
    <3>2. CASE sock = "up" /\ BrokerConnect /\ ~broker.greeted
      <4>1. broker' = [broker EXCEPT !.greeted = TRUE, !.subs = IF CleanSession THEN {} ELSE @]
        BY <3>2 DEF BrokerConnect
      <4>2. broker'.greeted = TRUE
        BY <1>0, <4>1 DEF NetOK
      <4>3. connects = 0 /\ connects' = 1
        BY <2>1, <3>2 DEF ConnInv
      <4> QED BY <4>2, <4>3 DEF ConnInv
    <3>3. CASE sock = "mute" /\ UNCHANGED net
      <4>1. sock' = "mute" /\ connects' # 0
        BY <2>1, <3>3 DEF net
      <4> QED BY <4>1 DEF ConnInv
    <3> QED BY <2>1, <3>1, <3>2, <3>3 DEF Sent
  <2>2. CASE SendFails /\ UNCHANGED connects
    BY <2>2, <1>0, ConnUnmoved, SentConn
  <2> QED BY <1>5, <2>1, <2>2, ConnectMoves
<1>6. CASE ConnectAnswered \/ ConnectUnanswered \/ Resubscribe
  <2>1. Cur.pc # "connect"
    BY <1>6, ConnectMoves, ResubscribeMoves
  <2>2. UNCHANGED <<net, connects>>
    BY <1>6 DEF ConnectAnswered, ConnectUnanswered, Resubscribe
  <2> QED BY <1>0, <2>1, <2>2, ConnUnmoved
<1>7. CASE YieldLoop \/ YieldReconnected \/ YieldReturns \/ ReadNothing \/ ReadError
  <2>1. Cur.pc # "connect"
    BY <1>7, YieldMoves, ReadMoves
  <2>2. UNCHANGED <<net, connects>>
    BY <1>7 DEF YieldLoop, YieldReconnected, YieldReturns, ReadNothing, ReadError
  <2> QED BY <1>0, <2>1, <2>2, ConnUnmoved
<1>8. CASE ReadPacket
  <2>1. Cur.pc # "connect" /\ pipe # <<>>
    BY <1>8, ReadMoves
  <2>2. UNCHANGED <<sock, broker, connects>>
    BY <1>8 DEF ReadPacket
  <2> QED BY <1>0, <2>1, <2>2, ConnKept
<1>9. CASE Acknowledge \/ Keepalive
  <2>1. Cur.pc # "connect"
    BY <1>9, AcknowledgeMoves, KeepaliveMoves
  <2>2. /\ connects' = connects
        /\ UNCHANGED net \/ \E type, id : Sent(BrokerAnswer(type, id))
    BY <1>9, SentConn, <1>0 DEF Acknowledge, Keepalive
  <2>3. CASE UNCHANGED net
    BY <1>0, <2>1, <2>2, <2>3, ConnUnmoved
  <2>4. CASE \E type, id : Sent(BrokerAnswer(type, id))
    BY <1>0, <2>1, <2>2, <2>4, ConnKept, SentConn
  <2> QED BY <2>2, <2>3, <2>4
<1>10. CASE CycleFailed
  <2>1. Cur.pc # "connect"
    BY <1>10, CycleFailedMoves
  <2>2. (CloseConnection \/ UNCHANGED net) /\ connects' = connects
    BY <1>10 DEF CycleFailed
  <2> QED BY <1>0, <2>1, <2>2, ConnUnmoved, ConnClosed
<1>11. CASE Publish \/ Subscribe \/ Unsubscribe \/ Yield
  <2>1. Cur.pc # "connect"
    BY <1>11, ApplicationMoves, NoCallFields
  <2>2. UNCHANGED <<net, connects>>
    BY <1>11, ApplicationMoves DEF net
  <2> QED BY <1>0, <2>1, <2>2, ConnUnmoved
<1>12. CASE UserDisconnect
  <2>1. Cur.pc # "connect"
    BY <1>12, ApplicationMoves, NoCallFields
  <2>2. (CloseConnection \/ UNCHANGED net) /\ connects' = connects
    BY <1>12 DEF UserDisconnect, Disconnect
  <2> QED BY <1>0, <2>1, <2>2, ConnUnmoved, ConnClosed
<1>13. CASE SetAutoReconnect \/ Destroy \/ Stabilise \/ UNCHANGED vars
  <2>1. UNCHANGED <<calls, net, connects>>
    BY <1>13 DEF SetAutoReconnect, Destroy, Stabilise, vars
  <2> QED BY <1>0, <2>1, CallsStay, ConnUnmoved
<1>14. CASE NetReset \/ NetMute \/ BrokerPublish
  <2>1. /\ UNCHANGED <<calls, connects>>
        /\ sock' = "up" => sock = "up"
        /\ broker'.greeted = broker.greeted
        /\ BrokerPublish => broker.greeted
        /\ ~BrokerPublish => pipe' \in {pipe, <<>>}
    BY <1>0, <1>14 DEF NetReset, NetMute, BrokerPublish, Fault, NetOK
  <2>2. connects = 0 => pipe' = <<>>
    BY <1>0, <2>1 DEF ConnInv
  <2> QED BY <1>0, <2>1, <2>2, CallsStay, ConnKept
<1>15. CASE Elapse
  <2>1. UNCHANGED <<net, connects>> /\ Cur'.pc = Cur.pc
    BY <1>15, ElapseMoves DEF Elapse
  <2> QED BY <1>0, <2>1, ConnUnmoved
<1> QED BY <1>1, <1>2, <1>3, <1>4, <1>5, <1>6, <1>7, <1>8, <1>9, <1>10, <1>11, <1>12, <1>13,
           <1>14, <1>15 DEF Next, ClientStep, Application, Environment

\* A step that stays in its call, or returns to a caller, leaves the client as it is.
LEMMA DownKept ==
  ASSUME TypeInv, ShapeInv, DownInv, state' = state,
         \/ Cur'.fn \notin Connecting \/ Cur'.pc = "resubscribe"
         \/ Cur'.fn = Cur.fn /\ Cur.pc # "resubscribe"
         \/ Cur' = Parent
  PROVE  DownInv'
BY Waiting DEF DownInv

LEMMA DownStep ==
  ASSUME TypeInv, ShapeInv, DownInv, ~Callbacks, [Next]_vars PROVE DownInv'
<1>1. CASE HandlerReturns \/ CheckConnection \/ ConnectionChecked
  <2>1. state' = state
    BY <1>1 DEF HandlerReturns, CheckConnection, ConnectionChecked, client
  <2>2. \/ Cur'.fn = Cur.fn /\ Cur.pc # "resubscribe"
        \/ Cur' = Parent
        \/ state # "CONNECTED"
    BY <1>1, HandlerReturnsMoves, CheckConnectionMoves, ConnectionCheckedMoves
       DEF MovesTo, Advanced, Returns
  <2> QED BY <2>1, <2>2, DownKept DEF DownInv
<1>2. CASE SendRequest
  <2>1. state' = state
    BY <1>2 DEF SendRequest
  <2>2. Cur.pc = "send" /\ (Cur'.fn = Cur.fn \/ Cur' = Parent)
    BY <1>2, SendRequestMoves DEF MovesTo, Advanced, Returns
  <2> QED BY <2>1, <2>2, DownKept
<1>3. CASE RequestAnswered \/ RequestUnanswered \/ RequestExited
  <2>1. state' = state
    BY <1>3 DEF RequestAnswered, RequestUnanswered, RequestExited, client
  <2>2. Cur.pc # "resubscribe" /\ (Cur'.fn = Cur.fn \/ Cur' = Parent)
    BY <1>3, RequestEndMoves DEF MovesTo, Advanced, Returns
  <2> QED BY <2>1, <2>2, DownKept
<1>4. CASE RequestExit
  <2>1. state' # "CONNECTED"
    BY <1>4 DEF RequestExit, Disconnect, CloseConnection
  <2> QED BY <2>1 DEF DownInv
<1>5. CASE ReconnectStart
  <2>1. Cur.pc = "start" /\ Cur.fn = "reconnect"
    BY <1>5, ConnectMoves
  <2>2. state # "CONNECTED"
    BY <2>1 DEF DownInv, Connecting
  <2>3. state' # "CONNECTED"
    BY <1>5, <2>2 DEF ReconnectStart
  <2> QED BY <2>3 DEF DownInv
<1>6. CASE SendConnect \/ ConnectUnanswered
  <2>1. state' = state
    BY <1>6 DEF SendConnect, ConnectUnanswered
  <2>2. Cur.pc # "resubscribe" /\ (Cur'.fn = Cur.fn \/ Cur' = Parent)
    BY <1>6, ConnectMoves DEF MovesTo, Advanced, Returns
  <2> QED BY <2>1, <2>2, DownKept
<1>7. CASE ConnectAnswered
  <2>1. \/ Cur'.pc = "resubscribe"
        \/ Cur.fn = "connect" /\ Cur' = Parent
        \/ state' = state /\ Cur' = Parent
    BY <1>7, ConnectMoves DEF MovesTo, Advanced, Returns
  <2>2. Cur.fn = "connect" => Parent.fn \notin Connecting
    BY Waiting, NoCallFields DEF Connecting
  <2> QED BY <2>1, <2>2, DownKept DEF DownInv
<1>8. CASE Resubscribe
  <2>1. state' = state
    BY <1>8 DEF Resubscribe
  <2>2. Cur'.fn = "subscribe" \/ Cur' = Parent
    BY <1>8, ResubscribeMoves DEF Returns
  <2> QED BY <2>1, <2>2, DownKept DEF Connecting
<1>9. CASE YieldLoop \/ YieldReconnected \/ YieldReturns
  <2>1. state' = state
    BY <1>9 DEF YieldLoop, YieldReconnected, YieldReturns, client
  <2>2. \/ Cur'.fn = Cur.fn /\ Cur.pc # "resubscribe"
        \/ Cur' = Parent
        \/ state # "CONNECTED"
    BY <1>9, YieldMoves DEF MovesTo, Advanced, Returns
  <2> QED BY <2>1, <2>2, DownKept DEF DownInv
<1>10. CASE ReadPacket \/ ReadNothing \/ ReadError \/ Acknowledge \/ Keepalive
  <2>1. state' = state
    BY <1>10 DEF ReadPacket, ReadNothing, ReadError, Acknowledge, Keepalive, client
  <2>2. Cur.pc # "resubscribe" /\ Cur'.fn = Cur.fn
    BY <1>10, ReadMoves, AcknowledgeMoves, KeepaliveMoves DEF MovesTo, Advanced, Reads
  <2> QED BY <2>1, <2>2, DownKept
<1>11. CASE CycleFailed
  <2>1. Cur'.fn = Cur.fn /\ Cur.pc # "resubscribe"
    BY <1>11, CycleFailedMoves DEF MovesTo, Advanced
  <2>2. state' = state \/ state' # "CONNECTED"
    BY <1>11 DEF CycleFailed, CloseConnection
  <2> QED BY <2>1, <2>2, DownKept DEF DownInv
<1>12. CASE Publish \/ Subscribe \/ Unsubscribe \/ Yield
  <2>1. Cur'.fn \notin Connecting
    BY <1>12, ApplicationMoves, StringsDiffer
  <2> QED BY <2>1 DEF DownInv
<1>13. CASE UserDisconnect
  <2>1. Cur'.fn \notin Connecting
    BY <1>13, ApplicationMoves, NoCallFields, StringsDiffer
  <2> QED BY <2>1 DEF DownInv
<1>14. CASE SetAutoReconnect \/ Destroy \/ Environment \/ UNCHANGED vars
  <2>1. UNCHANGED <<calls, state>>
    BY <1>14 DEF SetAutoReconnect, Destroy, Environment, Stabilise, NetReset, NetMute,
                 BrokerPublish, Fault, vars, client
  <2>2. Cur' = Cur
    BY <2>1, CallsStay
  <2> QED BY <2>1, <2>2 DEF DownInv
<1>15. CASE Elapse
  <2>1. state' = state /\ Cur'.pc = Cur.pc /\ Cur'.fn = Cur.fn
    BY <1>15, ElapseMoves DEF Elapse, client
  <2> QED BY <2>1 DEF DownInv
<1> QED BY <1>1, <1>2, <1>3, <1>4, <1>5, <1>6, <1>7, <1>8, <1>9, <1>10, <1>11, <1>12, <1>13,
           <1>14, <1>15 DEF Next, ClientStep, Application

(***************************************************************************)
(* The acknowledgements on their way to the client                         *)
(***************************************************************************)

\* On a connection that brought one CONNECT, while the client is connected or awaits the
\* CONNACK, the broker owes the innermost request at most one acknowledgement and nobody
\* else any.  Spent: that acknowledgement has been read; a PUBREC is answered first, and
\* its PUBCOMP comes next.
Live ==
  /\ connects = 1
  /\ \/ state = "CONNECTED"
     \/ Cur.fn \in Connecting /\ Cur.pc \in Cycle \cup {"answered"}
Holds(c) == c.pc \in {"ack", "deliver", "post", "answered"} /\ c.got.type \in Acks
Spent(c) == Holds(c) /\ (c.pc = "ack" \/ c.got.type # "PUBREC")
Owed(c, q) ==
  \A i \in 1..Len(q) : q[i].type \in Acks =>
     /\ c.fn \in Requests /\ c.pc \in Cycle \cup {"unanswered", "exit"}
     /\ q[i].id = c.pid /\ ~Spent(c)
     /\ \A j \in 1..Len(q) : q[j].type \in Acks => i = j
AckOK(c, q) == Owed(c, q) /\ (Holds(c) => c.fn \in Requests /\ c.got.id = c.pid)
AckInv == Live => AckOK(Cur, pipe)

NoAcks(q) == \A i \in 1..Len(q) : q[i].type \notin Acks

LEMMA NoneOwed ==
  /\ \A c, q : NoAcks(q) => Owed(c, q)
  /\ NoAcks(<<>>)
  /\ \A c, q : Owed(c, q) /\ (Spent(c) \/ c.fn \notin Requests
                              \/ c.pc \notin Cycle \cup {"unanswered", "exit"}) => NoAcks(q)
BY DEF NoAcks, Owed

LEMMA NoAcksAppend ==
  ASSUME NEW q \in Seq(Packets), NEW p \in Packets, NoAcks(q), p.type \notin Acks
  PROVE  NoAcks(Append(q, p))
BY DEF NoAcks

\* The sequence may grow by a packet that is no acknowledgement, or by the first one.
LEMMA OwedAppend ==
  ASSUME NEW q \in Seq(Packets), NEW p \in Packets, NEW c,
         \/ Owed(c, q) /\ p.type \notin Acks
         \/ /\ NoAcks(q) /\ c.fn \in Requests /\ c.pc \in Cycle \cup {"unanswered", "exit"}
            /\ p.id = c.pid /\ ~Spent(c)
  PROVE  Owed(c, Append(q, p))
<1>1. /\ Len(Append(q, p)) = Len(q) + 1 /\ Len(q) \in Nat
      /\ \A i \in 1..(Len(q) + 1) :
            Append(q, p)[i] = IF i = Len(q) + 1 THEN p ELSE q[i]
  OBVIOUS
<1>2. \A i \in 1..(Len(q) + 1) : i = Len(q) + 1 \/ i \in 1..Len(q)
  BY <1>1
<1>3. CASE Owed(c, q) /\ p.type \notin Acks
  BY <1>1, <1>2, <1>3 DEF Owed
<1>4. CASE /\ NoAcks(q) /\ c.fn \in Requests /\ c.pc \in Cycle \cup {"unanswered", "exit"}
           /\ p.id = c.pid /\ ~Spent(c)
  BY <1>1, <1>2, <1>4 DEF Owed, NoAcks
<1> QED BY <1>3, <1>4

LEMMA OwedTail ==
  ASSUME NEW q \in Seq(Packets), q # <<>>, NEW c, Owed(c, q)
  PROVE  /\ Head(q) = q[1] /\ Tail(q) \in Seq(Packets)
         /\ Owed(c, Tail(q))
         /\ Head(q).type \in Acks => NoAcks(Tail(q)) /\ c.fn \in Requests /\ Head(q).id = c.pid
<1>1. /\ Head(q) = q[1] /\ Len(q) \in Nat /\ Len(q) > 0 /\ 1 \in 1..Len(q)
      /\ Len(Tail(q)) = Len(q) - 1 /\ Tail(q) \in Seq(Packets)
      /\ \A i \in 1..(Len(q) - 1) : Tail(q)[i] = q[i + 1] /\ i + 1 \in 1..Len(q) /\ i + 1 # 1
  OBVIOUS
<1>2. \A i, j \in 1..(Len(q) - 1) : i + 1 = j + 1 => i = j
  OBVIOUS
<1>3. Owed(c, Tail(q))
  BY <1>1, <1>2 DEF Owed
<1>4. Head(q).type \in Acks => NoAcks(Tail(q)) /\ c.fn \in Requests /\ Head(q).id = c.pid
  BY <1>1 DEF Owed, NoAcks
<1> QED BY <1>1, <1>3, <1>4

\* The same call goes on: what is owed to it is still owed unless the acknowledgement is new.
LEMMA OwedOn ==
  ASSUME NEW c, NEW d, NEW q, Owed(c, q), d.fn = c.fn, d.pid = c.pid,
         NoAcks(q) \/ d.pc \in Cycle \cup {"unanswered", "exit"},
         NoAcks(q) \/ (Spent(d) => Spent(c))
  PROVE  Owed(d, q)
BY NoneOwed DEF Owed

\* A step to a call, or to a point, that no acknowledgement is owed to.
LEMMA AckAway ==
  ASSUME AckInv, state' = state, connects' = connects, pipe' = pipe,
         Cur.fn \notin Requests \/ Cur.pc \notin Cycle \cup {"unanswered", "exit"} \/ Spent(Cur),
         Cur'.pc \notin {"ack", "deliver", "post", "answered"},
         Cur'.fn \in Connecting /\ Cur'.pc \in Cycle =>
            Cur.fn \in Connecting /\ Cur.pc \in Cycle
  PROVE  AckInv'
<1>1. SUFFICES ASSUME Live' PROVE AckOK(Cur', pipe')
  BY DEF AckInv
<1>2. Live
  BY <1>1 DEF Live
<1>3. NoAcks(pipe)
  BY <1>2, NoneOwed DEF AckInv, AckOK
<1> QED BY <1>3, NoneOwed DEF AckOK, Holds

\* A step within a call.
LEMMA AckOn ==
  ASSUME AckInv, state' = state, connects' = connects,
         Cur.pc \in Cycle \/ Cur'.fn \notin Connecting \/ Cur'.pc \notin Cycle \cup {"answered"},
         Cur'.fn = Cur.fn, Cur'.pid = Cur.pid,
         Live => /\ Owed(Cur', pipe')
                 /\ Holds(Cur') => Cur.fn \in Requests /\ Cur'.got.id = Cur.pid
  PROVE  AckInv'
BY DEF AckInv, AckOK, Live

LEMMA AckOff ==
  ASSUME ~(state' = "CONNECTED" \/ (Cur'.fn \in Connecting /\ Cur'.pc \in Cycle \cup {"answered"}))
  PROVE  AckInv'
BY DEF AckInv, Live

\* A broker answers with the packet id of what it was sent.
LEMMA Answered ==
  ASSUME NetOK, NEW type \in Answers, NEW id \in 0..MaxPacketId, Sent(BrokerAnswer(type, id))
  PROVE  \/ pipe' = pipe
         \/ type # "NONE" /\ pipe' = Append(pipe, Packet(type, id))
BY DEF Sent, BrokerAnswer, Reply, net

LEMMA RequestAnsweredBy ==
  ASSUME TypeInv, sp > 0, NEW id \in 1..MaxPacketId, Sent(RequestReceived(id)),
         Top.fn = "publish" => Top.qos # 0
  PROVE  \/ pipe' = pipe
         \/ \E p \in Packets :
               p.type \in Acks /\ p.type # "PUBLISH" /\ p.id = id /\ pipe' = Append(pipe, p)
<1>0. Top \in ProperFrames /\ id \in 0..MaxPacketId
  BY TopFrame DEF TypeInv
<1>1. \A type \in Answers : /\ Packet(type, id) \in Packets
                            /\ [Packet(type, id) EXCEPT !.ok = FALSE] \in Packets
                            /\ Packet(type, id).type = type /\ Packet(type, id).id = id
                            /\ [Packet(type, id) EXCEPT !.ok = FALSE].type = type
                            /\ [Packet(type, id) EXCEPT !.ok = FALSE].id = id
  BY <1>0, PacketOK DEF Packet
<1>2. {"PUBACK", "PUBREC", "SUBACK", "UNSUBACK"} \subseteq Answers \cap Acks
  BY DEF Answers, Acks
<1>3. CASE UNCHANGED net
  BY <1>3 DEF net
<1>4. CASE Top.fn = "publish" /\ BrokerAnswer(<<"NONE", "PUBACK", "PUBREC">>[Top.qos + 1], id)
  <2>1. Top.qos \in 1..2
    BY <1>0, <1>4, FrameFields
  <2>2. PICK type \in {"PUBACK", "PUBREC"} : BrokerAnswer(type, id)
    BY <1>4, <2>1
  <2>3. pipe' = Append(pipe, Packet(type, id))
    BY <2>2 DEF BrokerAnswer, Reply
  <2> QED BY <1>1, <1>2, <2>3
<1>5. CASE Top.fn = "subscribe" /\ BrokerSubscribe(Top.topic, id)
  BY <1>1, <1>2, <1>5 DEF BrokerSubscribe, Reply
<1>6. CASE Top.fn = "unsubscribe" /\ BrokerUnsubscribe(Top.topic, id)
  BY <1>1, <1>2, <1>6 DEF BrokerUnsubscribe, Reply
<1> QED BY <1>3, <1>4, <1>5, <1>6 DEF Sent, RequestReceived

LEMMA RequestAck ==
  ASSUME TypeInv, ShapeInv, AckInv,
         \/ CheckConnection \/ ConnectionChecked \/ SendRequest \/ RequestAnswered
         \/ RequestUnanswered \/ RequestExit \/ RequestExited
  PROVE  AckInv'
<1>1. CASE CheckConnection \/ ConnectionChecked
  <2>1. UNCHANGED <<state, connects, pipe>>
    BY <1>1 DEF CheckConnection, ConnectionChecked, client, net
  <2>2. /\ Cur.pc \in {"check", "checked"}
        /\ MovesTo("send") \/ Enters(HandleReconnect) \/ Returns
    BY <1>1, CheckConnectionMoves, ConnectionCheckedMoves
  <2>3. Cur'.pc \notin Cycle \cup {"answered"}
    BY <2>2, Waiting, HandleReconnectFields DEF MovesTo, Advanced, Enters, Returns, Cycle
  <2> QED BY <2>1, <2>2, <2>3, AckAway DEF Cycle
<1>2. CASE SendRequest
  <2>1. /\ Cur.pc = "send" /\ Cur.fn \in Requests /\ Cur = Top /\ sp > 0
        /\ UNCHANGED <<state, connects>>
    BY <1>2, SendRequestMoves, Calling, NoCallFields, StringsDiffer DEF SendRequest, At
  <2>2. CASE SendFails /\ MovesTo("exit")
    <3>1. pipe' = pipe /\ Cur'.pc = "exit"
      BY <2>2 DEF SendFails, net, MovesTo, Advanced
    <3> QED BY <2>1, <3>1, AckAway DEF Cycle
  <2>3. CASE Cur.fn = "publish" /\ Cur.qos = 0 /\ Returns /\ Sent(RequestReceived(0))
    <3>1. pipe' = pipe
      BY <2>1, <2>3 DEF Sent, RequestReceived, BrokerAnswer, net
    <3>2. Cur'.pc \notin Cycle \cup {"answered"}
      BY <2>3, Waiting DEF Returns, Cycle
    <3> QED BY <2>1, <3>1, <3>2, AckAway DEF Cycle
  <2>4. ASSUME NEW id \in 1..MaxPacketId, Sent(RequestReceived(id)),
               Cur'.fn = Cur.fn, Cur'.pc = "read", Cur'.pid = id, Cur.fn = "publish" => Cur.qos # 0
        PROVE  AckInv'
    <3>1. SUFFICES ASSUME Live' PROVE AckOK(Cur', pipe')
      BY DEF AckInv
    <3>2. Live
      BY <2>1, <2>4, <3>1, StringsDiffer DEF Live
    <3>3. NoAcks(pipe) /\ pipe \in Seq(Packets)
      BY <2>1, <3>2, NoneOwed DEF AckInv, AckOK, Cycle, TypeInv, NetOK
    <3>4. ~Holds(Cur') /\ ~Spent(Cur')
      BY <2>4 DEF Holds, Spent
    <3>5. Owed(Cur', pipe')
      <4>1. CASE pipe' = pipe
        BY <3>3, <4>1, NoneOwed
      <4>2. ASSUME NEW p \in Packets, p.id = id, pipe' = Append(pipe, p) PROVE Owed(Cur', pipe')
        BY <2>1, <2>4, <3>3, <3>4, <4>2, OwedAppend DEF Cycle
      <4> QED BY <2>1, <2>4, <4>1, <4>2, RequestAnsweredBy
    <3> QED BY <3>4, <3>5 DEF AckOK
  <2> QED BY <1>2, <2>2, <2>3, <2>4, SendRequestMoves
<1>3. CASE RequestAnswered
  <2>1. UNCHANGED <<state, connects, pipe>>
    BY <1>3 DEF RequestAnswered, net
  <2>2. Cur.pc = "answered" /\ Cur.fn \in Requests /\ Cur.got.type = Cur.want /\ Returns
    BY <1>3, RequestEndMoves
  <2>3. Formed(Cur)
    BY <2>2, Running, StringsDiffer
  <2>4. Spent(Cur)
    BY <2>2, <2>3 DEF Formed, AwaitsOwnAnswer, Spent, Holds, Acks
  <2>5. Cur'.pc \notin Cycle \cup {"answered"}
    BY <2>2, Waiting DEF Returns, Cycle
  <2> QED BY <2>1, <2>4, <2>5, AckAway DEF Cycle
<1>4. CASE RequestUnanswered
  <2>1. UNCHANGED <<state, connects, pipe>>
    BY <1>4 DEF RequestUnanswered, net
  <2>2. Cur.pc = "unanswered" /\ Cur.fn \in Requests /\ Cur'.pc = "exit"
        /\ Cur'.fn = Cur.fn /\ Cur'.pid = Cur.pid
    BY <1>4, RequestEndMoves DEF MovesTo, Advanced
  <2>3. ~Holds(Cur') /\ ~Spent(Cur')
    BY <2>2 DEF Holds, Spent
  <2>4. Live => Owed(Cur', pipe')
    BY <2>1, <2>2, <2>3, OwedOn DEF AckInv, AckOK
  <2> QED BY <2>1, <2>2, <2>3, <2>4, AckOn DEF Cycle
<1>5. CASE RequestExit
  <2>1. state' # "CONNECTED"
    BY <1>5 DEF RequestExit, Disconnect, CloseConnection
  <2>2. Cur'.pc = "start"
    BY <1>5, RequestEndMoves, HandleReconnectFields DEF Enters
  <2> QED BY <2>1, <2>2, AckOff DEF Cycle
<1>6. CASE RequestExited
  <2>1. UNCHANGED <<state, connects, pipe>>
    BY <1>6 DEF RequestExited, client, net
  <2>2. Cur.pc = "exited" /\ Cur'.pc \notin Cycle \cup {"answered"}
    BY <1>6, RequestEndMoves, Waiting DEF Returns, Cycle
  <2> QED BY <2>1, <2>2, AckAway DEF Cycle
<1> QED BY <1>1, <1>2, <1>3, <1>4, <1>5, <1>6

LEMMA ConnectAck ==
  ASSUME TypeInv, ShapeInv, ConnInv, DownInv, AckInv,
         \/ ReconnectStart \/ SendConnect \/ ConnectAnswered
         \/ ConnectUnanswered \/ Resubscribe
  PROVE  AckInv'
<1>1. CASE ReconnectStart
  <2>1. state' # "CONNECTED"
    BY <1>1, ConnectMoves DEF ReconnectStart, DownInv, Connecting
  <2>2. Cur'.pc \notin Cycle \cup {"answered"}
    BY <1>1, ConnectMoves, Waiting DEF Returns, MovesTo, Advanced, Cycle
  <2> QED BY <2>1, <2>2, AckOff
<1>2. CASE SendConnect
  <2>1. state' = state /\ state # "CONNECTED"
    BY <1>2, ConnectMoves DEF SendConnect, DownInv
  <2>2. CASE Returns
    <3>1. Cur'.pc \notin Cycle \cup {"answered"}
      BY <2>2, Waiting DEF Returns, Cycle
    <3> QED BY <2>1, <3>1, AckOff
  <2>3. CASE /\ Sent(BrokerConnect) /\ MovesTo("read")
             /\ connects' = IF connects = 0 THEN 1 ELSE 2
    <3>1. SUFFICES ASSUME Live' PROVE AckOK(Cur', pipe')
      BY DEF AckInv
    <3>2. connects = 0 /\ pipe = <<>> /\ ~broker.greeted /\ NoAcks(pipe)
      BY <2>3, <3>1, NoneOwed DEF Live, ConnInv
    <3>3. "CONNACK" \in Answers /\ 0 \in 0..MaxPacketId
      BY PacketIdAssumption DEF Answers
    <3>4. /\ Packet("CONNACK", 0) \in Packets
          /\ [Packet("CONNACK", 0) EXCEPT !.ok = FALSE] \in Packets
          /\ Packet("CONNACK", 0).type \notin Acks
          /\ [Packet("CONNACK", 0) EXCEPT !.ok = FALSE].type \notin Acks
      BY <3>3, PacketOK DEF Packet, Acks
    <3>5. \/ pipe' = pipe
          \/ \E p \in Packets : p.type \notin Acks /\ pipe' = Append(pipe, p)
      BY <2>3, <3>2, <3>4 DEF Sent, BrokerConnect, Reply, net
    <3>6. NoAcks(pipe')
      BY <3>2, <3>5, NoAcksAppend DEF TypeInv, NetOK
    <3>7. ~Holds(Cur')
      BY <2>3 DEF MovesTo, Advanced, Holds
    <3> QED BY <3>6, <3>7, NoneOwed DEF AckOK
  <2> QED BY <1>2, <2>2, <2>3, ConnectMoves
<1>3. CASE ConnectAnswered
  <2>1. /\ Cur.pc = "answered" /\ Cur.fn \in Connecting
        /\ Cur'.pc \notin Cycle \cup {"answered"}
    BY <1>3, ConnectMoves, Waiting DEF Returns, MovesTo, Advanced, Cycle
  <2>2. UNCHANGED <<pipe, connects>>
    BY <1>3 DEF ConnectAnswered, net
  <2>3. SUFFICES ASSUME Live' PROVE AckOK(Cur', pipe')
    BY DEF AckInv
  <2>4. Live
    BY <2>1, <2>2, <2>3 DEF Live
  <2>5. NoAcks(pipe)
    BY <2>1, <2>4, NoneOwed, StringsDiffer DEF AckInv, AckOK
  <2> QED BY <2>1, <2>2, <2>5, NoneOwed DEF AckOK, Holds, Cycle
<1>4. CASE ConnectUnanswered \/ Resubscribe
  <2>1. UNCHANGED <<state, connects, pipe>>
    BY <1>4 DEF ConnectUnanswered, Resubscribe, net
  <2>2. /\ Cur.fn \in Connecting
        /\ Cur'.pc \notin Cycle \cup {"answered"}
    BY <1>4, ConnectMoves, ResubscribeMoves, Waiting DEF Returns, Cycle, Connecting
  <2> QED BY <2>1, <2>2, AckAway, StringsDiffer DEF Cycle
<1> QED BY <1>1, <1>2, <1>3, <1>4

LEMMA CycleAck ==
  ASSUME TypeInv, ShapeInv, AckInv,
         \/ HandlerReturns \/ YieldLoop \/ YieldReconnected \/ YieldReturns
         \/ ReadPacket \/ ReadNothing \/ ReadError \/ Acknowledge \/ Keepalive \/ CycleFailed
  PROVE  AckInv'
<1>0. pipe \in Seq(Packets) /\ NetOK
  BY DEF TypeInv, NetOK
<1>1. CASE YieldLoop \/ YieldReconnected \/ YieldReturns
  <2>1. UNCHANGED <<state, connects, pipe>>
    BY <1>1 DEF YieldLoop, YieldReconnected, YieldReturns, client, net
  <2>2. /\ Cur.fn = "yield"
        /\ \/ Enters(HandleReconnect) \/ Returns
           \/ MovesTo("read") \/ MovesTo("loop") \/ MovesTo("sleep")
    BY <1>1, YieldMoves
  <2>3. /\ Cur'.pc \notin {"ack", "deliver", "post", "answered"}
        /\ Cur'.pc \in Cycle => Cur'.fn = "yield"
    BY <2>2, Waiting, HandleReconnectFields DEF Enters, Returns, MovesTo, Advanced, Cycle
  <2> QED BY <2>1, <2>2, <2>3, AckAway, StringsDiffer
<1>2. CASE ReadPacket
  <2>1. /\ UNCHANGED <<state, connects>> /\ pipe' = Tail(pipe)
    BY <1>2 DEF ReadPacket
  <2>2. /\ Cur.pc = "read" /\ pipe # <<>> /\ Cur'.fn = Cur.fn /\ Cur'.pid = Cur.pid
        /\ Cur'.got = Head(pipe) /\ Cur'.pc \in {"ack", "deliver", "post"}
    BY <1>2, ReadMoves DEF Reads
  <2>3. ASSUME Live
        PROVE  /\ Owed(Cur', pipe')
               /\ Holds(Cur') => Cur.fn \in Requests /\ Cur'.got.id = Cur.pid
    <3>1. Owed(Cur, pipe)
      BY <2>3 DEF AckInv, AckOK
    <3>2. /\ Owed(Cur, Tail(pipe))
          /\ Head(pipe).type \in Acks =>
               NoAcks(Tail(pipe)) /\ Cur.fn \in Requests /\ Head(pipe).id = Cur.pid
      BY <1>0, <2>2, <3>1, OwedTail
    <3>3. Spent(Cur') => NoAcks(Tail(pipe))
      BY <2>2, <3>2 DEF Spent, Holds
    <3>4. Owed(Cur', Tail(pipe))
      BY <2>2, <3>2, <3>3, OwedOn DEF Cycle
    <3> QED BY <2>1, <2>2, <3>2, <3>4 DEF Holds
  <2> QED BY <2>1, <2>2, <2>3, AckOn DEF Cycle
<1>3. CASE HandlerReturns \/ ReadNothing \/ ReadError
  <2>1. UNCHANGED <<state, connects, pipe>>
    BY <1>3 DEF HandlerReturns, ReadNothing, ReadError, client, net
  <2>2. /\ Cur.pc \in {"deliver", "read"} /\ Cur'.pc \in {"post", "cycleFailed"}
        /\ Cur'.fn = Cur.fn /\ Cur'.pid = Cur.pid
        /\ Cur'.pc = "post" => Cur'.got.type \in {"NONE", "PUBLISH"}
    BY <1>3, HandlerReturnsMoves, ReadMoves DEF MovesTo, Advanced, Reads, NoPacket, Packet
  <2>3. ~Holds(Cur') /\ ~Spent(Cur')
    BY <2>2 DEF Holds, Spent, Acks
  <2>4. Live => Owed(Cur', pipe')
    BY <2>1, <2>2, <2>3, OwedOn DEF AckInv, AckOK, Cycle
  <2> QED BY <2>1, <2>2, <2>3, <2>4, AckOn DEF Cycle
<1>4. CASE Acknowledge
  <2>1. /\ Cur.pc = "ack" /\ Cur = Top /\ Cur.got.type \in {"PUBREC", "PUBREL", "PUBLISH"}
        /\ Cur'.fn = Cur.fn /\ Cur'.pid = Cur.pid /\ Cur'.got = Cur.got
        /\ Cur'.pc \in {"deliver", "post", "cycleFailed"}
        /\ Cur' \in ProperFrames
    BY <1>4, AcknowledgeMoves DEF MovesTo, Advanced
  <2>2. UNCHANGED <<state, connects>>
    BY <1>4 DEF Acknowledge, client
  <2> DEFINE answer == IF Cur.got.type = "PUBREC" THEN "PUBCOMP"
                       ELSE IF Cur.got.type = "PUBLISH" /\ Cur.got.qos = 2 THEN "PUBREL" ELSE "NONE"
  <2>3. Cur.got.id \in 0..MaxPacketId /\ answer \in Answers
    BY <2>1, Calling, FrameFields DEF Packets, Answers
  <2>4. pipe' = pipe \/ Sent(BrokerAnswer(answer, Cur.got.id))
    BY <1>4, <2>1 DEF Acknowledge, SendFails, net
  <2>5. pipe' = pipe \/ (answer # "NONE" /\ pipe' = Append(pipe, Packet(answer, Cur.got.id)))
    BY <1>0, <2>3, <2>4, Answered
  <2>6. /\ Packet(answer, Cur.got.id) \in Packets
        /\ Packet(answer, Cur.got.id).type = answer
        /\ Packet(answer, Cur.got.id).id = Cur.got.id
    BY <2>3, PacketOK DEF Packet
  <2>7. ASSUME Live PROVE /\ Owed(Cur', pipe')
                          /\ Holds(Cur') => Cur.fn \in Requests /\ Cur'.got.id = Cur.pid
    <3>1. /\ Owed(Cur, pipe)
          /\ Holds(Cur) => Cur.fn \in Requests /\ Cur.got.id = Cur.pid
      BY <2>7 DEF AckInv, AckOK
    <3>2. Holds(Cur') => Holds(Cur)
      BY <2>1 DEF Holds
    <3>3. ~Spent(Cur')
      BY <2>1 DEF Spent, Holds, Acks
    <3>4. CASE Cur.got.type = "PUBREC"
      <4>1. Spent(Cur) /\ Holds(Cur)
        BY <2>1, <3>4 DEF Spent, Holds, Acks
      <4>2. NoAcks(pipe)
        BY <3>1, <4>1, NoneOwed
      <4>3. pipe' = pipe \/ pipe' = Append(pipe, Packet(answer, Cur.got.id))
        BY <2>5
      <4>4. Owed(Cur', Append(pipe, Packet(answer, Cur.got.id)))
        BY <1>0, <2>1, <2>6, <3>1, <3>3, <4>1, <4>2, OwedAppend DEF Cycle
      <4> QED BY <2>1, <3>1, <4>1, <4>2, <4>3, <4>4, NoneOwed
    <3>5. CASE Cur.got.type # "PUBREC"
      <4>1. Owed(Cur', pipe)
        BY <2>1, <3>1, <3>3, OwedOn DEF Cycle
      <4>2. answer \notin Acks
        BY <3>5 DEF Acks
      <4>3. Owed(Cur', pipe')
        BY <1>0, <2>5, <2>6, <4>1, <4>2, OwedAppend
      <4> QED BY <2>1, <3>1, <3>2, <4>3
    <3> QED BY <3>4, <3>5
  <2> QED BY <2>1, <2>2, <2>7, AckOn DEF Cycle
<1>5. CASE Keepalive
  <2>1. UNCHANGED <<state, connects>>
    BY <1>5 DEF Keepalive
  <2>2. /\ Cur.pc = "post" /\ Cur'.fn = Cur.fn /\ Cur'.pid = Cur.pid /\ Cur'.got = Cur.got
        /\ \/ Cur'.pc \in {"cycleFailed", "read", "unanswered"}
           \/ Cur'.pc \in {"loop", "sleep"} /\ Cur.fn = "yield"
           \/ Cur'.pc = "answered" /\ Cur.got.type = Cur.want /\ Cur.fn # "yield"
    BY <1>5, KeepaliveMoves DEF MovesTo, Advanced
  <2>3. Formed(Cur)
    BY <1>5, KeepaliveMoves, Running
  <2>4. pipe' = pipe \/ pipe' = Append(pipe, Packet("PINGRESP", 0))
    BY <1>0, <1>5, Answered, Known DEF Keepalive, SendFails, net
  <2>5. Packet("PINGRESP", 0) \in Packets /\ Packet("PINGRESP", 0).type \notin Acks
    BY PacketOK, Known DEF Packet, Acks
  <2>6. ASSUME Live PROVE /\ Owed(Cur', pipe')
                          /\ Holds(Cur') => Cur.fn \in Requests /\ Cur'.got.id = Cur.pid
    <3>1. /\ Owed(Cur, pipe)
          /\ Holds(Cur) => Cur.fn \in Requests /\ Cur.got.id = Cur.pid
      BY <2>6 DEF AckInv, AckOK
    <3>2. Holds(Cur') => Holds(Cur) /\ Spent(Cur)
      BY <2>2, <2>3 DEF Holds, Spent, Formed, AwaitsOwnAnswer, Acks, Connecting, Requests
    <3>3. NoAcks(pipe) \/ Cur'.pc \in Cycle \cup {"unanswered", "exit"}
      BY <2>2, <2>3, <3>1, <3>2, NoneOwed, StringsDiffer
         DEF Cycle, Holds, Formed, AwaitsOwnAnswer, Acks
    <3>4. Owed(Cur', pipe)
      BY <2>2, <3>1, <3>2, <3>3, OwedOn DEF Spent
    <3>5. Owed(Cur', pipe')
      BY <1>0, <2>4, <2>5, <3>4, OwedAppend
    <3> QED BY <2>2, <3>1, <3>2, <3>5
  <2> QED BY <2>1, <2>2, <2>6, AckOn DEF Cycle
<1>6. CASE CycleFailed
  <2>1. Cur'.pc \in {"sleep", "unanswered"} /\ Cur.pc = "cycleFailed"
        /\ Cur'.fn = Cur.fn /\ Cur'.pid = Cur.pid
    BY <1>6, CycleFailedMoves DEF MovesTo, Advanced
  <2>2. state' # "CONNECTED"
    BY <1>6 DEF CycleFailed, CloseConnection
  <2> QED BY <2>1, <2>2, AckOff DEF Cycle
<1> QED BY <1>1, <1>2, <1>3, <1>4, <1>5, <1>6

LEMMA OutsideAck ==
  ASSUME TypeInv, ShapeInv, AckInv, ~Callbacks,
         Application \/ Environment \/ Elapse \/ UNCHANGED vars
  PROVE  AckInv'
<1>0. pipe \in Seq(Packets) /\ NetOK
  BY DEF TypeInv, NetOK
<1>1. CASE Publish \/ Subscribe \/ Unsubscribe \/ Yield
  <2>1. UNCHANGED <<state, connects, pipe>> /\ Cur = NoCall /\ Cur'.pc \notin Cycle \cup {"answered"}
    BY <1>1, ApplicationMoves DEF client, net, Cycle
  <2> QED BY <2>1, AckAway, NoCallFields DEF Cycle
<1>2. CASE UserDisconnect
  <2>1. state' = "INITIALIZED" /\ Cur' = NoCall
    BY <1>2, ApplicationMoves DEF UserDisconnect, Disconnect, CloseConnection
  <2> QED BY <2>1, AckOff, NoCallFields, StringsDiffer
<1>3. CASE SetAutoReconnect \/ Destroy \/ Stabilise \/ NetMute \/ UNCHANGED vars
  <2>1. UNCHANGED <<calls, state, connects, pipe>>
    BY <1>3 DEF SetAutoReconnect, Destroy, Stabilise, NetMute, Fault, vars, client, net
  <2>2. Cur' = Cur
    BY <2>1, CallsStay
  <2> QED BY <2>1, <2>2 DEF AckInv, Live
<1>4. CASE NetReset
  <2>1. UNCHANGED <<calls, state, connects>> /\ pipe' = <<>>
    BY <1>4 DEF NetReset, Fault, client
  <2>2. Cur' = Cur /\ Owed(Cur, <<>>)
    BY <2>1, CallsStay, NoneOwed
  <2> QED BY <2>1, <2>2 DEF AckInv, AckOK, Live
<1>5. CASE BrokerPublish
  <2>1. UNCHANGED <<calls, state, connects>>
    BY <1>5 DEF BrokerPublish, client
  <2>2. PICK q \in PushQoS :
          pipe' = Append(pipe, [Packet("PUBLISH", IF q = 0 THEN 0 ELSE 1) EXCEPT !.qos = q])
    BY <1>5 DEF BrokerPublish
  <2> DEFINE p == [Packet("PUBLISH", IF q = 0 THEN 0 ELSE 1) EXCEPT !.qos = q]
  <2>3. p \in Packets /\ p.type = "PUBLISH"
    <3>1. (IF q = 0 THEN 0 ELSE 1) \in 0..MaxPacketId /\ q \in 0..2
      BY PacketIdAssumption, OptionsAssumption
    <3>2. Packet("PUBLISH", IF q = 0 THEN 0 ELSE 1) \in Packets
      BY <3>1, PacketOK, Known
    <3> QED BY <3>1, <3>2 DEF Packets, Packet
  <2>4. Cur' = Cur
    BY <2>1, CallsStay
  <2> HIDE DEF p
  <2>5. Owed(Cur, pipe) => Owed(Cur, Append(pipe, p))
    BY <1>0, <2>3, OwedAppend DEF Acks
  <2>6. pipe' = Append(pipe, p)
    BY <2>2 DEF p
  <2> QED BY <2>1, <2>4, <2>5, <2>6 DEF AckInv, AckOK, Live
<1>6. CASE Elapse
  <2>1. UNCHANGED <<state, connects, pipe>> /\ Cur'.fn = Cur.fn /\ Cur'.pc = Cur.pc
        /\ Cur'.got = Cur.got /\ Cur'.pid = Cur.pid
    BY <1>6, ElapseMoves DEF Elapse, client, net
  <2> QED BY <2>1 DEF AckInv, AckOK, Owed, Holds, Spent, Live
<1> QED BY <1>1, <1>2, <1>3, <1>4, <1>5, <1>6 DEF Application, Environment

RequestInv == ShapeInv /\ ConnInv /\ DownInv /\ AckInv

LEMMA ShapeStep == ASSUME TypeInv, ShapeInv, ~Callbacks, [Next]_vars PROVE ShapeInv'
<1>1. CASE ClientStep
  BY <1>1, HandlerReturnsMoves, CheckConnectionMoves, ConnectionCheckedMoves, SendRequestMoves,
     RequestEndMoves, ConnectMoves, ResubscribeMoves, YieldMoves, ReadMoves, AcknowledgeMoves,
     KeepaliveMoves, CycleFailedMoves
     DEF ClientStep, MovesTo, Enters, Returns, Reads
<1>2. CASE Publish \/ Subscribe \/ Unsubscribe \/ Yield \/ UserDisconnect
  BY <1>2, ApplicationMoves
<1>3. CASE SetAutoReconnect \/ Destroy \/ Environment \/ UNCHANGED vars
  <2>1. UNCHANGED calls
    BY <1>3 DEF SetAutoReconnect, Destroy, Environment, Stabilise, NetReset, NetMute,
                BrokerPublish, Fault, vars
  <2> QED BY <2>1, CallsStay
<1>4. CASE Elapse
  BY <1>4, ElapseMoves
<1> QED BY <1>1, <1>2, <1>3, <1>4 DEF Next, Application

LEMMA RequestStep ==
  ASSUME TypeInv, RequestInv, ~Callbacks, [Next]_vars PROVE RequestInv'
<1>1. ShapeInv' /\ ConnInv' /\ DownInv'
  BY ShapeStep, ConnStep, DownStep DEF RequestInv
<1>2. AckInv'
  <2>1. CASE ClientStep
    BY <2>1, RequestAck, ConnectAck, CycleAck DEF ClientStep, RequestInv
  <2>2. CASE Application \/ Environment \/ Elapse \/ UNCHANGED vars
    BY <2>2, OutsideAck DEF RequestInv
  <2> QED BY <2>1, <2>2 DEF Next
<1> QED BY <1>1, <1>2 DEF RequestInv

LEMMA InitCall ==
  ASSUME Init
  PROVE  /\ ShapeInv /\ Cur = Frame("connect", "connect", NoTopic, "CONNACK", 0)
         /\ Parent = NoCall
<1>1. sp = 1 /\ stk[1] = Frame("connect", "connect", NoTopic, "CONNACK", 0)
  BY BoundsAssumption DEF Init
<1>2. Formed(Frame("connect", "connect", NoTopic, "CONNACK", 0))
  BY DEF Frame, Formed, AtOwnPoint, AwaitsOwnAnswer, HoldsItsPacket, Requests, Connecting, Cycle
<1> QED BY <1>1, <1>2 DEF ShapeInv, Cur, Parent

LEMMA RequestInit == Init => RequestInv
<1> SUFFICES ASSUME Init PROVE RequestInv
  OBVIOUS
<1>1. ShapeInv /\ Cur.fn = "connect" /\ Cur.pc = "connect"
  BY InitCall DEF Frame
<1>2. state = "NETWORK_READY" /\ connects = 0 /\ pipe = <<>> /\ broker.greeted = FALSE
  BY DEF Init
<1> QED BY <1>1, <1>2 DEF RequestInv, ConnInv, DownInv, AckInv, Live

\* Although waitfor compares packet types only, the acknowledgement that a call of a
\* connected client takes for its own answers its own request: a request that gives up
\* waiting closes its connection, so that no late acknowledgement outlives it, whatever is
\* lost, reset, refused or reordered in between.
THEOREM AnswersAreOwn == Spec /\ ~Callbacks => []AnswerIsMine
<1> SUFFICES ASSUME ~Callbacks PROVE Spec => []AnswerIsMine
  OBVIOUS
<1>1. TypeInv /\ RequestInv => AnswerIsMine
  <2> SUFFICES ASSUME TypeInv, RequestInv, At("answered"),
                      Top.fn \in {"publish", "subscribe", "unsubscribe"},
                      state = "CONNECTED", connects = 1
               PROVE  Top.got.id = Top.pid
    BY DEF AnswerIsMine
  <2>1. Cur = Top /\ Cur.pc = "answered" /\ Formed(Cur)
    BY Runs, Known DEF RequestInv
  <2>2. Cur.got.type \in Acks
    BY <2>1 DEF Formed, AwaitsOwnAnswer, HoldsItsPacket, Requests, Acks
  <2> QED BY <2>1, <2>2 DEF RequestInv, AckInv, Live, AckOK, Holds
<1>2. TypeInv /\ RequestInv /\ [Next]_vars => RequestInv'
  BY RequestStep
<1> QED BY <1>1, <1>2, RequestInit, TypeInvHolds, PTL DEF Spec

(***************************************************************************)
(* The handler table and the subscriptions of the broker                   *)
(***************************************************************************)

\* The filters with a handler, and those the re-subscription loop has still to see.
Handled == {handlers[i] : i \in Slots} \ {NoTopic}
Later(n) == {handlers[i] : i \in {j \in Slots : j >= n}}
Unseen(f) == IF f.fn = "reconnect" THEN Later(f.slot) ELSE {}

\* The broker sends for every handled filter, or for all of them but those in S.
Agree == Handled = broker.subs
Behind(S) == broker.subs \subseteq Handled /\ Handled \ broker.subs \subseteq S

Waits == {"read", "ack", "deliver", "post", "answered"}
HasRead(c) == c.pc \in Waits \ {"read"}
TellsTruth(p, t) == p.type = "SUBACK" => (p.ok <=> t \in broker.subs)

\* What the innermost call has done to the table and to the broker so far.
CallSubs ==
  /\ Cur.fn \in {"none", "yield"} \/ Cur.pc \in {"checked", "exited"} => Agree
  /\ Cur.fn = "reconnect" => Behind(Unseen(Cur))
  /\ Cur.fn \in Requests /\ Cur.pc \in {"check", "send"} =>
       Behind(Unseen(Parent) \cup (IF Parent.fn = "none" THEN {} ELSE {Cur.topic}))
  /\ Cur.fn = "publish" /\ Cur.pc \in Waits => Agree
  /\ Cur.fn = "unsubscribe" /\ Cur.pc \in Waits => Handled \ {Cur.topic} = broker.subs
  /\ Cur.fn = "subscribe" /\ Cur.pc \in Waits =>
       /\ Cur.topic \in Handled
       /\ Behind(Unseen(Parent) \cup {Cur.topic})
       /\ \A i \in 1..Len(pipe) : TellsTruth(pipe[i], Cur.topic)
       /\ HasRead(Cur) => TellsTruth(Cur.got, Cur.topic)

Serving == state = "CONNECTED" /\ sock = "up" /\ ~app.destroyed
SubsInv ==
  /\ Cur.fn = "connect" => Handled = {}
  /\ sock = "up" /\ Cur.fn \in Connecting /\ Cur.pc \in Cycle \cup {"answered"} =>
       broker.subs = {}
  /\ Serving => CallSubs

\* The table has a slot for every filter of the application.
EnoughSlots == IsFiniteSet(Topics) /\ Cardinality(Topics) <= MaxHandlers

LEMMA FirstFree ==
  ASSUME TypeInv, NEW i \in Slots, handlers[i] = NoTopic
  PROVE  \E m \in Slots : handlers[m] = NoTopic /\ \A j \in Slots : j < m => handlers[j] # NoTopic
<1> DEFINE F == {j \in Slots : handlers[j] = NoTopic}
<1>1. F \in SUBSET Nat /\ i \in F
  BY DEF Slots
<1>2. PICK m \in F : \A k \in F : m <= k
  <2> DEFINE R == OpToRel(<, Nat)
  <2> HIDE DEF F, R
  <2>1. F \subseteq Nat /\ F # {} /\ IsWellFoundedOn(R, Nat)
    BY <1>1, NatLessThanWellFounded DEF R
  <2>2. PICK m \in F : \A k \in F : ~(<<k, m>> \in R)
    BY <2>1, WFMin
  <2>3. \A k, n \in Nat : <<k, n>> \in R <=> k < n
    BY DEF R, OpToRel
  <2>4. \A k \in F : ~(k < m) /\ k \in Nat /\ m \in Nat
    BY <2>1, <2>2, <2>3
  <2> QED BY <2>4
<1>3. \A j \in Slots : j < m => ~(m <= j)
  BY <1>1 DEF Slots
<1> QED BY <1>2, <1>3

\* Duplicates aside, a full table holds every filter.
LEMMA FullHoldsAll ==
  ASSUME TypeInv, NoDuplicateHandler, EnoughSlots, \A i \in Slots : handlers[i] # NoTopic,
         NEW t \in Topics
  PROVE  \E i \in Slots : handlers[i] = t
<1>1. SUFFICES ASSUME \A i \in Slots : handlers[i] # t PROVE FALSE
  OBVIOUS
<1>2. MaxHandlers \in Nat
  BY HandlersAssumption
<1>3. IsFiniteSet(Slots) /\ Cardinality(Slots) = MaxHandlers
  BY <1>2, FS_Interval DEF Slots
<1>4. /\ IsFiniteSet(Topics \ {t}) /\ Cardinality(Topics \ {t}) = Cardinality(Topics) - 1
      /\ Cardinality(Topics) \in Nat
  BY FS_RemoveElement, FS_CardinalityType DEF EnoughSlots
<1>5. handlers \in [Slots -> Topics \ {t}]
  BY <1>1 DEF TypeInv, ClientOK
<1>6. \E x, y \in Slots : x # y /\ handlers[x] = handlers[y]
  <2>1. Cardinality(Topics \ {t}) < Cardinality(Slots)
    BY <1>2, <1>3, <1>4 DEF EnoughSlots
  <2> HIDE DEF EnoughSlots, NoDuplicateHandler
  <2> QED BY <1>3, <1>4, <1>5, <2>1, FS_PigeonHole
<1> QED BY <1>6 DEF NoDuplicateHandler

\* tc_iot_mqtt_set_message_handler gives every filter a slot.
LEMMA RegisteredAdds ==
  ASSUME TypeInv, NoDuplicateHandler, EnoughSlots, NEW t \in Topics, handlers' = Registered(t)
  PROVE  /\ Handled' = Handled \cup {t}
         /\ \A n \in Nat : Later(n) \ {NoTopic} \subseteq Later(n)'
<1>0. NoTopic \notin Topics /\ handlers \in [Slots -> Topics \cup {NoTopic}]
  BY HandlersAssumption DEF TypeInv, ClientOK
<1>1. CASE \E i \in Slots : handlers[i] = t
  <2>1. handlers' = handlers
    BY <1>1 DEF Registered
  <2>2. t \in Handled
    BY <1>0, <1>1 DEF Handled
  <2> QED BY <2>1, <2>2 DEF Handled, Later
<1>2. CASE \A i \in Slots : handlers[i] # t
  <2>1. PICK i \in Slots : handlers[i] = NoTopic
    BY <1>2, FullHoldsAll
  <2>2. PICK m \in Slots :
           handlers[m] = NoTopic /\ \A j \in Slots : j < m => handlers[j] # NoTopic
    BY <2>1, FirstFree
  <2>3. \A k \in Slots : handlers'[k] = IF k = m THEN t ELSE handlers[k]
    <3>1. \A k \in Slots :
             handlers'[k] = IF handlers[k] = NoTopic /\ \A j \in Slots : j < k => handlers[j] # NoTopic
                            THEN t ELSE handlers[k]
      BY <1>2, <2>1 DEF Registered
    <3>2. \A k \in Slots : k # m => k < m \/ m < k
      BY DEF Slots
    <3> QED BY <2>2, <3>1, <3>2
  <2>4. Handled' = Handled \cup {t}
    BY <1>0, <2>2, <2>3 DEF Handled
  <2>5. \A n \in Nat : Later(n) \ {NoTopic} \subseteq Later(n)'
    BY <2>2, <2>3 DEF Later
  <2> QED BY <2>4, <2>5
<1> QED BY <1>1, <1>2

LEMMA UnregisteredRemoves ==
  ASSUME TypeInv, NoDuplicateHandler, NEW t \in Topics \cup {NoTopic}, handlers' = Unregistered(t)
  PROVE  /\ Handled' = Handled \ {t}
         /\ \A n \in Nat : Later(n) \ {t} \subseteq Later(n)'
<1>1. \A k \in Slots :
         handlers'[k] = IF handlers[k] = t /\ \A j \in Slots : j < k => handlers[j] # t
                        THEN NoTopic ELSE handlers[k]
  BY DEF Unregistered
<1>2. \A k \in Slots : handlers[k] # t => handlers'[k] = handlers[k]
  BY <1>1
<1>3. \A k \in Slots : handlers[k] = t => handlers'[k] = NoTopic
  <2>1. CASE t = NoTopic
    BY <1>1, <2>1
  <2>2. CASE t # NoTopic
    <3>1. \A k, j \in Slots : handlers[k] = t /\ handlers[j] = t => k = j
      BY <2>2 DEF NoDuplicateHandler
    <3>2. \A k \in Slots : ~(k < k)
      BY DEF Slots
    <3> QED BY <1>1, <3>1, <3>2
  <2> QED BY <2>1, <2>2
<1>4. Handled' = Handled \ {t}
  <2>1. \A x : x \in Handled' => x \in Handled \ {t}
    BY <1>2, <1>3 DEF Handled
  <2>2. \A x : x \in Handled \ {t} => x \in Handled'
    BY <1>2 DEF Handled
  <2> QED BY <2>1, <2>2
<1>5. \A n \in Nat : Later(n) \ {t} \subseteq Later(n)'
  BY <1>2 DEF Later
<1> QED BY <1>4, <1>5

\* A step after which no call of a serving client is concerned.
LEMMA SubsAway ==
  ASSUME Cur'.fn # "connect" \/ Handled' = {},
         Cur'.fn \notin Connecting \/ Cur'.pc \notin Cycle \cup {"answered"},
         Serving' => /\ Cur'.fn \in Requests
                     /\ Cur'.pc \notin Waits \cup {"check", "send", "checked", "exited"}
  PROVE  SubsInv'
BY DEF SubsInv, CallSubs, Requests

\* A return to a caller, to which the table and the broker must make sense.
LEMMA SubsBack ==
  ASSUME TypeInv, ShapeInv, Returns,
         Serving' => Agree' \/ (Parent.fn = "reconnect" /\ Behind(Unseen(Cur))')
  PROVE  SubsInv'
<1>1. Cur' = Parent
  BY DEF Returns
<1>2. Parent.pc \in {"none", "checked", "exited", "resubscribe", "reconnected"}
  BY Waiting
<1>3. Parent.fn # "connect" /\ (Parent.fn = "reconnect" => Parent.pc = "resubscribe")
  <2>1. CASE Parent.fn = "none"
    BY <2>1
  <2>2. CASE Parent.fn # "none"
    BY <2>2, Waiting DEF Nests, Formed, AtOwnPoint, Cycle, Connecting
  <2> QED BY <2>1, <2>2
<1>4. ASSUME Serving' PROVE CallSubs'
  <2>1. Agree' => Behind(Unseen(Cur))'
    BY DEF Agree, Behind
  <2>2. CASE Agree'
    BY <1>1, <1>2, <2>1, <2>2 DEF CallSubs, Waits
  <2>3. CASE Parent.fn = "reconnect" /\ Behind(Unseen(Cur))'
    BY <1>1, <1>2, <1>3, <2>3 DEF CallSubs, Waits, Requests
  <2> QED BY <1>4, <2>2, <2>3
<1> QED BY <1>1, <1>2, <1>3, <1>4 DEF SubsInv, Cycle

\* A step of the innermost call that leaves the table and the broker as they are.
LEMMA SubsOn ==
  ASSUME SubsInv, handlers' = handlers, broker'.subs = broker.subs,
         Cur'.fn = Cur.fn, Cur'.topic = Cur.topic, Cur'.slot = Cur.slot,
         Parent'.fn = Parent.fn, Parent'.slot = Parent.slot,
         sock' = "up" => sock = "up",
         Cur.pc \in Cycle \cup {"answered"} \/ Cur'.pc \notin Cycle \cup {"answered"}
           \/ Cur.fn \notin Connecting,
         Serving' => Serving,
         \/ Cur'.pc = Cur.pc
         \/ Cur.pc \in Waits /\ Cur'.pc \in Waits
         \/ Cur.fn = "yield"
         \/ Cur'.pc \in {"cycleFailed", "unanswered", "exit"},
         \A i \in 1..Len(pipe') : \/ pipe'[i].type # "SUBACK"
                                  \/ \E j \in 1..Len(pipe) : pipe'[i] = pipe[j],
         HasRead(Cur') => \/ Cur'.got.type # "SUBACK"
                          \/ HasRead(Cur) /\ Cur'.got = Cur.got
                          \/ Cur.pc = "read" /\ \E j \in 1..Len(pipe) : Cur'.got = pipe[j]
  PROVE  SubsInv'
<1>1. /\ Handled' = Handled
      /\ Agree' <=> Agree
      /\ Behind(Unseen(Cur))' <=> Behind(Unseen(Cur))
      /\ Behind(Unseen(Parent) \cup {Cur.topic})' <=> Behind(Unseen(Parent) \cup {Cur.topic})
      /\ Behind(Unseen(Parent) \cup (IF Parent.fn = "none" THEN {} ELSE {Cur.topic}))' <=>
           Behind(Unseen(Parent) \cup (IF Parent.fn = "none" THEN {} ELSE {Cur.topic}))
  BY DEF Handled, Agree, Behind, Unseen, Later
<1>2. /\ Cur'.fn = "connect" => Handled' = {}
      /\ sock' = "up" /\ Cur'.fn \in Connecting /\ Cur'.pc \in Cycle \cup {"answered"} =>
           broker'.subs = {}
  BY <1>1 DEF SubsInv
<1>3. ASSUME Serving' PROVE CallSubs'
  <2>0. CallSubs
    BY <1>3 DEF SubsInv
  <2>1. CASE Cur'.pc \in {"cycleFailed", "unanswered", "exit"} \/ Cur.fn = "yield"
    BY <1>1, <2>0, <2>1 DEF CallSubs, Waits, Requests
  <2>2. CASE Cur'.pc = Cur.pc \/ (Cur.pc \in Waits /\ Cur'.pc \in Waits)
    <3>1. ASSUME Cur'.fn = "subscribe", Cur'.pc \in Waits
          PROVE  /\ Cur.topic \in Handled
                 /\ Behind(Unseen(Parent) \cup {Cur.topic})
                 /\ \A i \in 1..Len(pipe') :
                      pipe'[i].type = "SUBACK" => (pipe'[i].ok <=> Cur'.topic \in broker'.subs)
                 /\ HasRead(Cur') =>
                      (Cur'.got.type = "SUBACK" => (Cur'.got.ok <=> Cur'.topic \in broker'.subs))
      <4>1. /\ Cur.topic \in Handled
            /\ Behind(Unseen(Parent) \cup {Cur.topic})
            /\ \A i \in 1..Len(pipe) : TellsTruth(pipe[i], Cur.topic)
            /\ HasRead(Cur) => TellsTruth(Cur.got, Cur.topic)
        BY <2>0, <2>2, <3>1 DEF CallSubs
      <4>2. \A p : TellsTruth(p, Cur.topic) =>
                     (p.type = "SUBACK" => (p.ok <=> Cur'.topic \in broker'.subs))
        BY DEF TellsTruth
      <4>3. \A i \in 1..Len(pipe') :
               pipe'[i].type = "SUBACK" => (pipe'[i].ok <=> Cur'.topic \in broker'.subs)
        BY <4>1, <4>2
      <4>4. HasRead(Cur') =>
               (Cur'.got.type = "SUBACK" => (Cur'.got.ok <=> Cur'.topic \in broker'.subs))
        BY <4>1, <4>2
      <4> QED BY <4>1, <4>3, <4>4
    <3>2. Cur'.pc \in {"check", "send", "checked", "exited"} => Cur'.pc = Cur.pc
      BY <2>2 DEF Waits
    <3>3. Cur'.pc \in Waits => Cur.pc \in Waits
      BY <2>2
    <3>4. (Cur.fn \in {"none", "yield"} \/ Cur.pc \in {"checked", "exited"} => Agree)'
      BY <1>1, <2>0, <3>2 DEF CallSubs
    <3>5. (Cur.fn = "reconnect" => Behind(Unseen(Cur)))'
      BY <1>1, <2>0 DEF CallSubs
    <3>6. (Cur.fn \in Requests /\ Cur.pc \in {"check", "send"} =>
             Behind(Unseen(Parent) \cup (IF Parent.fn = "none" THEN {} ELSE {Cur.topic})))'
      BY <1>1, <2>0, <3>2 DEF CallSubs
    <3>7. (Cur.fn = "publish" /\ Cur.pc \in Waits => Agree)'
      BY <1>1, <2>0, <3>3 DEF CallSubs
    <3>8. (Cur.fn = "unsubscribe" /\ Cur.pc \in Waits => Handled \ {Cur.topic} = broker.subs)'
      BY <1>1, <2>0, <3>3 DEF CallSubs
    <3>9. (Cur.fn = "subscribe" /\ Cur.pc \in Waits => Cur.topic \in Handled)'
      BY <1>1, <3>1
    <3>10. (Cur.fn = "subscribe" /\ Cur.pc \in Waits => Behind(Unseen(Parent) \cup {Cur.topic}))'
      BY <1>1, <3>1
    <3>11. (Cur.fn = "subscribe" /\ Cur.pc \in Waits =>
              \A i \in 1..Len(pipe) : TellsTruth(pipe[i], Cur.topic))'
      BY <3>1 DEF TellsTruth
    <3>12. (Cur.fn = "subscribe" /\ Cur.pc \in Waits /\ HasRead(Cur) =>
              TellsTruth(Cur.got, Cur.topic))'
      BY <3>1 DEF TellsTruth, HasRead
    <3> QED BY <3>4, <3>5, <3>6, <3>7, <3>8, <3>9, <3>10, <3>11, <3>12 DEF CallSubs
  <2> QED BY <2>1, <2>2
<1> QED BY <1>2, <1>3 DEF SubsInv

\* A step to a request that is about to be sent.
LEMMA SubsSend ==
  ASSUME Cur'.fn \in Requests, Cur'.pc \in {"check", "send"},
         Serving' =>
           Behind(Unseen(Parent) \cup (IF Parent.fn = "none" THEN {} ELSE {Cur.topic}))'
  PROVE  SubsInv'
BY DEF SubsInv, CallSubs, Requests, Connecting, Waits

LEMMA AgreeBehind ==
  /\ Agree => \A S : Behind(S)
  /\ Behind({}) => Agree
  /\ Behind({NoTopic}) => Agree
BY DEF Agree, Behind, Handled

\* Nothing but its parent's loop is behind while a call runs that the application made.
LEMMA OwnCall ==
  /\ Unseen(NoCall) = {}
  /\ Parent = NoCall =>
       Unseen(Parent) \cup (IF Parent.fn = "none" THEN {} ELSE {Cur.topic}) = {}
BY NoCallFields DEF Unseen

LEMMA PipeSubs ==
  ASSUME pipe \in Seq(Packets), NEW p \in Packets, p.type # "SUBACK",
         pipe' \in {pipe, <<>>, Append(pipe, p)} \/ (pipe # <<>> /\ pipe' = Tail(pipe))
  PROVE  \A i \in 1..Len(pipe') : \/ pipe'[i].type # "SUBACK"
                                  \/ \E j \in 1..Len(pipe) : pipe'[i] = pipe[j]
<1>1. CASE pipe' = pipe \/ pipe' = <<>>
  BY <1>1
<1>2. CASE pipe # <<>> /\ pipe' = Tail(pipe)
  <2>1. \A i \in 1..Len(Tail(pipe)) : i + 1 \in 1..Len(pipe) /\ Tail(pipe)[i] = pipe[i + 1]
    BY <1>2
  <2> QED BY <1>2, <2>1
<1>3. CASE pipe' = Append(pipe, p)
  <2>1. \A i \in 1..Len(Append(pipe, p)) :
           \/ Append(pipe, p)[i] = p
           \/ i \in 1..Len(pipe) /\ Append(pipe, p)[i] = pipe[i]
    OBVIOUS
  <2> QED BY <1>3, <2>1
<1> QED BY <1>1, <1>2, <1>3

LEMMA CycleSubs ==
  ASSUME TypeInv, ShapeInv, SubsInv,
         \/ HandlerReturns \/ ReadPacket \/ ReadNothing \/ ReadError
         \/ Acknowledge \/ Keepalive \/ CycleFailed
  PROVE  SubsInv'
<1>0. NetOK /\ pipe \in Seq(Packets)
  BY DEF TypeInv, NetOK
<1>1. CASE HandlerReturns \/ ReadNothing \/ ReadError
  <2>1. UNCHANGED <<state, handlers, broker, sock, pipe, app>>
    BY <1>1 DEF HandlerReturns, ReadNothing, ReadError, client, net
  <2>2. /\ Cur.pc \in {"deliver", "read"} /\ Cur'.pc \in {"post", "cycleFailed"}
        /\ Cur'.fn = Cur.fn /\ Cur'.topic = Cur.topic /\ Cur'.slot = Cur.slot /\ Parent' = Parent
        /\ Cur'.pc = "post" => Cur'.got.type \in {"NONE", "PUBLISH"}
    BY <1>1, HandlerReturnsMoves, ReadMoves DEF MovesTo, Advanced, Reads, NoPacket, Packet
  <2> QED BY <2>1, <2>2, SubsOn DEF Serving, Waits, HasRead, Cycle
<1>2. CASE ReadPacket
  <2>1. UNCHANGED <<state, handlers, broker, sock, app>> /\ pipe' = Tail(pipe)
    BY <1>2 DEF ReadPacket
  <2>2. /\ Cur.pc = "read" /\ Cur'.pc \in {"ack", "deliver", "post"} /\ pipe # <<>>
        /\ Cur'.fn = Cur.fn /\ Cur'.topic = Cur.topic /\ Cur'.slot = Cur.slot /\ Parent' = Parent
        /\ Cur'.got = Head(pipe)
    BY <1>2, ReadMoves DEF Reads
  <2>3. Head(pipe) = pipe[1] /\ 1 \in 1..Len(pipe)
    BY <1>0, <2>2
  <2>4. NoPacket \in Packets /\ NoPacket.type # "SUBACK"
    BY Known DEF NoPacket, Packet
  <2>5. \A i \in 1..Len(pipe') : \/ pipe'[i].type # "SUBACK"
                                 \/ \E j \in 1..Len(pipe) : pipe'[i] = pipe[j]
    BY <1>0, <2>1, <2>2, <2>4, PipeSubs
  <2> QED BY <2>1, <2>2, <2>3, <2>5, SubsOn DEF Serving, Waits, Cycle
<1>3. CASE Acknowledge \/ Keepalive
  <2>1. /\ Cur.pc \in {"ack", "post"} /\ Cur'.fn = Cur.fn /\ Cur'.topic = Cur.topic
        /\ Cur'.slot = Cur.slot /\ Cur'.got = Cur.got /\ Parent' = Parent
        /\ \/ Cur'.pc \in {"cycleFailed", "unanswered", "deliver", "post", "answered", "read"}
           \/ Cur'.pc \in {"loop", "sleep"} /\ Cur.fn = "yield"
    BY <1>3, AcknowledgeMoves, KeepaliveMoves DEF MovesTo, Advanced
  <2>2. UNCHANGED <<state, handlers, app>>
    BY <1>3 DEF Acknowledge, Keepalive, client
  <2>3. \/ UNCHANGED net
        \/ \E type \in Answers \ {"SUBACK"}, id \in 0..MaxPacketId : Sent(BrokerAnswer(type, id))
    <3>1. CASE Acknowledge
      <4>1. Cur.got.id \in 0..MaxPacketId /\ Cur = Top
        BY <3>1, AcknowledgeMoves, Calling, FrameFields DEF Packets
      <4>2. {"PUBCOMP", "PUBREL", "NONE"} \subseteq Answers \ {"SUBACK"}
        BY DEF Answers
      <4> QED BY <3>1, <4>1, <4>2 DEF Acknowledge, SendFails
    <3>2. CASE Keepalive
      BY <3>2, Known DEF Keepalive, SendFails
    <3> QED BY <1>3, <3>1, <3>2
  <2>4. /\ sock' = sock /\ broker' = broker
        /\ \E p \in Packets : p.type # "SUBACK" /\ pipe' \in {pipe, Append(pipe, p)}
    <3>1. CASE UNCHANGED net
      BY <3>1, Known DEF net, NoPacket, Packet
    <3>2. ASSUME NEW type \in Answers \ {"SUBACK"}, NEW id \in 0..MaxPacketId,
                 Sent(BrokerAnswer(type, id))
          PROVE  /\ sock' = sock /\ broker' = broker
                 /\ \E p \in Packets : p.type # "SUBACK" /\ pipe' \in {pipe, Append(pipe, p)}
      <4>1. sock' = sock /\ broker' = broker
        BY <3>2 DEF Sent, BrokerAnswer, Reply, net
      <4>2. pipe' \in {pipe, Append(pipe, Packet(type, id))}
        BY <1>0, <3>2, Answered
      <4>3. Packet(type, id) \in Packets /\ Packet(type, id).type # "SUBACK"
        BY <3>2, PacketOK DEF Packet
      <4> QED BY <4>1, <4>2, <4>3
    <3> QED BY <2>3, <3>1, <3>2
  <2>5. \A i \in 1..Len(pipe') : \/ pipe'[i].type # "SUBACK"
                                 \/ \E j \in 1..Len(pipe) : pipe'[i] = pipe[j]
    <3>1. PICK p \in Packets : p.type # "SUBACK" /\ pipe' \in {pipe, Append(pipe, p)}
      BY <2>4
    <3> QED BY <1>0, <3>1, PipeSubs
  <2> QED BY <2>1, <2>2, <2>4, <2>5, SubsOn DEF Serving, Waits, HasRead, Cycle
<1>4. CASE CycleFailed
  <2>1. /\ Cur.pc = "cycleFailed" /\ Cur'.fn = Cur.fn /\ Cur'.topic = Cur.topic
        /\ Cur'.slot = Cur.slot /\ Parent' = Parent
        /\ Cur'.pc \in {"sleep", "unanswered"}
    BY <1>4, CycleFailedMoves DEF MovesTo, Advanced
  <2>2. Cur'.pc = "sleep" => Cur.fn = "yield"
    <3>1. ShapeInv' /\ Cur'.pc = "sleep" => Formed(Cur')
      <4>1. sp' = sp /\ sp > 0 /\ sp \in Nat
        BY <1>4 DEF CycleFailed, Goto, At, TypeInv, CallsOK
      <4> QED BY <4>1 DEF ShapeInv, Cur
    <3>2. ShapeInv'
      BY <1>4, CycleFailedMoves DEF MovesTo
    <3> QED BY <2>1, <3>1, <3>2 DEF Formed, AtOwnPoint, Requests, Connecting, Cycle
  <2>3. /\ UNCHANGED <<handlers, broker, app>> /\ state' # "CONNECTED"
        /\ sock' = "up" => sock = "up"
        /\ pipe' \in {pipe, <<>>}
    BY <1>4 DEF CycleFailed, CloseConnection, net
  <2>4. \A i \in 1..Len(pipe') : \E j \in 1..Len(pipe) : pipe'[i] = pipe[j]
    BY <2>3
  <2> QED BY <2>1, <2>2, <2>3, <2>4, SubsOn DEF Serving, Waits, HasRead, Cycle
<1> QED BY <1>1, <1>2, <1>3, <1>4

LEMMA YieldSubs ==
  ASSUME TypeInv, ShapeInv, SubsInv, YieldLoop \/ YieldReconnected \/ YieldReturns
  PROVE  SubsInv'
<1>1. /\ UNCHANGED <<state, handlers, broker, sock, pipe, app>>
      /\ Handled' = Handled
  BY DEF YieldLoop, YieldReconnected, YieldReturns, client, net, Handled
<1>2. Cur.fn = "yield"
  BY YieldMoves
<1>3. CASE MovesTo("read") \/ MovesTo("loop") \/ MovesTo("sleep")
  <2>1. /\ Cur'.fn = Cur.fn /\ Cur'.topic = Cur.topic /\ Cur'.slot = Cur.slot /\ Parent' = Parent
        /\ Cur'.pc \in {"read", "loop", "sleep"}
    BY <1>3 DEF MovesTo, Advanced
  <2> QED BY <1>1, <1>2, <2>1, SubsOn, StringsDiffer DEF Serving, Waits, HasRead
<1>4. CASE state # "CONNECTED" /\ Enters(HandleReconnect)
  BY <1>1, <1>4, SubsAway, HandleReconnectFields DEF Enters, Serving, Cycle
<1>5. CASE Returns
  <2>1. Serving' => Agree'
    BY <1>1, <1>2 DEF Serving, SubsInv, CallSubs, Agree
  <2> QED BY <1>5, <2>1, SubsBack
<1> QED BY <1>3, <1>4, <1>5, YieldMoves

LEMMA CheckSubs ==
  ASSUME TypeInv, ShapeInv, SubsInv, CheckConnection \/ ConnectionChecked
  PROVE  SubsInv'
<1>1. /\ UNCHANGED <<state, handlers, broker, sock, pipe, app>>
      /\ Handled' = Handled
      /\ Agree' <=> Agree
  BY DEF CheckConnection, ConnectionChecked, client, net, Handled, Agree
<1>2. Cur.fn \in Requests /\ (Serving' => CallSubs)
  BY <1>1, CheckConnectionMoves, ConnectionCheckedMoves DEF Serving, SubsInv
<1>3. CASE MovesTo("send")
  <2>1. /\ Cur'.fn = Cur.fn /\ Cur'.topic = Cur.topic /\ Parent' = Parent /\ Cur'.pc = "send"
        /\ Cur.pc \in {"check", "checked"}
    BY <1>3, CheckConnectionMoves, ConnectionCheckedMoves DEF MovesTo, Advanced
  <2>2. Serving' => Behind(Unseen(Parent) \cup (IF Parent.fn = "none" THEN {} ELSE {Cur.topic}))
    BY <1>2, <2>1, AgreeBehind DEF CallSubs
  <2>3. Behind(Unseen(Parent) \cup (IF Parent.fn = "none" THEN {} ELSE {Cur.topic})) =>
          Behind(Unseen(Parent) \cup (IF Parent.fn = "none" THEN {} ELSE {Cur.topic}))'
    BY <1>1, <2>1 DEF Behind, Unseen, Later
  <2> QED BY <1>2, <2>1, <2>2, <2>3, SubsSend
<1>4. CASE state # "CONNECTED" /\ Enters(HandleReconnect)
  BY <1>1, <1>4, SubsAway, HandleReconnectFields DEF Enters, Serving, Cycle
<1>5. CASE state # "CONNECTED" /\ Returns
  BY <1>1, <1>5, SubsBack DEF Serving
<1>6. CASE Cur.pc = "checked" /\ Returns
  <2>1. Serving' => Agree'
    BY <1>1, <1>2, <1>6 DEF CallSubs
  <2> QED BY <1>6, <2>1, SubsBack
<1> QED BY <1>3, <1>4, <1>5, <1>6, CheckConnectionMoves, ConnectionCheckedMoves

\* A subscription gives its filter a handler, and the broker's SUBACK says what it made of it.
LEMMA SubscribeSubs ==
  ASSUME TypeInv, RequestInv, SubsInv, NoDuplicateHandler, EnoughSlots,
         Serving, Cur.fn = "subscribe", Cur.pc = "send", Cur = Top,
         NEW id \in 1..MaxPacketId, BrokerSubscribe(Cur.topic, id),
         handlers' = Registered(Cur.topic),
         Cur'.fn = "subscribe", Cur'.pc = "read", Cur'.topic = Cur.topic, Parent' = Parent
  PROVE  CallSubs'
<1> DEFINE t == Cur.topic
<1>1. t \in Topics /\ NetOK /\ NoTopic \notin Topics
  BY Calling, HandlersAssumption DEF RequestInv, TypeInv, ProperFrames
<1>2. Behind(Unseen(Parent) \cup {t})
  BY DEF SubsInv, CallSubs, Requests, Behind
<1>3. Handled' = Handled \cup {t} /\ \A n \in Nat : Later(n) \ {NoTopic} \subseteq Later(n)'
  BY <1>1, RegisteredAdds
<1>4. Unseen(Parent) \ {NoTopic} \subseteq Unseen(Parent)'
  <2>1. Parent.slot \in Nat
    BY Calling, HandlersAssumption, FrameFields DEF RequestInv
  <2>2. Later(Parent.slot) \ {NoTopic} \subseteq Later(Parent.slot)'
    BY <1>3, <2>1
  <2> QED BY <2>2 DEF Unseen
<1>5. PICK p \in Packets : /\ pipe' = Append(pipe, p)
                           /\ p.ok <=> t \in broker'.subs
                           /\ broker'.subs \in {broker.subs \cup {t}, broker.subs \ {t}}
  <2>1. "SUBACK" \in Answers /\ id \in 0..MaxPacketId
    BY Known
  <2>2. CASE /\ Reply(Packet("SUBACK", id))
             /\ broker' = [broker EXCEPT !.subs = @ \cup {t}]
    <3>1. Packet("SUBACK", id) \in Packets /\ Packet("SUBACK", id).ok = TRUE
      BY <2>1, PacketOK DEF Packet
    <3>2. broker'.subs = broker.subs \cup {t}
      BY <1>1, <2>2 DEF NetOK
    <3> QED BY <2>2, <3>1, <3>2 DEF Reply
  <2>3. CASE /\ Reply([Packet("SUBACK", id) EXCEPT !.ok = FALSE])
             /\ broker' = [broker EXCEPT !.subs = @ \ {t}]
    <3>1. /\ [Packet("SUBACK", id) EXCEPT !.ok = FALSE] \in Packets
          /\ [Packet("SUBACK", id) EXCEPT !.ok = FALSE].ok = FALSE
      BY <2>1, PacketOK DEF Packet
    <3>2. broker'.subs = broker.subs \ {t}
      BY <1>1, <2>3 DEF NetOK
    <3> QED BY <2>3, <3>1, <3>2 DEF Reply
  <2> QED BY <2>2, <2>3 DEF BrokerSubscribe
<1>6. \A x : x \in Handled => x # NoTopic
  BY DEF Handled
<1>7. broker'.subs \subseteq Handled' /\ Handled' \ broker'.subs \subseteq Unseen(Parent)' \cup {t}
  BY <1>2, <1>3, <1>4, <1>5, <1>6 DEF Behind
<1>8. NoAcks(pipe)
  <2>1. Live
    BY DEF RequestInv, ConnInv, Serving, Live
  <2> QED BY <2>1, NoneOwed DEF RequestInv, AckInv, AckOK, Cycle
<1>9. \A i \in 1..Len(pipe') : pipe'[i].type = "SUBACK" => (pipe'[i].ok <=> t \in broker'.subs)
  <2>1. pipe \in Seq(Packets)
    BY <1>1 DEF NetOK
  <2>2. \A i \in 1..Len(Append(pipe, p)) :
           \/ Append(pipe, p)[i] = p
           \/ i \in 1..Len(pipe) /\ Append(pipe, p)[i] = pipe[i]
    BY <2>1
  <2> QED BY <1>5, <1>8, <2>2 DEF NoAcks, Acks
<1>10. Behind(Unseen(Parent) \cup {Cur.topic})'
  BY <1>7 DEF Behind, Unseen
<1>11. (\A i \in 1..Len(pipe) : TellsTruth(pipe[i], Cur.topic))'
  BY <1>9 DEF TellsTruth
<1> QED BY <1>3, <1>10, <1>11 DEF CallSubs, Requests, Waits, HasRead

LEMMA SendSubs ==
  ASSUME TypeInv, RequestInv, SubsInv, NoDuplicateHandler, EnoughSlots, SendRequest
  PROVE  SubsInv'
<1>0. ShapeInv /\ NetOK
  BY DEF RequestInv, TypeInv
<1>1. Cur.pc = "send" /\ Cur.fn \in Requests /\ Cur = Top
  BY <1>0, SendRequestMoves
<1>2. UNCHANGED <<state, app>>
  BY DEF SendRequest
<1>3. CASE SendFails /\ MovesTo("exit")
  <2>1. ~Serving'
    BY <1>0, <1>3, SentConn DEF Serving, net
  <2>2. Cur'.fn \in Requests /\ Cur'.pc = "exit"
    BY <1>1, <1>3 DEF MovesTo, Advanced
  <2> QED BY <2>1, <2>2, SubsAway, StringsDiffer DEF Requests, Waits, Connecting
<1>4. CASE /\ Cur.fn = "publish" /\ Returns /\ UNCHANGED handlers
           /\ Sent(RequestReceived(0))
  <2>1. sock' = sock /\ broker' = broker
    BY <1>0, <1>1, <1>4, SentConn DEF Sent, RequestReceived, BrokerAnswer, net
  <2>2. Serving' => Serving
    BY <1>2, <2>1 DEF Serving
  <2>3. Parent = NoCall
    BY <1>0, <1>4, Waiting
  <2>4. Serving => Agree
    BY <1>1, <2>3, OwnCall, AgreeBehind DEF SubsInv, CallSubs
  <2>5. Serving' => Agree'
    BY <1>4, <2>1, <2>2, <2>4 DEF Agree, Handled
  <2> QED BY <1>0, <1>4, <2>5, SubsBack
<1>5. ASSUME NEW id \in 1..MaxPacketId,
             Sent(RequestReceived(id)), ShapeInv',
             handlers' = IF Cur.fn = "subscribe" THEN Registered(Cur.topic) ELSE handlers,
             Cur'.fn = Cur.fn, Cur'.pc = "read", Cur'.topic = Cur.topic, Parent' = Parent
      PROVE  SubsInv'
  <2>1. SUFFICES ASSUME Serving' PROVE CallSubs'
    BY <1>1, <1>5, StringsDiffer DEF SubsInv, Requests, Connecting
  <2>2. sock = "up" /\ Serving
    BY <1>0, <1>2, <1>5, <2>1, SentConn DEF Serving
  <2>3. RequestReceived(id)
    BY <1>5, <2>2 DEF Sent
  <2>4. CallSubs
    BY <2>2 DEF SubsInv
  <2>5. ASSUME Cur.fn \in {"publish", "unsubscribe"} PROVE Agree /\ Handled' = Handled
    <3>1. Parent = NoCall
      BY <1>0, <2>5, Waiting
    <3> QED BY <1>1, <1>5, <2>4, <2>5, <3>1, OwnCall, AgreeBehind DEF CallSubs, Handled
  <2>6. CASE Cur.fn = "publish"
    <3>1. broker' = broker
      BY <1>1, <2>3, <2>6 DEF RequestReceived, BrokerAnswer
    <3>2. Agree'
      BY <2>5, <2>6, <3>1 DEF Agree
    <3> QED BY <1>5, <2>6, <3>2 DEF CallSubs, Requests, Waits
  <2>7. CASE Cur.fn = "unsubscribe"
    <3>1. broker'.subs = broker.subs \ {Cur.topic}
      BY <1>0, <1>1, <2>3, <2>7 DEF RequestReceived, BrokerUnsubscribe, NetOK
    <3>2. Handled' \ {Cur'.topic} = broker'.subs
      BY <1>5, <2>5, <2>7, <3>1 DEF Agree
    <3> QED BY <1>5, <2>7, <3>2 DEF CallSubs, Requests, Waits
  <2>8. CASE Cur.fn = "subscribe"
    <3>1. BrokerSubscribe(Cur.topic, id) /\ handlers' = Registered(Cur.topic)
      BY <1>1, <1>5, <2>3, <2>8 DEF RequestReceived
    <3> QED BY <1>1, <1>5, <2>2, <2>8, <3>1, SubscribeSubs
  <2> QED BY <1>1, <2>6, <2>7, <2>8 DEF Requests
<1> QED BY <1>0, <1>3, <1>4, <1>5, SendRequestMoves

LEMMA AnsweredSubs ==
  ASSUME TypeInv, ShapeInv, SubsInv, NoDuplicateHandler, RequestAnswered
  PROVE  SubsInv'
<1> DEFINE t == Cur.topic
<1>1. /\ Cur.pc = "answered" /\ Cur.fn \in Requests /\ Cur.got.type = Cur.want
      /\ Cur = Top /\ Returns /\ Cur' = Parent
  BY RequestEndMoves DEF Returns
<1>2. /\ UNCHANGED <<state, app, sock, broker, pipe>>
      /\ handlers' = IF Cur.fn = "unsubscribe" \/ (Cur.fn = "subscribe" /\ ~Cur.got.ok)
                     THEN Unregistered(t) ELSE handlers
  BY <1>1 DEF RequestAnswered, net
<1>3. SUFFICES ASSUME Serving'
               PROVE  Agree' \/ (Parent.fn = "reconnect" /\ Behind(Unseen(Cur))')
  BY <1>1, SubsBack
<1>4. CallSubs
  BY <1>2, <1>3 DEF Serving, SubsInv
<1>5. Formed(Cur) /\ t \in Topics \cup {NoTopic}
  BY <1>1, Running, FrameFields, StringsDiffer
<1>6. handlers' = Unregistered(t) =>
        Handled' = Handled \ {t} /\ \A n \in Nat : Later(n) \ {t} \subseteq Later(n)'
  BY <1>5, UnregisteredRemoves
<1>7. CASE Cur.fn = "publish"
  BY <1>1, <1>2, <1>4, <1>7 DEF CallSubs, Waits, Agree, Handled
<1>8. CASE Cur.fn = "unsubscribe"
  BY <1>1, <1>2, <1>4, <1>6, <1>8 DEF CallSubs, Waits, Agree
<1>9. CASE Cur.fn = "subscribe"
  <2>1. Behind(Unseen(Parent) \cup {t}) /\ (Cur.got.ok <=> t \in broker.subs)
    BY <1>1, <1>4, <1>5, <1>9 DEF CallSubs, Waits, HasRead, TellsTruth, Formed, AwaitsOwnAnswer
  <2>2. Parent.slot \in Nat
    BY Calling, HandlersAssumption, FrameFields
  <2>3. /\ broker.subs \subseteq Handled'
        /\ Handled' \ broker.subs \subseteq Unseen(Cur)'
    <3>1. CASE Cur.got.ok
      <4>1. Handled' = Handled
        BY <1>2, <1>9, <3>1 DEF Handled
      <4>2. Unseen(Parent) \subseteq Unseen(Cur)'
        BY <1>1, <1>2, <1>9, <3>1 DEF Unseen, Later
      <4> QED BY <2>1, <3>1, <4>1, <4>2 DEF Behind
    <3>2. CASE ~Cur.got.ok
      <4>1. Unseen(Parent) \ {t} \subseteq Unseen(Cur)'
        <5> DEFINE n == Parent.slot
        <5>1. n \in Nat /\ Unseen(Parent) = IF Parent.fn = "reconnect" THEN Later(n) ELSE {}
          BY <2>2 DEF Unseen
        <5>2. \A k \in Nat : Later(k) \ {t} \subseteq Later(k)'
          BY <1>2, <1>6, <1>9, <3>2
        <5>3. \A k \in Nat : Cur'.slot = k /\ Cur'.fn = "reconnect" => Unseen(Cur)' = Later(k)'
          BY DEF Unseen, Later
        <5>4. Cur'.slot = n /\ Cur'.fn = Parent.fn
          BY <1>1
        <5> HIDE DEF n
        <5> QED BY <5>1, <5>2, <5>3, <5>4
      <4> QED BY <1>2, <1>6, <1>9, <2>1, <3>2, <4>1 DEF Behind
    <3> QED BY <3>1, <3>2
  <2>4. CASE Parent.fn = "reconnect"
    BY <1>1, <1>2, <2>3, <2>4 DEF Behind, Unseen
  <2>5. CASE Parent.fn # "reconnect"
    BY <1>1, <1>2, <2>3, <2>5 DEF Agree, Unseen
  <2> QED BY <2>4, <2>5
<1> QED BY <1>1, <1>7, <1>8, <1>9 DEF Requests

LEMMA EndSubs ==
  ASSUME TypeInv, ShapeInv, SubsInv, RequestUnanswered \/ RequestExit \/ RequestExited
  PROVE  SubsInv'
<1>1. CASE RequestUnanswered
  <2>1. Cur'.fn \in Requests /\ Cur'.pc = "exit"
    BY <1>1, RequestEndMoves DEF MovesTo, Advanced
  <2> QED BY <2>1, SubsAway DEF Requests, Connecting, Waits
<1>2. CASE RequestExit
  <2>1. Cur'.fn = "reconnect" /\ Cur'.pc = "start"
    BY <1>2, RequestEndMoves, HandleReconnectFields DEF Enters
  <2>2. ~Serving'
    BY <1>2 DEF RequestExit, Disconnect, CloseConnection, Serving
  <2> QED BY <2>1, <2>2, SubsAway DEF Cycle
<1>3. CASE RequestExited
  <2>1. UNCHANGED <<state, handlers, broker, sock, app>>
    BY <1>3 DEF RequestExited, client, net
  <2>2. Cur.pc = "exited" /\ Returns
    BY <1>3, RequestEndMoves
  <2>3. Serving' => Agree'
    BY <2>1, <2>2 DEF Serving, SubsInv, CallSubs, Agree, Handled
  <2> QED BY <2>2, <2>3, SubsBack
<1> QED BY <1>1, <1>2, <1>3

\* A new connection starts without subscriptions, and the loop then sees every filter.
LEMMA ConnectSubs ==
  ASSUME TypeInv, RequestInv, SubsInv, CleanSession,
         ReconnectStart \/ SendConnect \/ ConnectAnswered \/ ConnectUnanswered
  PROVE  SubsInv'
<1>0. ShapeInv /\ NetOK /\ DownInv
  BY DEF RequestInv, TypeInv
<1>1. handlers' = handlers /\ app' = app /\ Handled' = Handled
  BY DEF ReconnectStart, SendConnect, ConnectAnswered, ConnectUnanswered, Handled
<1>2. CASE ReconnectStart
  <2>1. ~Serving'
    BY <1>0, <1>2, ConnectMoves DEF ReconnectStart, DownInv, Connecting, Serving
  <2>2. CASE Returns
    BY <1>0, <2>1, <2>2, SubsBack
  <2>3. CASE MovesTo("connect")
    <3>1. Cur'.fn = "reconnect" /\ Cur'.pc = "connect"
      BY <1>0, <1>2, <2>3, ConnectMoves DEF MovesTo, Advanced
    <3> QED BY <2>1, <3>1, SubsAway DEF Cycle
  <2> QED BY <1>0, <1>2, <2>2, <2>3, ConnectMoves
<1>3. CASE SendConnect
  <2>1. ~Serving'
    BY <1>0, <1>3, ConnectMoves DEF SendConnect, DownInv, Serving
  <2>2. CASE Returns
    BY <1>0, <2>1, <2>2, SubsBack
  <2>3. CASE Sent(BrokerConnect) /\ MovesTo("read")
    <3>1. Cur'.fn = Cur.fn
      BY <2>3 DEF MovesTo, Advanced
    <3>2. sock' = "up" => broker'.subs = {}
      <4>1. sock' = "up" => BrokerConnect /\ ~broker.greeted
        BY <2>3 DEF Sent, BrokerConnect, net
      <4>2. BrokerConnect /\ ~broker.greeted => broker' = [broker EXCEPT !.greeted = TRUE, !.subs = {}]
        BY DEF BrokerConnect
      <4> QED BY <1>0, <4>1, <4>2 DEF NetOK
    <3> QED BY <1>1, <2>1, <3>1, <3>2 DEF SubsInv
  <2> QED BY <1>0, <1>3, <2>2, <2>3, ConnectMoves
<1>4. CASE ConnectAnswered
  <2>1. UNCHANGED <<sock, broker>> /\ Cur.pc = "answered" /\ Cur.fn \in Connecting
    BY <1>0, <1>4, ConnectMoves DEF ConnectAnswered, net
  <2>2. Serving' => broker'.subs = {}
    BY <2>1 DEF SubsInv, Serving
  <2>3. CASE Cur.fn = "reconnect" /\ MovesTo("resubscribe")
    <3>1. Cur'.fn = "reconnect" /\ Cur'.pc = "resubscribe" /\ Cur'.slot = Cur.slot
      BY <2>3 DEF MovesTo, Advanced
    <3>2. Formed(Cur)
      BY <1>0, <2>3, Running
    <3>3. Cur.slot = 1
      BY <2>1, <2>3, <3>2 DEF Formed, AwaitsOwnAnswer, Connecting
    <3>4. Handled \subseteq Unseen(Cur)'
      BY <1>1, <3>1, <3>3 DEF Handled, Unseen, Later, Slots
    <3>5. Serving' => CallSubs'
      BY <1>1, <2>2, <3>1, <3>4 DEF CallSubs, Behind, Requests, Waits
    <3> QED BY <3>1, <3>5 DEF SubsInv, Cycle
  <2>4. CASE Cur.fn = "connect" /\ Returns
    <3>1. Serving' => Agree'
      BY <1>1, <2>2, <2>4 DEF SubsInv, Agree
    <3> QED BY <1>0, <2>4, <3>1, SubsBack
  <2>5. CASE state' = state /\ Returns
    <3>1. ~Serving'
      BY <1>0, <2>1, <2>5 DEF DownInv, Serving
    <3> QED BY <1>0, <2>5, <3>1, SubsBack
  <2> QED BY <1>0, <1>4, <2>3, <2>4, <2>5, ConnectMoves
<1>5. CASE ConnectUnanswered
  <2>1. ~Serving' /\ Returns
    BY <1>0, <1>5, ConnectMoves DEF ConnectUnanswered, DownInv, Serving
  <2> QED BY <1>0, <2>1, SubsBack
<1> QED BY <1>2, <1>3, <1>4, <1>5

\* The loop asks for the next filter, or has asked for them all.
LEMMA ResubscribeSubs ==
  ASSUME TypeInv, ShapeInv, SubsInv, CleanSession, Resubscribe
  PROVE  SubsInv'
<1>1. UNCHANGED <<state, handlers, broker, sock, app>> /\ Handled' = Handled
  BY DEF Resubscribe, net, Handled
<1>2. Cur.pc = "resubscribe" /\ Cur.fn = "reconnect"
  BY ResubscribeMoves
<1>3. Serving' => Behind(Later(Cur.slot))
  BY <1>1, <1>2 DEF Serving, SubsInv, CallSubs, Unseen
<1>4. CASE (\A i \in Slots : i >= Cur.slot => handlers[i] = NoTopic) /\ Returns
  <2>1. Later(Cur.slot) \subseteq {NoTopic}
    BY <1>4 DEF Later
  <2>2. Serving' => Agree
    BY <1>3, <2>1, AgreeBehind DEF Behind
  <2>3. Serving' => Agree'
    BY <1>1, <2>2 DEF Agree
  <2> QED BY <1>4, <2>3, SubsBack
<1>5. ASSUME NEW i \in Slots, i >= Cur.slot,
             \A j \in Slots : j >= Cur.slot /\ handlers[j] # NoTopic => i <= j,
             Cur'.fn = "subscribe", Cur'.pc = "check", Cur'.topic = handlers[i],
             Parent'.fn = "reconnect", Parent'.slot = i + 1
      PROVE  SubsInv'
  <2>1. \A j \in Slots : j >= Cur.slot /\ handlers[j] # NoTopic => j = i \/ j >= i + 1
    BY <1>5 DEF Slots
  <2>2. \A x \in Later(Cur.slot) : x = NoTopic \/ x \in Later(i + 1) \cup {handlers[i]}
    BY <2>1 DEF Later
  <2>3. Unseen(Parent)' = Later(i + 1)
    BY <1>1, <1>5 DEF Unseen, Later
  <2>4. Serving' =>
          Behind(Unseen(Parent) \cup (IF Parent.fn = "none" THEN {} ELSE {Cur.topic}))'
    <3>1. \A x \in Handled : x # NoTopic
      BY DEF Handled
    <3>2. Serving' => /\ broker'.subs \subseteq Handled'
                      /\ Handled' \ broker'.subs \subseteq Unseen(Parent)' \cup {Cur'.topic}
      BY <1>1, <1>3, <1>5, <2>2, <2>3, <3>1 DEF Behind
    <3> QED BY <1>5, <3>2 DEF Behind
  <2> QED BY <1>5, <2>4, SubsSend DEF Requests
<1> QED BY <1>4, <1>5, ResubscribeMoves

LEMMA OutsideSubs ==
  ASSUME TypeInv, ShapeInv, SubsInv, ~Callbacks,
         Application \/ Environment \/ Elapse \/ UNCHANGED vars
  PROVE  SubsInv'
<1>0. NetOK /\ AppOK /\ pipe \in Seq(Packets)
  BY DEF TypeInv, NetOK
<1>1. CASE Publish \/ Subscribe \/ Unsubscribe \/ Yield
  <2>1. /\ UNCHANGED <<state, handlers, sock, broker, app>> /\ Handled' = Handled
        /\ Cur = NoCall /\ Parent' = NoCall
    BY <1>1, ApplicationMoves DEF client, net, Handled
  <2>2. Serving' => Agree
    BY <2>1, NoCallFields DEF Serving, SubsInv, CallSubs
  <2>3. Serving' => Agree'
    BY <2>1, <2>2 DEF Agree
  <2>4. CASE Cur'.fn \in Requests /\ Cur'.pc = "check"
    <3>1. Agree' => Behind(Unseen(Parent) \cup (IF Parent.fn = "none" THEN {} ELSE {Cur.topic}))'
      BY DEF Agree, Behind
    <3> QED BY <2>3, <2>4, <3>1, SubsSend
  <2>5. CASE Cur'.fn = "yield" /\ Cur'.pc = "loop"
    BY <2>3, <2>5 DEF SubsInv, CallSubs, Requests, Connecting, Waits
  <2> QED BY <1>1, <2>4, <2>5, ApplicationMoves
<1>2. CASE UserDisconnect \/ Destroy
  <2>1. Cur' = NoCall
    <3>1. CASE UserDisconnect
      BY <3>1, ApplicationMoves
    <3>2. CASE Destroy
      BY <3>2, CallsStay, Calling DEF Destroy
    <3> QED BY <1>2, <3>1, <3>2
  <2>2. ~Serving'
    <3>1. Destroy => app'.destroyed = TRUE
      BY <1>0 DEF Destroy, AppOK
    <3>2. UserDisconnect => state' # "CONNECTED"
      BY DEF UserDisconnect, Disconnect, CloseConnection
    <3> QED BY <1>2, <3>1, <3>2 DEF Serving
  <2> QED BY <2>1, <2>2, SubsAway, NoCallFields, StringsDiffer
<1>3. CASE SetAutoReconnect \/ Environment \/ UNCHANGED vars
  <2>1. UNCHANGED <<calls, state, handlers>>
    BY <1>3 DEF SetAutoReconnect, Environment, Stabilise, NetReset, NetMute, BrokerPublish,
                Fault, vars, client
  <2>2. Cur' = Cur /\ Parent' = Parent
    BY <2>1, CallsStay
  <2>3. broker'.subs = broker.subs /\ app'.destroyed = app.destroyed /\ (sock' = "up" => sock = "up")
    BY <1>0, <1>3 DEF SetAutoReconnect, Environment, Stabilise, NetReset, NetMute, BrokerPublish,
                      Fault, vars, net, NetOK, AppOK
  <2>4. \E p \in Packets : p.type # "SUBACK" /\ pipe' \in {pipe, <<>>, Append(pipe, p)}
    <3>1. CASE BrokerPublish
      <4>1. PICK q \in PushQoS :
               pipe' = Append(pipe, [Packet("PUBLISH", IF q = 0 THEN 0 ELSE 1) EXCEPT !.qos = q])
        BY <3>1 DEF BrokerPublish
      <4> DEFINE p == [Packet("PUBLISH", IF q = 0 THEN 0 ELSE 1) EXCEPT !.qos = q]
      <4>2. (IF q = 0 THEN 0 ELSE 1) \in 0..MaxPacketId /\ q \in 0..2
        BY PacketIdAssumption, OptionsAssumption
      <4>3. Packet("PUBLISH", IF q = 0 THEN 0 ELSE 1) \in Packets
        BY <4>2, PacketOK, Known
      <4>4. p \in Packets /\ p.type = "PUBLISH"
        BY <4>2, <4>3 DEF Packets, Packet
      <4> QED BY <4>1, <4>4
    <3>2. CASE ~BrokerPublish
      <4>1. NoPacket \in Packets /\ NoPacket.type # "SUBACK"
        BY Known DEF NoPacket, Packet
      <4>2. pipe' \in {pipe, <<>>}
        BY <1>3, <3>2 DEF SetAutoReconnect, Environment, Stabilise, NetReset, NetMute, Fault, vars,
                          net
      <4> QED BY <4>1, <4>2
    <3> QED BY <3>1, <3>2
  <2>5. \A i \in 1..Len(pipe') : \/ pipe'[i].type # "SUBACK"
                                 \/ \E j \in 1..Len(pipe) : pipe'[i] = pipe[j]
    BY <1>0, <2>4, PipeSubs
  <2> QED BY <2>1, <2>2, <2>3, <2>5, SubsOn DEF Serving, Waits, HasRead
<1>4. CASE Elapse
  <2>1. UNCHANGED <<state, handlers, broker, sock, pipe, app>>
    BY <1>4 DEF Elapse, client, net
  <2>2. \A i \in 1..Len(pipe') : \E j \in 1..Len(pipe) : pipe'[i] = pipe[j]
    BY <2>1
  <2> QED BY <1>4, <2>1, <2>2, ElapseMoves, SubsOn DEF Serving, Waits, HasRead
<1> QED BY <1>1, <1>2, <1>3, <1>4 DEF Application

LEMMA SubsStep ==
  ASSUME TypeInv, RequestInv, SubsInv, NoDuplicateHandler, EnoughSlots, ~Callbacks, CleanSession,
         [Next]_vars
  PROVE  SubsInv'
<1>1. ShapeInv
  BY DEF RequestInv
<1>2. CASE ClientStep
  BY <1>1, <1>2, CycleSubs, YieldSubs, CheckSubs, SendSubs, AnsweredSubs, EndSubs, ConnectSubs,
     ResubscribeSubs DEF ClientStep
<1>3. CASE Application \/ Environment \/ Elapse \/ UNCHANGED vars
  BY <1>1, <1>3, OutsideSubs
<1> QED BY <1>2, <1>3 DEF Next

LEMMA SubsInit == Init => SubsInv
<1> SUFFICES ASSUME Init PROVE SubsInv
  OBVIOUS
<1>1. Cur.fn = "connect" /\ Cur.pc = "connect"
  BY InitCall DEF Frame
<1>2. state # "CONNECTED" /\ Handled = {}
  BY DEF Init, Handled
<1> QED BY <1>1, <1>2 DEF SubsInv, Serving, Cycle

\* Between two calls of a connected client the broker sends for exactly the filters that
\* have a handler: after any number of refusals, timeouts, lost connections and partial
\* re-subscriptions no handler waits in vain and nothing arrives that nobody handles.  It
\* takes what examples/ set up: a clean session, and a slot of the table for every filter.
\* Without the first the broker keeps subscriptions that the new table never had; a full
\* table makes tc_iot_mqtt_subscribe subscribe without a handler.
THEOREM SubscriptionsStayInStep ==
  Spec /\ ~Callbacks /\ CleanSession /\ EnoughSlots =>
    [](~app.destroyed => SubscriptionsAgree)
<1> SUFFICES ASSUME ~Callbacks, CleanSession, EnoughSlots
             PROVE  Spec => [](~app.destroyed => SubscriptionsAgree)
  OBVIOUS
<1>1. Init => RequestInv /\ SubsInv
  BY RequestInit, SubsInit
<1>2. TypeInv /\ NoDuplicateHandler /\ RequestInv /\ SubsInv /\ [Next]_vars
        => RequestInv' /\ SubsInv'
  BY RequestStep, SubsStep
<1>3. TypeInv /\ SubsInv => (~app.destroyed => SubscriptionsAgree)
  <2> SUFFICES ASSUME SubsInv, ~app.destroyed, sp = 0, state = "CONNECTED", sock = "up"
               PROVE  {handlers[i] : i \in Slots} \ {NoTopic} = broker.subs
    BY DEF SubscriptionsAgree
  <2>1. Cur.fn = "none" /\ Serving
    BY NoCallFields DEF Cur, Serving
  <2> QED BY <2>1 DEF SubsInv, CallSubs, Agree, Handled
<1> QED BY <1>1, <1>2, <1>3, TypeInvHolds, HandlersUnique, PTL DEF Spec

(***************************************************************************)
(* How deep reconnects nest                                                *)
(*                                                                         *)
(* Reconnects are at the even places of the stack.  The m-th pays for      *)
(* its place: m, the filters it and the calls above it still have in the   *)
(* table or are about to register, and the harm that the network can still *)
(* do without the client noticing are together at most Limit; and there is *)
(* Room, one less, wherever a further reconnect may start.                 *)
(***************************************************************************)

\* A subscribe that has still to register its filter.
Asks(f) == f.fn = "subscribe" /\ f.pc \in {"check", "checked", "send"}

\* What becomes of the calls that were active and still are: g is what is left of f.
Keep(f, g) == g.fn = f.fn /\ g.topic = f.topic /\ (Asks(g) => Asks(f))
Below == \A k \in 1..sp : k <= sp' => Keep(stk[k], stk'[k])

StaysAt(p) ==
  /\ sp > 0 /\ sp' = sp /\ Below
  /\ Cur'.pc = p /\ Cur'.fn = Cur.fn /\ Cur'.topic = Cur.topic
GoesIn == sp > 0 /\ sp' = sp + 1 /\ Below
GoesOut == sp > 0 /\ sp' = sp - 1 /\ Below

LEMMA GotoPath ==
  ASSUME TypeInv, sp > 0, NEW f, Goto(f), Keep(Cur, f)
  PROVE  StaysAt(f.pc) /\ Cur' = f
<1>1. /\ sp' = sp /\ stk'[sp] = f /\ sp \in 1..sp /\ sp \in Nat
      /\ \A k \in 1..sp : k < sp => stk'[k] = stk[k]
  BY BoundsAssumption DEF Goto, TypeInv, CallsOK
<1>2. Cur = stk[sp] /\ Cur' = f
  BY <1>1 DEF Cur
<1>3. ASSUME NEW k \in 1..sp PROVE Keep(stk[k], stk'[k])
  <2>1. CASE k = sp
    BY <1>1, <1>2, <2>1
  <2>2. CASE k < sp
    BY <1>1, <2>2 DEF Keep
  <2> QED BY <1>1, <2>1, <2>2
<1> QED BY <1>1, <1>2, <1>3 DEF StaysAt, Below, Keep

LEMMA InvokePath ==
  ASSUME TypeInv, sp > 0, NEW f, NEW g, Invoke(f, g), Keep(Cur, f)
  PROVE  GoesIn /\ Cur' = g
<1>1. /\ sp' = sp + 1 /\ stk'[sp] = f /\ stk'[sp + 1] = g /\ sp \in 1..sp /\ sp \in Nat
      /\ \A k \in 1..sp : k < sp => stk'[k] = stk[k]
  BY BoundsAssumption DEF Invoke, TypeInv, CallsOK
<1>2. Cur = stk[sp] /\ Cur' = g
  BY <1>1 DEF Cur
<1>3. ASSUME NEW k \in 1..sp PROVE Keep(stk[k], stk'[k])
  <2>1. CASE k = sp
    BY <1>1, <1>2, <2>1
  <2>2. CASE k < sp
    BY <1>1, <2>2 DEF Keep
  <2> QED BY <1>1, <2>1, <2>2
<1> QED BY <1>1, <1>2, <1>3 DEF GoesIn, Below

LEMMA ReturnPath == ASSUME TypeInv, sp > 0, NEW c, Return(c) PROVE GoesOut
<1>1. /\ sp' = sp - 1
      /\ \A k \in 1..sp : k < sp => stk'[k] = stk[k]
  BY BoundsAssumption DEF Return, TypeInv, CallsOK
<1>2. \A k \in 1..sp : k <= sp' => k < sp
  BY <1>1 DEF TypeInv, CallsOK
<1> QED BY <1>1, <1>2 DEF GoesOut, Below, Keep

\* The innermost call goes to program point p, one before the filter is registered only
\* from another such.
LEMMA Touches ==
  ASSUME TypeInv, sp > 0, NEW p \in Points,
         p \notin {"check", "checked", "send"} \/ Cur.fn # "subscribe" \/ Asks(Cur)
  PROVE  /\ Goto([Top EXCEPT !.pc = p]) => StaysAt(p)
         /\ \A r \in Codes : Goto([Top EXCEPT !.pc = p, !.rc = r]) => StaysAt(p)
         /\ \A t \in Nat : Goto([Top EXCEPT !.pc = p, !.tmr = t]) => StaysAt(p)
         /\ \A t \in Nat, i \in 0..MaxPacketId :
              Goto([Top EXCEPT !.pc = p, !.tmr = t, !.pid = i]) => StaysAt(p)
         /\ \A g \in Packets, r \in Codes :
              Goto([Top EXCEPT !.got = g, !.rc = r, !.pc = p]) => StaysAt(p)
         /\ Invoke([Top EXCEPT !.pc = p], HandleReconnect) =>
              GoesIn /\ Cur' = HandleReconnect
<1>1. Top = Cur /\ Cur \in ProperFrames /\ Cur \in Frames
  BY TopFrame DEF TypeInv, Cur, Top, ProperFrames
<1>2. ASSUME NEW f \in Frames, f.pc = p, f.fn = Cur.fn, f.topic = Cur.topic
      PROVE  Keep(Cur, f)
  BY <1>2 DEF Keep, Asks
<1>3. \A f \in Frames : f.pc = p /\ f.fn = Cur.fn /\ f.topic = Cur.topic /\ Goto(f) => StaysAt(p)
  BY <1>2, GotoPath
<1>4. Goto([Cur EXCEPT !.pc = p]) => StaysAt(p)
  <2> DEFINE f == [Cur EXCEPT !.pc = p]
  <2>1. f \in Frames /\ f.pc = p /\ f.fn = Cur.fn /\ f.topic = Cur.topic
    BY <1>1 DEF Frames
  <2> HIDE DEF f
  <2> QED BY <1>3, <2>1 DEF f
<1>5. ASSUME NEW r \in Codes, Goto([Cur EXCEPT !.pc = p, !.rc = r]) PROVE StaysAt(p)
  <2> DEFINE f == [Cur EXCEPT !.pc = p, !.rc = r]
  <2>1. f \in Frames /\ f.pc = p /\ f.fn = Cur.fn /\ f.topic = Cur.topic /\ Goto(f)
    BY <1>1, <1>5 DEF Frames
  <2> HIDE DEF f
  <2> QED BY <1>3, <2>1
<1>6. ASSUME NEW t \in Nat, Goto([Cur EXCEPT !.pc = p, !.tmr = t]) PROVE StaysAt(p)
  <2> DEFINE f == [Cur EXCEPT !.pc = p, !.tmr = t]
  <2>1. f \in Frames /\ f.pc = p /\ f.fn = Cur.fn /\ f.topic = Cur.topic /\ Goto(f)
    BY <1>1, <1>6 DEF Frames
  <2> HIDE DEF f
  <2> QED BY <1>3, <2>1
<1>7. ASSUME NEW t \in Nat, NEW i \in 0..MaxPacketId,
             Goto([Cur EXCEPT !.pc = p, !.tmr = t, !.pid = i])
      PROVE  StaysAt(p)
  <2> DEFINE f == [Cur EXCEPT !.pc = p, !.tmr = t, !.pid = i]
  <2>1. f \in Frames /\ f.pc = p /\ f.fn = Cur.fn /\ f.topic = Cur.topic /\ Goto(f)
    BY <1>1, <1>7 DEF Frames
  <2> HIDE DEF f
  <2> QED BY <1>3, <2>1
<1>8. ASSUME NEW g \in Packets, NEW r \in Codes, Goto([Cur EXCEPT !.got = g, !.rc = r, !.pc = p])
      PROVE  StaysAt(p)
  <2> DEFINE f == [Cur EXCEPT !.got = g, !.rc = r, !.pc = p]
  <2>1. f \in Frames /\ f.pc = p /\ f.fn = Cur.fn /\ f.topic = Cur.topic /\ Goto(f)
    BY <1>1, <1>8 DEF Frames
  <2> HIDE DEF f
  <2> QED BY <1>3, <2>1
<1>9. Invoke([Cur EXCEPT !.pc = p], HandleReconnect) => GoesIn /\ Cur' = HandleReconnect
  <2> DEFINE f == [Cur EXCEPT !.pc = p]
  <2>1. Keep(Cur, f)
    BY <1>1, <1>2 DEF Frames
  <2> HIDE DEF f
  <2> QED BY <2>1, InvokePath DEF f
<1> QED BY <1>1, <1>4, <1>5, <1>6, <1>7, <1>8, <1>9

LEMMA RequestPaths ==
  ASSUME TypeInv, ShapeInv
  PROVE  /\ CheckConnection =>
              /\ Cur.pc = "check"
              /\ \/ state = "CONNECTED" /\ StaysAt("send")
                 \/ state # "CONNECTED" /\ GoesIn /\ Cur' = HandleReconnect
                 \/ state # "CONNECTED" /\ GoesOut
         /\ ConnectionChecked => Cur.pc = "checked" /\ (StaysAt("send") \/ GoesOut)
         /\ SendRequest =>
              /\ Cur.pc = "send"
              /\ \/ /\ StaysAt("read") /\ UNCHANGED <<state, faults>>
                    /\ handlers' = IF Cur.fn = "subscribe" THEN Registered(Cur.topic) ELSE handlers
                 \/ GoesOut /\ Cur.fn = "publish" /\ UNCHANGED handlers
                 \/ StaysAt("exit") /\ SendFails /\ UNCHANGED <<state, handlers>>
         /\ RequestAnswered => Cur.pc = "answered" /\ GoesOut
         /\ RequestUnanswered => Cur.pc = "unanswered" /\ StaysAt("exit")
         /\ RequestExit => Cur.pc = "exit" /\ GoesIn /\ Cur' = HandleReconnect
         /\ RequestExited => Cur.pc = "exited" /\ GoesOut
<1>1. ASSUME CheckConnection
      PROVE  /\ Cur.pc = "check"
             /\ \/ state = "CONNECTED" /\ StaysAt("send")
                \/ state # "CONNECTED" /\ GoesIn /\ Cur' = HandleReconnect
                \/ state # "CONNECTED" /\ GoesOut
  <2>1. sp > 0 /\ Cur.pc = "check" /\ (Cur.fn # "subscribe" \/ Asks(Cur))
    BY <1>1, Runs, Known DEF CheckConnection, Asks
  <2> QED BY <1>1, <2>1, Touches, ReturnPath, Known DEF CheckConnection
<1>2. ASSUME ConnectionChecked PROVE Cur.pc = "checked" /\ (StaysAt("send") \/ GoesOut)
  <2>1. sp > 0 /\ Cur.pc = "checked" /\ (Cur.fn # "subscribe" \/ Asks(Cur))
    BY <1>2, Runs, Known DEF ConnectionChecked, Asks
  <2> QED BY <1>2, <2>1, Touches, ReturnPath, Known DEF ConnectionChecked
<1>3. ASSUME SendRequest
      PROVE  /\ Cur.pc = "send"
             /\ \/ /\ StaysAt("read") /\ UNCHANGED <<state, faults>>
                   /\ handlers' = IF Cur.fn = "subscribe" THEN Registered(Cur.topic) ELSE handlers
                \/ GoesOut /\ Cur.fn = "publish" /\ UNCHANGED handlers
                \/ StaysAt("exit") /\ SendFails /\ UNCHANGED <<state, handlers>>
  <2>1. sp > 0 /\ Cur = Top /\ Cur.pc = "send" /\ Formed(Cur)
    BY <1>3, Runs, Known DEF SendRequest
  <2>2. Top.want = "NONE" => Top.fn = "publish"
    BY <2>1 DEF Formed, AtOwnPoint, AwaitsOwnAnswer, Connecting, Cycle, Requests
  <2> DEFINE id == IF Top.fn = "publish" /\ Top.qos = 0 THEN 0 ELSE NextPackId
  <2>3. id \in 0..MaxPacketId
    BY NextPackIdOK, Known DEF TypeInv, ClientOK
  <2>4. /\ state' = state
        /\ \/ /\ Sent(RequestReceived(id))
              /\ handlers' = IF Top.fn = "subscribe" THEN Registered(Top.topic) ELSE handlers
              /\ IF Top.want = "NONE"
                 THEN Return("SUCCESS")
                 ELSE Goto([Top EXCEPT !.pc = "read", !.tmr = CommandTimeout, !.pid = id])
           \/ SendFails /\ Goto([Top EXCEPT !.pc = "exit"]) /\ UNCHANGED handlers
    BY <1>3 DEF SendRequest
  <2>5. Sent(RequestReceived(id)) => UNCHANGED faults
    BY DEF Sent, RequestReceived, BrokerAnswer, BrokerSubscribe, BrokerUnsubscribe, net
  <2> HIDE DEF id
  <2> QED BY <2>1, <2>2, <2>3, <2>4, <2>5, Touches, ReturnPath, Known
<1>4. ASSUME RequestAnswered PROVE Cur.pc = "answered" /\ GoesOut
  BY <1>4, Runs, Known, ReturnPath DEF RequestAnswered
<1>5. ASSUME RequestUnanswered PROVE Cur.pc = "unanswered" /\ StaysAt("exit")
  BY <1>5, Runs, Known, Touches DEF RequestUnanswered
<1>6. ASSUME RequestExit PROVE Cur.pc = "exit" /\ GoesIn /\ Cur' = HandleReconnect
  BY <1>6, Runs, Known, Touches DEF RequestExit
<1>7. ASSUME RequestExited PROVE Cur.pc = "exited" /\ GoesOut
  BY <1>7, Runs, Known, ReturnPath DEF RequestExited
<1> QED BY <1>1, <1>2, <1>3, <1>4, <1>5, <1>6, <1>7

LEMMA ReconnectPaths ==
  ASSUME TypeInv, ShapeInv
  PROVE  /\ ReconnectStart => Cur.fn = "reconnect" /\ (StaysAt("connect") \/ GoesOut)
         /\ SendConnect => Cur.fn \in Connecting /\ (StaysAt("read") \/ GoesOut)
         /\ ConnectAnswered =>
              /\ Cur.fn \in Connecting
              /\ (StaysAt("resubscribe") /\ state' = "CONNECTED") \/ GoesOut
         /\ ConnectUnanswered => Cur.fn \in Connecting /\ GoesOut
         /\ Resubscribe =>
              /\ Cur.pc = "resubscribe" /\ Cur.fn = "reconnect"
              /\ \/ GoesOut
                 \/ GoesIn /\ Cur'.pc = "check" /\ Cur'.topic \in Handled
<1>0. \A armed : sp > 0 /\ BackOff(armed) => GoesOut
  BY ReturnPath DEF BackOff
<1>1. ASSUME ReconnectStart PROVE Cur.fn = "reconnect" /\ (StaysAt("connect") \/ GoesOut)
  <2>1. sp > 0 /\ Cur.fn = "reconnect"
    BY <1>1, ConnectMoves, Runs, Known DEF ReconnectStart
  <2>2. Goto([Top EXCEPT !.pc = "connect"]) => StaysAt("connect")
    BY <2>1, Touches, Known
  <2> QED BY <1>0, <1>1, <2>1, <2>2, ReturnPath DEF ReconnectStart
<1>2. ASSUME SendConnect PROVE Cur.fn \in Connecting /\ (StaysAt("read") \/ GoesOut)
  <2>1. sp > 0 /\ Cur.fn \in Connecting
    BY <1>2, ConnectMoves, Runs, Known DEF SendConnect
  <2>2. Goto([Top EXCEPT !.pc = "read", !.tmr = CommandTimeout]) => StaysAt("read")
    BY <2>1, Touches, Known
  <2> QED BY <1>0, <1>2, <2>1, <2>2, ReturnPath DEF SendConnect
<1>3. ASSUME ConnectAnswered
      PROVE  Cur.fn \in Connecting /\ ((StaysAt("resubscribe") /\ state' = "CONNECTED") \/ GoesOut)
  <2>1. sp > 0 /\ Cur.fn \in Connecting
    BY <1>3, ConnectMoves, Runs, Known DEF ConnectAnswered
  <2>2. Goto([Top EXCEPT !.pc = "resubscribe"]) => StaysAt("resubscribe")
    BY <2>1, Touches, Known
  <2> QED BY <1>0, <1>3, <2>1, <2>2, ReturnPath DEF ConnectAnswered
<1>4. ASSUME ConnectUnanswered PROVE Cur.fn \in Connecting /\ GoesOut
  <2>1. sp > 0 /\ Cur.fn \in Connecting
    BY <1>4, ConnectMoves, Runs, Known DEF ConnectUnanswered
  <2> QED BY <1>0, <1>4, <2>1, ReturnPath DEF ConnectUnanswered
<1>5. ASSUME Resubscribe
      PROVE  /\ Cur.pc = "resubscribe" /\ Cur.fn = "reconnect"
             /\ \/ GoesOut
                \/ GoesIn /\ Cur'.pc = "check" /\ Cur'.topic \in Handled
  <2>1. /\ sp > 0 /\ Cur = Top /\ Cur.pc = "resubscribe" /\ Cur.fn = "reconnect"
        /\ Cur \in ProperFrames
    BY <1>5, ResubscribeMoves, Runs, Known DEF Resubscribe
  <2>2. ASSUME NEW i \in Slots, handlers[i] # NoTopic,
               Invoke([Cur EXCEPT !.slot = i + 1],
                      Frame("subscribe", "check", handlers[i], "SUBACK", 0))
        PROVE  GoesIn /\ Cur'.pc = "check" /\ Cur'.topic \in Handled
    <3> DEFINE f == [Cur EXCEPT !.slot = i + 1]
               g == Frame("subscribe", "check", handlers[i], "SUBACK", 0)
    <3>1. Keep(Cur, f) /\ Invoke(f, g)
      BY <2>1, <2>2 DEF Keep, Asks, ProperFrames, Frames
    <3>2. g.pc = "check" /\ g.topic \in Handled
      BY <2>2 DEF Frame, Handled
    <3> HIDE DEF f, g
    <3> QED BY <2>1, <3>1, <3>2, InvokePath
  <2> QED BY <1>5, <2>1, <2>2, ReturnPath DEF Resubscribe
<1> QED BY <1>1, <1>2, <1>3, <1>4, <1>5

LEMMA CyclePaths ==
  ASSUME TypeInv, ShapeInv
  PROVE  /\ HandlerReturns => Cur.pc = "deliver" /\ StaysAt("post")
         /\ YieldLoop =>
              Cur.fn = "yield" /\ (StaysAt("read") \/ (GoesIn /\ Cur' = HandleReconnect))
         /\ YieldReconnected => Cur.fn = "yield" /\ (StaysAt("loop") \/ StaysAt("sleep"))
         /\ YieldReturns => Cur.fn = "yield" /\ GoesOut
         /\ ReadPacket =>
              Cur.pc = "read" /\ (StaysAt("ack") \/ StaysAt("deliver") \/ StaysAt("post"))
         /\ ReadNothing => Cur.pc = "read" /\ StaysAt("post")
         /\ ReadError => Cur.pc = "read" /\ StaysAt("cycleFailed")
         /\ Acknowledge =>
              Cur.pc = "ack" /\ (StaysAt("deliver") \/ StaysAt("post") \/ StaysAt("cycleFailed"))
         /\ Keepalive =>
              /\ Cur.pc = "post"
              /\ \/ StaysAt("cycleFailed") \/ StaysAt("answered")
                 \/ StaysAt("read") \/ StaysAt("unanswered")
                 \/ Cur.fn = "yield" /\ (StaysAt("loop") \/ StaysAt("sleep"))
         /\ CycleFailed =>
              /\ Cur.pc = "cycleFailed"
              /\ StaysAt("unanswered") \/ (Cur.fn = "yield" /\ StaysAt("sleep"))
<1>1. ASSUME HandlerReturns PROVE Cur.pc = "deliver" /\ StaysAt("post")
  BY <1>1, Runs, Known, Touches DEF HandlerReturns
<1>2. ASSUME YieldLoop
      PROVE  Cur.fn = "yield" /\ (StaysAt("read") \/ (GoesIn /\ Cur' = HandleReconnect))
  <2>1. sp > 0 /\ Cur.fn = "yield"
    BY <1>2, YieldMoves, Runs, Known DEF YieldLoop
  <2>2. /\ Goto([Top EXCEPT !.pc = "read"]) => StaysAt("read")
        /\ Invoke([Top EXCEPT !.pc = "reconnected"], HandleReconnect) =>
             GoesIn /\ Cur' = HandleReconnect
    BY <2>1, Known, Touches
  <2> QED BY <1>2, <2>1, <2>2 DEF YieldLoop
<1>3. ASSUME YieldReconnected
      PROVE  Cur.fn = "yield" /\ (StaysAt("loop") \/ StaysAt("sleep"))
  <2>1. sp > 0 /\ Cur.fn = "yield" /\ ret \in Codes
    BY <1>3, YieldMoves, Runs, Known DEF YieldReconnected, TypeInv, CallsOK
  <2>2. \E p \in {"loop", "sleep"} : Goto([Top EXCEPT !.pc = p, !.rc = ret])
    BY <1>3 DEF YieldReconnected
  <2> QED BY <2>1, <2>2, Known, Touches
<1>4. ASSUME YieldReturns PROVE Cur.fn = "yield" /\ GoesOut
  <2>1. sp > 0 /\ Cur.fn = "yield"
    BY <1>4, YieldMoves, Runs, Known DEF YieldReturns
  <2> QED BY <1>4, <2>1, ReturnPath DEF YieldReturns
<1>5. ASSUME ReadPacket
      PROVE  Cur.pc = "read" /\ (StaysAt("ack") \/ StaysAt("deliver") \/ StaysAt("post"))
  <2>1. sp > 0 /\ Cur.pc = "read" /\ Head(pipe) \in Packets
    BY <1>5, ReadMoves, Runs, Known DEF ReadPacket
  <2>2. \E pc \in {"ack", "deliver", "post"} :
           Goto([Top EXCEPT !.got = Head(pipe), !.rc = "SUCCESS", !.pc = pc])
    BY <1>5 DEF ReadPacket
  <2> QED BY <2>1, <2>2, Known, Touches
<1>6. ASSUME ReadNothing PROVE Cur.pc = "read" /\ StaysAt("post")
  BY <1>6, Runs, Known, Touches DEF ReadNothing
<1>7. ASSUME ReadError PROVE Cur.pc = "read" /\ StaysAt("cycleFailed")
  BY <1>7, Runs, Known, Touches DEF ReadError
<1>8. ASSUME Acknowledge
      PROVE  Cur.pc = "ack" /\ (StaysAt("deliver") \/ StaysAt("post") \/ StaysAt("cycleFailed"))
  <2>1. sp > 0 /\ Cur.pc = "ack"
    BY <1>8, Runs, Known DEF Acknowledge
  <2>2. \E p \in {"deliver", "post", "cycleFailed"} :
           \/ Goto([Top EXCEPT !.pc = p])
           \/ Goto([Top EXCEPT !.pc = p, !.rc = "FAILURE"])
    BY <1>8 DEF Acknowledge
  <2> QED BY <2>1, <2>2, Known, Touches
<1>9. ASSUME Keepalive
      PROVE  /\ Cur.pc = "post"
             /\ \/ StaysAt("cycleFailed") \/ StaysAt("answered")
                \/ StaysAt("read") \/ StaysAt("unanswered")
                \/ Cur.fn = "yield" /\ (StaysAt("loop") \/ StaysAt("sleep"))
  <2>1. sp > 0 /\ Cur = Top /\ Cur.pc = "post"
    BY <1>9, Runs, Known DEF Keepalive
  <2>2. \/ \E p \in {"cycleFailed", "answered", "read", "unanswered"} : Goto([Top EXCEPT !.pc = p])
        \/ Top.fn = "yield" /\ \E p \in {"loop", "sleep"} : Goto([Top EXCEPT !.pc = p])
    BY <1>9 DEF Keepalive, AfterCycle
  <2> QED BY <2>1, <2>2, Known, Touches
<1>10. ASSUME CycleFailed
       PROVE  /\ Cur.pc = "cycleFailed"
              /\ StaysAt("unanswered") \/ (Cur.fn = "yield" /\ StaysAt("sleep"))
  <2>1. sp > 0 /\ Cur = Top /\ Cur.pc = "cycleFailed"
    BY <1>10, Runs, Known DEF CycleFailed
  <2>2. \/ Goto([Top EXCEPT !.pc = "unanswered", !.rc = "FAILURE"])
        \/ Top.fn = "yield" /\ Goto([Top EXCEPT !.pc = "sleep", !.rc = "FAILURE"])
    BY <1>10 DEF CycleFailed
  <2>3. /\ Goto([Top EXCEPT !.pc = "unanswered", !.rc = "FAILURE"]) => StaysAt("unanswered")
        /\ Goto([Top EXCEPT !.pc = "sleep", !.rc = "FAILURE"]) => StaysAt("sleep")
    BY <2>1, Known, Touches
  <2> QED BY <2>1, <2>2, <2>3
<1> QED BY <1>1, <1>2, <1>3, <1>4, <1>5, <1>6, <1>7, <1>8, <1>9, <1>10

\* Time and the environment leave every call where it is.
Idles == sp' = sp /\ Below /\ Cur'.pc = Cur.pc /\ Cur'.fn = Cur.fn /\ Cur'.topic = Cur.topic

LEMMA OutsidePaths ==
  ASSUME TypeInv, ShapeInv, ~Callbacks
  PROVE  /\ Publish \/ Subscribe \/ Unsubscribe \/ Yield =>
              /\ sp = 0 /\ sp' = 1 /\ Cur'.fn # "reconnect" /\ UNCHANGED client
         /\ UserDisconnect => sp = 0 /\ sp' = 0
         /\ SetAutoReconnect \/ Destroy \/ Environment \/ Elapse \/ UNCHANGED vars =>
              Idles /\ state' = state /\ (sp > 0 => handlers' = handlers)
<1>1. ASSUME Publish \/ Subscribe \/ Unsubscribe \/ Yield
      PROVE  sp = 0 /\ sp' = 1 /\ Cur'.fn # "reconnect" /\ UNCHANGED client
  <2>1. /\ Cur'.fn \in Requests \cup {"yield"} /\ UNCHANGED client
    BY <1>1, ApplicationMoves
  <2>2. sp = 0 /\ sp' = 1
    BY <1>1 DEF Publish, Subscribe, Unsubscribe, Yield, Enter
  <2> QED BY <2>1, <2>2 DEF Requests
<1>2. ASSUME UserDisconnect PROVE sp = 0 /\ sp' = 0
  BY <1>2 DEF UserDisconnect, calls
<1>3. ASSUME SetAutoReconnect \/ Destroy \/ Environment \/ UNCHANGED vars
      PROVE  Idles /\ state' = state /\ (sp > 0 => handlers' = handlers)
  <2>1. UNCHANGED calls
    BY <1>3 DEF SetAutoReconnect, Destroy, Environment, Stabilise, NetReset, NetMute,
                BrokerPublish, Fault, vars
  <2>2. Idles
    BY <2>1 DEF Idles, Below, Keep, calls, Cur, Asks
  <2>3. state' = state /\ (sp > 0 => handlers' = handlers)
    BY <1>3 DEF SetAutoReconnect, Destroy, Environment, Stabilise, NetReset, NetMute,
                BrokerPublish, Fault, vars, client
  <2> QED BY <2>2, <2>3
<1>4. ASSUME Elapse PROVE Idles /\ state' = state /\ (sp > 0 => handlers' = handlers)
  <2>1. sp' = sp /\ sp \in 0..MaxDepth
    BY <1>4 DEF Elapse, TypeInv, CallsOK
  <2>2. \A k \in 1..sp : stk[k] \in Frames /\ stk'[k] = [stk[k] EXCEPT !.tmr = Ticked(stk[k].tmr)]
    BY <1>4, BoundsAssumption DEF Elapse, TypeInv, CallsOK, ProperFrames
  <2>3. \A k \in 1..sp : stk'[k].fn = stk[k].fn /\ stk'[k].pc = stk[k].pc
                         /\ stk'[k].topic = stk[k].topic
    BY <2>2 DEF Frames
  <2>4. Below
    BY <2>3 DEF Below, Keep, Asks
  <2>5. Cur'.pc = Cur.pc /\ Cur'.fn = Cur.fn /\ Cur'.topic = Cur.topic
    BY <1>4, ElapseMoves
  <2> QED BY <1>4, <2>1, <2>4, <2>5 DEF Idles, Elapse, client
<1> QED BY <1>1, <1>2, <1>3, <1>4

\* Reconnects are at the even places of the stack.
Alternate == \A k \in 1..sp : stk[k].fn = "reconnect" <=> k % 2 = 0

LEMMA AnyPath ==
  ASSUME TypeInv, ShapeInv, ~Callbacks, [Next]_vars
  PROVE  /\ sp' \in {sp - 1, sp, sp + 1} /\ Below
         /\ sp = 0 /\ sp' = 1 => stk'[1].fn # "reconnect"
<1> USE DEF StaysAt, GoesIn, GoesOut, Idles
<1>1. CASE ClientStep
  <2>1. (\E p : StaysAt(p)) \/ GoesIn \/ GoesOut
    <3> HIDE DEF StaysAt, GoesIn, GoesOut, Idles
    <3> QED BY <1>1, RequestPaths, ReconnectPaths, CyclePaths DEF ClientStep
  <2> QED BY <2>1
<1>2. CASE Publish \/ Subscribe \/ Unsubscribe \/ Yield
  <2>1. sp = 0 /\ sp' = 1 /\ Cur'.fn # "reconnect"
    BY <1>2, OutsidePaths
  <2>2. Below
    BY <2>1 DEF Below
  <2> QED BY <2>1, <2>2 DEF Cur
<1>3. CASE UserDisconnect
  <2>1. sp = 0 /\ sp' = 0
    BY <1>3, OutsidePaths
  <2> QED BY <2>1 DEF Below
<1>4. CASE SetAutoReconnect \/ Destroy \/ Environment \/ Elapse \/ UNCHANGED vars
  <2>1. Idles
    BY <1>4, OutsidePaths
  <2>2. sp \in Nat
    BY DEF TypeInv, CallsOK
  <2> QED BY <2>1, <2>2
<1> QED BY <1>1, <1>2, <1>3, <1>4 DEF Next, Application

LEMMA AlternateStep ==
  ASSUME TypeInv, ShapeInv, ~Callbacks, Alternate, [Next]_vars PROVE Alternate'
<1>1. /\ sp' \in {sp - 1, sp, sp + 1} /\ Below /\ sp \in Nat
      /\ sp = 0 /\ sp' = 1 => stk'[1].fn # "reconnect"
  BY AnyPath DEF TypeInv, CallsOK
<1>2. ASSUME NEW k \in 1..sp', k <= sp PROVE stk'[k].fn = "reconnect" <=> k % 2 = 0
  <2>1. k \in 1..sp
    BY <1>1, <1>2
  <2> QED BY <1>2, <2>1, <1>1 DEF Below, Keep, Alternate
<1>3. ASSUME sp' = sp + 1 PROVE stk'[sp + 1].fn = "reconnect" <=> (sp + 1) % 2 = 0
  <2>1. CASE sp = 0
    BY <1>1, <1>3, <2>1
  <2>2. CASE sp > 0
    <3>1. ShapeInv'
      BY ShapeStep
    <3>2. sp \in 1..sp' /\ sp < sp' /\ sp <= sp
      BY <1>1, <1>3, <2>2
    <3>3. Nests(stk'[sp], stk'[sp + 1])
      BY <3>1, <3>2 DEF ShapeInv, Nests, Formed, AtOwnPoint, AwaitsOwnAnswer, HoldsItsPacket
    <3>4. stk'[sp].fn = "reconnect" <=> sp % 2 = 0
      BY <1>2, <3>2
    <3>5. stk'[sp + 1].fn = "reconnect" <=> stk'[sp].fn # "reconnect"
      BY <3>3 DEF Nests
    <3>6. (sp + 1) % 2 = 0 <=> sp % 2 # 0
      BY <1>1
    <3> QED BY <3>4, <3>5, <3>6
  <2> QED BY <1>1, <2>1, <2>2
<1>4. \A k \in 1..sp' : k <= sp \/ (k = sp + 1 /\ sp' = sp + 1)
  BY <1>1
<1> QED BY <1>2, <1>3, <1>4 DEF Alternate

\* An accepting CONNACK is on its way or read, so that the client will be CONNECTED.
Greets(p) == p.type = "CONNACK" /\ p.ok
Held(c) == c.fn \in Connecting /\ c.pc \in {"post", "answered"} /\ Greets(c.got)
Promised == (\E i \in 1..Len(pipe) : Greets(pipe[i])) \/ Held(Cur)
\* A client that believes in a dead connection, or soon will.
Lost == sock \in {"mute", "reset"} /\ (state = "CONNECTED" \/ Promised)
\* What can still go wrong without the client giving up a handler.
Harm == faults + (IF Lost THEN 1 ELSE 0)

Harmless == faults' = faults - 1 \/ (faults' = faults /\ (Lost' => Lost))

LEMMA HarmFalls ==
  ASSUME TypeInv, Harmless PROVE faults' <= faults /\ Harm' <= Harm /\ Harm \in Nat
<1>1. faults \in Nat
  BY DEF TypeInv, NetOK
<1> HIDE DEF Lost
<1> QED BY <1>1 DEF Harmless, Harm

LEMMA NetUnchanged ==
  ASSUME UNCHANGED <<state, net>>, Held(Cur') => Held(Cur) PROVE Harmless
BY DEF Harmless, Lost, Promised, net, Held, Greets

LEMMA NetUp == ASSUME UNCHANGED faults, sock' \in {"up", "closed"} PROVE Harmless
BY DEF Harmless, Lost

LEMMA SentHarm ==
  /\ \A type, id : Sent(BrokerAnswer(type, id)) => UNCHANGED net \/ (UNCHANGED faults /\ sock' = "up")
  /\ \A id : Sent(RequestReceived(id)) => UNCHANGED net \/ (UNCHANGED faults /\ sock' = "up")
BY DEF Sent, BrokerAnswer, Reply, RequestReceived, BrokerSubscribe, BrokerUnsubscribe, net

\* The client closes the connection.
LEMMA ClosedHarm ==
  ASSUME Disconnect \/ CloseConnection
  PROVE  UNCHANGED <<state, net>> \/ (UNCHANGED faults /\ sock' = "closed")
BY DEF Disconnect, CloseConnection, net

LEMMA CallerHolds == ASSUME TypeInv, ShapeInv, Cur' = Parent PROVE ~Held(Cur')
<1>1. Parent.pc \in {"none", "checked", "exited", "resubscribe", "reconnected"}
  BY Waiting
<1> QED BY <1>1 DEF Held

LEMMA RequestHarm ==
  ASSUME TypeInv, ShapeInv,
         \/ CheckConnection \/ ConnectionChecked \/ SendRequest \/ RequestAnswered
         \/ RequestUnanswered \/ RequestExit \/ RequestExited
  PROVE  Harmless
<1>1. ~Held(Cur')
  <2>1. CASE Cur' = Parent
    BY <2>1, CallerHolds
  <2>2. CASE Cur' = HandleReconnect
    BY <2>2, HandleReconnectFields DEF Held
  <2>3. CASE \E p \in {"send", "read", "exit"} : Cur'.pc = p
    BY <2>3 DEF Held
  <2> QED BY <2>1, <2>2, <2>3, CheckConnectionMoves, ConnectionCheckedMoves, SendRequestMoves,
             RequestEndMoves DEF MovesTo, Advanced, Enters, Returns
<1>2. CASE CheckConnection \/ ConnectionChecked \/ RequestAnswered \/ RequestUnanswered \/ RequestExited
  BY <1>1, <1>2, NetUnchanged
     DEF CheckConnection, ConnectionChecked, RequestAnswered, RequestUnanswered, RequestExited,
         client, net
<1>3. CASE SendRequest
  <2>1. UNCHANGED net \/ (UNCHANGED faults /\ sock' = "up")
    BY <1>3, SentHarm, SendRequestMoves DEF SendFails
  <2>2. state' = state
    BY <1>3 DEF SendRequest
  <2> QED BY <1>1, <2>1, <2>2, NetUnchanged, NetUp
<1>4. CASE RequestExit
  BY <1>1, <1>4, ClosedHarm, NetUnchanged, NetUp DEF RequestExit
<1> QED BY <1>2, <1>3, <1>4

LEMMA ReconnectHarm ==
  ASSUME TypeInv, ShapeInv, DownInv,
         ReconnectStart \/ SendConnect \/ ConnectAnswered \/ ConnectUnanswered \/ Resubscribe
  PROVE  Harmless
<1>1. ~Held(Cur')
  <2>1. CASE Cur' = Parent
    BY <2>1, CallerHolds
  <2>2. CASE \E p \in {"connect", "read", "resubscribe", "check"} : Cur'.pc = p
    BY <2>2 DEF Held
  <2> QED BY <2>1, <2>2, ConnectMoves, ResubscribeMoves DEF MovesTo, Advanced, Returns
<1>2. CASE ReconnectStart
  <2>1. faults' = faults - 1 \/ UNCHANGED <<state, net>> \/ (UNCHANGED faults /\ sock' = "up")
    BY <1>2 DEF ReconnectStart, net
  <2> QED BY <1>1, <2>1, NetUnchanged, NetUp DEF Harmless
<1>3. CASE SendConnect
  <2>1. Cur.fn \in Connecting /\ Cur.pc = "connect" /\ state' = state
    BY <1>3, ConnectMoves DEF SendConnect
  <2>2. state' # "CONNECTED"
    BY <2>1 DEF DownInv
  <2>3. ASSUME pipe' = <<>>, UNCHANGED faults PROVE Harmless
    <3>1. ~Promised'
      BY <1>1, <2>3 DEF Promised, Held, Greets
    <3> QED BY <2>2, <2>3, <3>1 DEF Harmless, Lost
  <2>4. \/ UNCHANGED net \/ faults' = faults - 1
        \/ UNCHANGED faults /\ (pipe' = <<>> \/ sock' = "up")
    BY <1>3 DEF SendConnect, Sent, BrokerConnect, Reply, SendFails
  <2> QED BY <1>1, <2>1, <2>3, <2>4, NetUnchanged, NetUp DEF Harmless
<1>4. CASE ConnectAnswered
  <2>1. sp > 0 /\ Cur = Top /\ Cur.pc = "answered" /\ Formed(Cur) /\ Cur.fn \in Connecting
    BY <1>4, Runs, Known, ConnectMoves DEF ConnectAnswered
  <2>2. Cur.got.type = "CONNACK"
    BY <2>1 DEF Formed, HoldsItsPacket, AwaitsOwnAnswer
  <2>3. UNCHANGED net /\ (state' = state \/ Top.got.ok)
    BY <1>4 DEF ConnectAnswered
  <2>4. Top.got.ok => Promised
    BY <2>1, <2>2 DEF Promised, Held, Greets
  <2>5. CASE Top.got.ok
    BY <2>3, <2>4, <2>5 DEF Harmless, Lost, net
  <2>6. CASE state' = state
    BY <1>1, <2>3, <2>6, NetUnchanged
  <2> QED BY <2>3, <2>5, <2>6
<1>5. CASE ConnectUnanswered \/ Resubscribe
  BY <1>1, <1>5, NetUnchanged DEF ConnectUnanswered, Resubscribe
<1> QED BY <1>2, <1>3, <1>4, <1>5

LEMMA CycleHarm ==
  ASSUME TypeInv, ShapeInv,
         \/ HandlerReturns \/ YieldLoop \/ YieldReconnected \/ YieldReturns \/ ReadPacket
         \/ ReadNothing \/ ReadError \/ Acknowledge \/ Keepalive \/ CycleFailed
  PROVE  Harmless
<1>1. CASE HandlerReturns
  <2>1. Cur'.got.type = "PUBLISH"
    BY <1>1, HandlerReturnsMoves DEF MovesTo, Advanced
  <2> QED BY <1>1, <2>1, NetUnchanged DEF HandlerReturns, client, Held, Greets
<1>2. CASE YieldLoop \/ YieldReconnected \/ YieldReturns
  <2>1. CASE Cur' = Parent
    BY <1>2, <2>1, CallerHolds, NetUnchanged
       DEF YieldLoop, YieldReconnected, YieldReturns, client
  <2>2. CASE Cur' = HandleReconnect \/ \E p \in {"read", "loop", "sleep"} : Cur'.pc = p
    <3>1. ~Held(Cur')
      BY <2>2, HandleReconnectFields DEF Held
    <3> QED BY <1>2, <3>1, NetUnchanged DEF YieldLoop, YieldReconnected, YieldReturns, client
  <2> QED BY <1>2, <2>1, <2>2, YieldMoves DEF MovesTo, Advanced, Enters, Returns
<1>3. CASE ReadPacket
  <2>1. pipe # <<>> /\ Cur'.got = Head(pipe) /\ pipe \in Seq(Packets)
    BY <1>3, ReadMoves DEF Reads, TypeInv, NetOK
  <2>2. pipe' = Tail(pipe) /\ UNCHANGED <<state, sock, faults>>
    BY <1>3 DEF ReadPacket
  <2>3. 1 \in 1..Len(pipe) /\ Head(pipe) = pipe[1]
    BY <2>1
  <2>4. \A i \in 1..Len(pipe') : i + 1 \in 1..Len(pipe) /\ pipe'[i] = pipe[i + 1]
    BY <2>1, <2>2
  <2>5. Promised' => Promised
    <3>1. CASE Held(Cur')
      BY <2>1, <2>3, <3>1 DEF Promised, Held, Greets
    <3>2. CASE \E i \in 1..Len(pipe') : Greets(pipe'[i])
      BY <2>4, <3>2 DEF Promised, Greets
    <3> QED BY <3>1, <3>2 DEF Promised, Held, Greets
  <2> QED BY <2>2, <2>5 DEF Harmless, Lost
<1>4. CASE ReadNothing
  <2>1. Cur'.got = NoPacket
    BY <1>4, ReadMoves DEF Reads
  <2>2. ~Held(Cur')
    BY <2>1 DEF Held, Greets, NoPacket, Packet
  <2> QED BY <1>4, <2>2, NetUnchanged DEF ReadNothing, client
<1>5. CASE ReadError
  <2>1. ~Held(Cur')
    BY <1>5, ReadMoves DEF MovesTo, Advanced, Held
  <2> QED BY <1>5, <2>1, NetUnchanged DEF ReadError, client
<1>6. CASE Acknowledge
  <2>1. ~Held(Cur')
    BY <1>6, AcknowledgeMoves DEF MovesTo, Advanced, Held, Greets
  <2>2. UNCHANGED net \/ (UNCHANGED faults /\ sock' = "up")
    BY <1>6, SentHarm DEF Acknowledge, SendFails
  <2>3. state' = state
    BY <1>6 DEF Acknowledge, client
  <2> QED BY <2>1, <2>2, <2>3, NetUnchanged, NetUp
<1>7. CASE Keepalive
  <2>1. Held(Cur') => Held(Cur)
    BY <1>7, KeepaliveMoves DEF MovesTo, Advanced, Held, Greets
  <2>2. UNCHANGED net \/ (UNCHANGED faults /\ sock' = "up")
    BY <1>7, SentHarm DEF Keepalive, SendFails
  <2>3. state' = state
    BY <1>7 DEF Keepalive
  <2> QED BY <2>1, <2>2, <2>3, NetUnchanged, NetUp
<1>8. CASE CycleFailed
  <2>1. ~Held(Cur')
    BY <1>8, CycleFailedMoves DEF MovesTo, Advanced, Held
  <2>2. UNCHANGED <<state, net>> \/ (UNCHANGED faults /\ sock' = "closed")
    BY <1>8, ClosedHarm DEF CycleFailed
  <2> QED BY <2>1, <2>2, NetUnchanged, NetUp
<1> QED BY <1>1, <1>2, <1>3, <1>4, <1>5, <1>6, <1>7, <1>8

LEMMA OutsideHarm ==
  ASSUME TypeInv, ShapeInv, ~Callbacks, Application \/ Environment \/ Elapse \/ UNCHANGED vars
  PROVE  Harmless
<1>1. CASE Publish \/ Subscribe \/ Unsubscribe \/ Yield
  <2>1. ~Held(Cur') /\ UNCHANGED <<client, net>>
    BY <1>1, ApplicationMoves DEF Held
  <2> QED BY <2>1, NetUnchanged DEF client
<1>2. CASE UserDisconnect
  <2>1. ~Held(Cur')
    BY <1>2, ApplicationMoves, NoCallFields DEF Held
  <2> QED BY <1>2, <2>1, ClosedHarm, NetUnchanged, NetUp DEF UserDisconnect
<1>3. CASE SetAutoReconnect \/ Destroy \/ Stabilise \/ UNCHANGED vars
  <2>1. UNCHANGED <<state, net, calls>>
    BY <1>3 DEF SetAutoReconnect, Destroy, Stabilise, vars, client
  <2> QED BY <2>1, CallsStay, NetUnchanged
<1>4. CASE NetReset \/ NetMute
  BY <1>4 DEF NetReset, NetMute, Fault, Harmless
<1>5. CASE BrokerPublish
  BY <1>5, NetUp DEF BrokerPublish
<1>6. CASE Elapse
  <2>1. Held(Cur') <=> Held(Cur)
    BY <1>6, ElapseMoves DEF Held, Greets
  <2> QED BY <1>6, <2>1, NetUnchanged DEF Elapse, client
<1> QED BY <1>1, <1>2, <1>3, <1>4, <1>5, <1>6 DEF Application, Environment

LEMMA HarmStep == ASSUME TypeInv, ShapeInv, DownInv, ~Callbacks, [Next]_vars PROVE Harmless
<1>1. CASE ClientStep
  BY <1>1, RequestHarm, ReconnectHarm, CycleHarm DEF ClientStep
<1>2. CASE Application \/ Environment \/ Elapse \/ UNCHANGED vars
  BY <1>2, OutsideHarm
<1> QED BY <1>1, <1>2 DEF Next

\* The m-th reconnect is call 2 * m.  Filters are those that will have been in the table since
\* the calls it started: handled ones, and ones that are about to be registered again.
Asked(n) == {stk[k].topic : k \in {j \in 1..sp : j >= n /\ Asks(stk[j])}}
Filters(m) == Handled \cup Asked(2 * m + 1)
Cost(m) == m + Cardinality(Filters(m))

Limit == MaxHandlers + MaxFaults + 1
Room(m) == Cost(m) + Harm < Limit

LEMMA ImageFinite ==
  ASSUME NEW S, IsFiniteSet(S), NEW T, NEW f \in [S -> T], \A t \in T : \E x \in S : f[x] = t
  PROVE  IsFiniteSet(T) /\ Cardinality(T) <= Cardinality(S)
<1>1. f \in Surjection(S, T)
  BY DEF Surjection
<1> QED BY <1>1, FS_Surjection

LEMMA HandledFinite ==
  TypeInv => IsFiniteSet(Handled) /\ Cardinality(Handled) <= MaxHandlers
<1> SUFFICES ASSUME TypeInv PROVE IsFiniteSet(Handled) /\ Cardinality(Handled) <= MaxHandlers
  OBVIOUS
<1> DEFINE R == {handlers[i] : i \in Slots}
<1>1. IsFiniteSet(Slots) /\ Cardinality(Slots) = MaxHandlers /\ MaxHandlers \in Nat
  BY HandlersAssumption, FS_Interval DEF Slots
<1>2. IsFiniteSet(R) /\ Cardinality(R) <= MaxHandlers
  <2>1. handlers \in [Slots -> R]
    BY DEF TypeInv, ClientOK
  <2>2. \A t \in R : \E i \in Slots : handlers[i] = t
    OBVIOUS
  <2> HIDE DEF R
  <2> QED BY <1>1, <2>1, <2>2, ImageFinite
<1> HIDE DEF R
<1>3. Handled \subseteq R
  BY DEF Handled, R
<1>4. IsFiniteSet(Handled) /\ Cardinality(Handled) <= Cardinality(R)
  BY <1>2, <1>3, FS_Subset
<1> QED BY <1>1, <1>2, <1>4, FS_CardinalityType

LEMMA FiltersFinite ==
  ASSUME TypeInv, NEW m \in Nat PROVE IsFiniteSet(Filters(m)) /\ Cost(m) \in Nat
<1> DEFINE K == {j \in 1..sp : j >= 2 * m + 1 /\ Asks(stk[j])}
           T == {stk[k].topic : k \in K}
<1>1. IsFiniteSet(1..sp)
  BY FS_Interval DEF TypeInv, CallsOK
<1>2. K \subseteq 1..sp
  OBVIOUS
<1>3. IsFiniteSet(K)
  <2> HIDE DEF K
  <2> QED BY <1>1, <1>2, FS_Subset
<1>4. IsFiniteSet(T)
  <2> DEFINE f == [k \in K |-> stk[k].topic]
  <2>1. f \in [K -> T] /\ \A t \in T : \E k \in K : f[k] = t
    <3> HIDE DEF K
    <3> QED OBVIOUS
  <2> HIDE DEF f, K, T
  <2> QED BY <1>3, <2>1, ImageFinite
<1>5. Filters(m) = Handled \cup T
  BY DEF Filters, Asked
<1> HIDE DEF T
<1>6. IsFiniteSet(Filters(m))
  BY <1>4, <1>5, HandledFinite, FS_Union
<1> QED BY <1>6, FS_CardinalityType DEF Cost

\* What a step may add to the table: the filter that the innermost call registers.
LEMMA FiltersShrink ==
  ASSUME TypeInv, ShapeInv, Alternate, Below,
         NEW m \in Nat, 1 <= m, 2 * m <= sp, 2 * m <= sp', sp' \in Nat, sp' <= sp + 1,
         Handled' \subseteq Handled \cup (IF Asks(Cur) THEN {Cur.topic} ELSE {}),
         sp' = sp + 1 /\ Asks(Cur') => Cur'.topic \in Handled
  PROVE  Filters(m)' \subseteq Filters(m)
<1>0. sp \in Nat /\ sp' \in Nat /\ 2 * m + 1 \in Nat
  BY DEF TypeInv, CallsOK
<1>1. Handled' \subseteq Filters(m)
  <2>1. CASE Asks(Cur)
    <3>1. Cur = stk[sp] /\ sp \in 1..sp
      BY <1>0 DEF Cur
    <3>2. sp # 2 * m
      BY <2>1, <3>1, <1>0 DEF Alternate, Asks
    <3>3. sp >= 2 * m + 1
      BY <3>2, <1>0
    <3>4. Cur.topic \in Asked(2 * m + 1)
      BY <2>1, <3>1, <3>3 DEF Asked
    <3> QED BY <2>1, <3>4 DEF Filters
  <2>2. CASE ~Asks(Cur)
    BY <2>2 DEF Filters
  <2> QED BY <2>1, <2>2
<1>2. ASSUME NEW k \in 1..sp', k >= 2 * m + 1, Asks(stk'[k]) PROVE stk'[k].topic \in Filters(m)
  <2>1. CASE k <= sp
    <3>1. k \in 1..sp /\ Keep(stk[k], stk'[k])
      BY <1>0, <2>1 DEF Below
    <3>2. stk'[k].topic = stk[k].topic /\ Asks(stk[k])
      BY <3>1, <1>2 DEF Keep
    <3> QED BY <1>2, <3>1, <3>2 DEF Filters, Asked
  <2>2. CASE k > sp
    <3>1. k = sp + 1 /\ sp' = sp + 1 /\ sp' # 0 /\ k = sp'
      BY <1>0, <2>2
    <3>2. Cur' = stk'[k]
      BY <3>1 DEF Cur
    <3> QED BY <1>2, <3>1, <3>2 DEF Filters
  <2> QED BY <1>0, <2>1, <2>2
<1>3. Filters(m)' = Handled' \cup {stk'[k].topic : k \in {j \in 1..sp' : j >= 2 * m + 1 /\ Asks(stk'[j])}}
  BY DEF Filters, Asked, Asks
<1> QED BY <1>1, <1>2, <1>3

\* What every step has in common.
Steady ==
  /\ sp' \in {sp - 1, sp, sp + 1} /\ Below /\ Harmless
  /\ Handled' \subseteq Handled \cup (IF Asks(Cur) THEN {Cur.topic} ELSE {})
  /\ sp > 0 /\ sp' = sp + 1 /\ Asks(Cur') => Cur'.topic \in Handled

LEMMA TableSteps ==
  ASSUME TypeInv, NEW t
  PROVE  /\ handlers' = Registered(t) => Handled' \subseteq Handled \cup {t}
         /\ handlers' = Unregistered(t) => Handled' \subseteq Handled
         /\ handlers' = handlers => Handled' = Handled
<1>1. ASSUME handlers' = Registered(t) PROVE Handled' \subseteq Handled \cup {t}
  <2>1. \A i \in Slots : handlers'[i] = handlers[i] \/ handlers'[i] = t
    BY <1>1 DEF Registered
  <2> QED BY <2>1 DEF Handled
<1>2. ASSUME handlers' = Unregistered(t) PROVE Handled' \subseteq Handled
  <2>1. \A i \in Slots : handlers'[i] = handlers[i] \/ handlers'[i] = NoTopic
    BY <1>2 DEF Unregistered
  <2> QED BY <2>1 DEF Handled
<1> QED BY <1>1, <1>2 DEF Handled

LEMMA HandledStep ==
  ASSUME TypeInv, ShapeInv, ~Callbacks, [Next]_vars
  PROVE  Handled' \subseteq Handled \cup (IF Asks(Cur) THEN {Cur.topic} ELSE {})
<1>1. CASE handlers' = handlers
  BY <1>1, TableSteps
<1>2. CASE SendRequest
  <2>1. /\ Cur.pc = "send"
        /\ handlers' = handlers \/ (Cur.fn = "subscribe" /\ handlers' = Registered(Cur.topic))
    BY <1>2, RequestPaths
  <2> QED BY <1>1, <2>1, TableSteps DEF Asks
<1>3. CASE RequestAnswered \/ RequestUnanswered
  <2>1. handlers' = handlers \/ handlers' = Unregistered(Top.topic)
    BY <1>3 DEF RequestAnswered, RequestUnanswered
  <2> QED BY <1>1, <2>1, TableSteps
<1>4. CASE Destroy
  <2>1. \A i \in Slots : handlers'[i] = NoTopic \/ handlers'[i] = handlers[i]
    BY <1>4 DEF Destroy
  <2> QED BY <2>1 DEF Handled
<1>5. \/ handlers' = handlers \/ SendRequest \/ RequestAnswered \/ RequestUnanswered \/ Destroy
  <2>1. CASE ClientStep
    BY <2>1
       DEF ClientStep, HandlerReturns, CheckConnection, ConnectionChecked, RequestExit,
           RequestExited, ReconnectStart, SendConnect, ConnectAnswered, ConnectUnanswered,
           Resubscribe, YieldLoop, YieldReconnected, YieldReturns, ReadPacket, ReadNothing,
           ReadError, Acknowledge, Keepalive, CycleFailed, client
  <2>2. CASE Application
    BY <2>2 DEF Application, Publish, Subscribe, Unsubscribe, Yield, UserDisconnect,
                SetAutoReconnect, Enter, client
  <2>3. CASE Elapse \/ Environment \/ UNCHANGED vars
    BY <2>3 DEF Elapse, Environment, NetReset, NetMute, Fault, BrokerPublish, Stabilise,
                client, vars
  <2> QED BY <2>1, <2>2, <2>3 DEF Next
<1> QED BY <1>1, <1>2, <1>3, <1>4, <1>5

LEMMA SteadyStep ==
  ASSUME TypeInv, ShapeInv, DownInv, ~Callbacks, [Next]_vars PROVE Steady
<1>1. ASSUME sp > 0, sp' = sp + 1, Asks(Cur') PROVE Cur'.topic \in Handled
  <2>0. sp \in Nat
    BY DEF TypeInv, CallsOK
  <2>1. ASSUME NEW p, StaysAt(p) PROVE FALSE
    BY <1>1, <2>0, <2>1 DEF StaysAt
  <2>2. GoesOut \/ Idles => FALSE
    BY <1>1, <2>0 DEF GoesOut, Idles
  <2>3. Cur' # HandleReconnect
    BY <1>1, HandleReconnectFields DEF Asks
  <2>4. CASE ClientStep
    BY <2>1, <2>2, <2>3, <2>4, RequestPaths, ReconnectPaths, CyclePaths DEF ClientStep
  <2>5. CASE Application \/ Environment \/ Elapse \/ UNCHANGED vars
    BY <1>1, <2>0, <2>2, <2>5, OutsidePaths DEF Application
  <2> QED BY <2>4, <2>5 DEF Next
<1> QED BY <1>1, AnyPath, HarmStep, HandledStep DEF Steady

LEMMA Shrinks ==
  ASSUME TypeInv, TypeInv', ShapeInv, Alternate, Steady,
         NEW m \in Nat, 1 <= m, 2 * m <= sp, 2 * m <= sp'
  PROVE  /\ Cost(m)' <= Cost(m) /\ Cost(m) \in Nat /\ Cost(m)' \in Nat
         /\ \A x \in Filters(m) : x \notin Filters(m)' => Cost(m)' < Cost(m)
         /\ faults' <= faults /\ Harm' <= Harm /\ Harm' \in Nat /\ Harm \in Nat
         /\ Room(m) => Room(m)'
         /\ faults' \in Nat /\ faults' <= Harm'
<1>1. sp \in Nat /\ sp' \in Nat
  BY DEF TypeInv, CallsOK
<1>2. Filters(m)' \subseteq Filters(m)
  BY <1>1, FiltersShrink DEF Steady
<1>3. IsFiniteSet(Filters(m)) /\ Cost(m) \in Nat
  BY FiltersFinite
<1>4. Cost(m)' = m + Cardinality(Filters(m)')
  BY DEF Cost
<1> DEFINE F == Filters(m)  G == Filters(m)'
<1>5. IsFiniteSet(G) /\ Cardinality(G) \in Nat /\ Cardinality(F) \in Nat
      /\ Cardinality(G) <= Cardinality(F) /\ (Cardinality(F) = Cardinality(G) => F = G)
  <2> HIDE DEF F, G
  <2>1. G \subseteq F /\ IsFiniteSet(F)
    BY <1>2, <1>3 DEF F, G
  <2> QED BY <2>1, FS_Subset, FS_CardinalityType
<1>6. Cost(m) = m + Cardinality(F) /\ Cost(m)' = m + Cardinality(G)
  BY <1>4 DEF Cost
<1>7. ASSUME NEW x \in F, x \notin G PROVE Cost(m)' < Cost(m)
  <2>1. F # G
    BY <1>7
  <2> HIDE DEF F, G
  <2> QED BY <1>5, <1>6, <2>1
<1>8. Cost(m)' <= Cost(m) /\ Cost(m)' \in Nat
  <2> HIDE DEF F, G
  <2> QED BY <1>5, <1>6
<1>9. faults' <= faults /\ Harm' <= Harm /\ Harm \in Nat
  BY HarmFalls DEF Steady
<1>10. faults' \in Nat /\ Harm' \in Nat /\ faults' <= Harm'
  <2>1. faults' \in Nat
    BY DEF TypeInv, NetOK
  <2>2. Lost' => Harm' = faults' + 1
    BY Zenon DEF Harm
  <2>3. ~Lost' => Harm' = faults' + 0
    BY Zenon DEF Harm
  <2> QED BY <2>1, <2>2, <2>3
<1>11. Limit \in Nat
  BY HandlersAssumption, BoundsAssumption DEF Limit
<1>12. Room(m)' <=> Cost(m)' + Harm' < Limit
  BY DEF Room, Limit
<1>13. Room(m) => Room(m)'
  BY <1>3, <1>8, <1>9, <1>10, <1>11, <1>12 DEF Room
<1> QED BY <1>3, <1>7, <1>8, <1>9, <1>10, <1>13

SubscribeRoom(m) ==
  /\ state # "CONNECTED" /\ Cur.pc # "unanswered" => Room(m)
  /\ Cur.pc = "exit" => Cost(m) + faults < Limit
  /\ Cur.pc \in {"checked", "exited"} => Room(m)
  /\ Cur.pc \in Cycle \cup {"answered", "unanswered"} => Cur.topic \in Handled \/ Room(m)

CostInv ==
  \A m \in 1..sp : 2 * m <= sp => Cost(m) + Harm <= Limit /\ (2 * m + 2 <= sp => Room(m))
RoomInv ==
  \A m \in 1..sp :
    /\ 2 * m = sp /\ Cur.pc = "resubscribe" /\ state # "CONNECTED" => Room(m)
    /\ 2 * m + 1 = sp => SubscribeRoom(m)
NestingInv == Alternate /\ Harm <= MaxFaults /\ CostInv /\ RoomInv

\* A step from a state in which NestingInv holds.
Proceeds ==
  /\ TypeInv /\ TypeInv' /\ ShapeInv /\ SocketMatchesState /\ NoDuplicateHandler
  /\ NestingInv /\ Steady

LEMMA ResubscribedCall ==
  ASSUME TypeInv, ShapeInv, Alternate, NEW m \in Nat, 1 <= m, 2 * m + 1 = sp
  PROVE  Cur.fn = "subscribe" /\ Cur = stk[sp]
<1>1. 2 * m \in 1..sp /\ 2 * m < sp /\ (2 * m) % 2 = 0 /\ sp # 0
  OBVIOUS
<1>2. stk[2 * m].fn = "reconnect" /\ Nests(stk[2 * m], stk[2 * m + 1])
  BY <1>1 DEF Alternate, ShapeInv
<1> QED BY <1>1, <1>2 DEF Nests, Cur

LEMMA RoomFor ==
  ASSUME Proceeds, NEW m \in Nat, 1 <= m, 2 * m + 1 = sp
  PROVE  /\ SubscribeRoom(m) /\ Cost(m) + Harm <= Limit
         /\ Cur.fn = "subscribe" /\ Cur = stk[sp]
<1>1. m \in 1..sp /\ 2 * m <= sp
  OBVIOUS
<1>2. SubscribeRoom(m) /\ Cost(m) + Harm <= Limit
  BY <1>1 DEF Proceeds, NestingInv, RoomInv, CostInv
<1> QED BY <1>2, ResubscribedCall DEF Proceeds, NestingInv

LEMMA RoomSuffices ==
  ASSUME Proceeds, NEW m \in Nat, 1 <= m, 2 * m <= sp, 2 * m <= sp', Room(m)'
  PROVE  SubscribeRoom(m)'
<1>1. faults' <= Harm' /\ faults' \in Nat /\ Harm' \in Nat /\ Cost(m)' \in Nat
  BY Shrinks DEF Proceeds, NestingInv
<1>2. Limit \in Nat /\ Limit' = Limit
  BY HandlersAssumption, BoundsAssumption DEF Limit
<1>3. Cost(m)' + Harm' < Limit
  BY <1>2 DEF Room
<1>4. Cost(m)' + faults' < Limit
  BY <1>1, <1>2, <1>3
<1> QED BY <1>2, <1>4 DEF SubscribeRoom

\* A filter that the innermost call no longer asks for is in the table, or makes room.
LEMMA FilterGone ==
  ASSUME Proceeds, NEW m \in Nat, 1 <= m, 2 * m + 1 = sp, sp' = sp, ~Asks(Cur'),
         Cur.topic \in Filters(m)
  PROVE  Cur.topic \in Handled' \/ Room(m)'
<1>1. SUFFICES ASSUME Cur.topic \notin Handled' PROVE Room(m)'
  OBVIOUS
<1>2. Filters(m)' = Handled' \cup {stk'[k].topic : k \in {j \in 1..sp' : j >= 2 * m + 1 /\ Asks(stk'[j])}}
  BY DEF Filters, Asked, Asks
<1>3. \A j \in 1..sp' : j >= 2 * m + 1 => stk'[j] = Cur'
  BY DEF Cur
<1>4. Cur.topic \notin Filters(m)'
  BY <1>1, <1>2, <1>3
<1>5. /\ Cost(m)' < Cost(m) /\ Cost(m) \in Nat /\ Cost(m)' \in Nat
      /\ Harm' <= Harm /\ Harm' \in Nat /\ Harm \in Nat
  BY <1>4, Shrinks DEF Proceeds, NestingInv
<1>6. Limit \in Nat /\ Cost(m) + Harm <= Limit
  BY RoomFor, HandlersAssumption, BoundsAssumption DEF Limit
<1>7. Cost(m)' + Harm' < Limit
  BY <1>5, <1>6
<1> QED BY <1>7 DEF Room, Limit

LEMMA CycleRoom ==
  ASSUME Proceeds, NEW m \in Nat, 1 <= m, 2 * m + 1 = sp, NEW p, StaysAt(p),
         handlers' = handlers,
         Cur.pc \in Cycle, p \in Cycle \cup {"answered", "unanswered"},
         state' = state \/ p = "unanswered"
  PROVE  SubscribeRoom(m)'
<1>1. SubscribeRoom(m) /\ Cur.pc # "unanswered"
  BY RoomFor DEF Cycle
<1>2. sp' = sp /\ Cur'.pc = p /\ Cur'.topic = Cur.topic
  BY DEF StaysAt
<1>3. Room(m) => Room(m)'
  BY <1>2, Shrinks DEF Proceeds, NestingInv
<1>4. Room(m) => SubscribeRoom(m)'
  BY <1>2, <1>3, RoomSuffices
<1>5. CASE ~Room(m)
  <2>1. state = "CONNECTED" /\ Cur.topic \in Handled
    BY <1>1, <1>5 DEF SubscribeRoom
  <2>2. Cur'.topic \in Handled'
    BY <1>2, <2>1 DEF Handled
  <2>3. p \notin {"exit", "checked", "exited"}
    BY DEF Cycle
  <2> QED BY <1>2, <2>1, <2>2, <2>3 DEF SubscribeRoom
<1> QED BY <1>4, <1>5

LEMMA StaysRoom ==
  ASSUME Proceeds, ClientStep, NEW m \in Nat, 1 <= m, 2 * m + 1 = sp, sp' = sp
  PROVE  SubscribeRoom(m)'
<1>1. SubscribeRoom(m) /\ Cur.fn = "subscribe" /\ Cur = stk[sp] /\ Cost(m) + Harm <= Limit
  BY RoomFor
<1>2. TypeInv /\ ShapeInv /\ ~GoesIn /\ ~GoesOut /\ Cur = Top
  BY <1>1 DEF Proceeds, GoesIn, GoesOut, TypeInv, CallsOK, Top
<1>3. Room(m) => SubscribeRoom(m)'
  BY Shrinks, RoomSuffices DEF Proceeds, NestingInv
<1>4. Asks(Cur) => Cur.topic \in Filters(m)
  BY <1>1 DEF Filters, Asked, TypeInv, CallsOK
<1>5. CASE HandlerReturns \/ ReadPacket \/ ReadNothing \/ ReadError \/ Acknowledge \/ Keepalive
  <2>1. PICK p \in Cycle \cup {"answered", "unanswered"} : Cur.pc \in Cycle /\ StaysAt(p)
    BY <1>1, <1>2, <1>5, CyclePaths DEF Cycle
  <2>2. UNCHANGED <<state, handlers>>
    BY <1>5 DEF HandlerReturns, ReadPacket, ReadNothing, ReadError, Acknowledge, Keepalive, client
  <2> QED BY <2>1, <2>2, CycleRoom
<1>6. CASE CycleFailed
  <2>1. Cur.pc \in Cycle /\ StaysAt("unanswered") /\ handlers' = handlers
    BY <1>1, <1>2, <1>6, CyclePaths DEF Cycle, CycleFailed
  <2> QED BY <2>1, CycleRoom
<1>7. CASE CheckConnection
  <2>1. state' = "CONNECTED" /\ Cur'.pc = "send"
    BY <1>2, <1>7, RequestPaths DEF StaysAt, CheckConnection, client
  <2> QED BY <2>1 DEF SubscribeRoom, Cycle
<1>8. CASE ConnectionChecked
  BY <1>1, <1>2, <1>3, <1>8, RequestPaths DEF SubscribeRoom
<1>9. CASE SendRequest
  <2>1. /\ Cur.pc = "send" /\ Asks(Cur) /\ state' = state
        /\ \/ StaysAt("read")
           \/ StaysAt("exit") /\ SendFails /\ handlers' = handlers
    BY <1>1, <1>2, <1>9, RequestPaths DEF Asks
  <2>2. CASE state # "CONNECTED"
    BY <1>1, <1>3, <2>1, <2>2 DEF SubscribeRoom
  <2>3. CASE state = "CONNECTED" /\ StaysAt("read")
    <3>1. Cur'.pc = "read" /\ Cur'.topic = Cur.topic /\ ~Asks(Cur')
      BY <2>3 DEF StaysAt, Asks
    <3>2. Cur.topic \in Handled' \/ Room(m)'
      BY <1>4, <2>1, <3>1, FilterGone
    <3> QED BY <2>1, <2>3, <3>1, <3>2 DEF SubscribeRoom
  <2>4. CASE state = "CONNECTED" /\ StaysAt("exit") /\ SendFails
    <3>1. Lost /\ Harm = faults + 1
      <4>1. sock \in {"mute", "reset"}
        BY <2>4 DEF SendFails, Proceeds, SocketMatchesState, TypeInv, NetOK, SockStates
      <4> QED BY <2>4, <4>1 DEF Lost, Harm
    <3>2. Cost(m)' <= Cost(m) /\ faults' <= faults /\ Cost(m) \in Nat /\ Cost(m)' \in Nat
          /\ faults \in Nat /\ faults' \in Nat
      BY Shrinks DEF Proceeds, NestingInv, TypeInv, NetOK
    <3>3. Limit \in Nat /\ Limit' = Limit
      BY HandlersAssumption, BoundsAssumption DEF Limit
    <3>4. Cost(m)' + faults' < Limit
      BY <1>1, <3>1, <3>2, <3>3
    <3>5. Cur'.pc = "exit"
      BY <2>4 DEF StaysAt
    <3> QED BY <2>1, <2>4, <3>3, <3>4, <3>5 DEF SubscribeRoom, Cycle
  <2> QED BY <2>1, <2>2, <2>3, <2>4
<1>10. CASE RequestUnanswered
  <2>1. Cur.pc = "unanswered" /\ StaysAt("exit") /\ ~Asks(Cur')
    BY <1>2, <1>10, RequestPaths DEF StaysAt, Asks
  <2>2. Cur.topic \in Handled \/ Room(m)
    BY <1>1, <2>1 DEF SubscribeRoom
  <2>3. CASE Cur.topic \in Handled
    <3>1. handlers' = Unregistered(Cur.topic) /\ Cur.topic \in Topics \cup {NoTopic}
      BY <1>1, <1>2, <1>10, TopFrame, FrameFields DEF RequestUnanswered, TypeInv
    <3>2. Cur.topic \notin Handled'
      BY <1>2, <3>1, UnregisteredRemoves DEF Proceeds
    <3>3. Cur.topic \in Filters(m)
      BY <2>3 DEF Filters
    <3>4. Room(m)'
      BY <2>1, <3>2, <3>3, FilterGone
    <3> QED BY <3>4, RoomSuffices
  <2> QED BY <1>3, <2>2, <2>3
<1>11. CASE RequestAnswered \/ RequestExit \/ RequestExited
  BY <1>2, <1>11, RequestPaths
<1>12. CASE ReconnectStart \/ SendConnect \/ ConnectAnswered \/ ConnectUnanswered \/ Resubscribe
  BY <1>1, <1>2, <1>12, ReconnectPaths DEF Connecting
<1>13. CASE YieldLoop \/ YieldReconnected \/ YieldReturns
  BY <1>1, <1>2, <1>13, CyclePaths
<1> QED BY <1>5, <1>6, <1>7, <1>8, <1>9, <1>10, <1>11, <1>12, <1>13 DEF ClientStep

\* The counts are numbers in every typed state, and so in the next one.
TableFits == IsFiniteSet(Handled) /\ Cardinality(Handled) <= MaxHandlers
FiltersFit == \A m \in Nat : IsFiniteSet(Filters(m)) /\ Cost(m) \in Nat

LEMMA TypedFits == TypeInv => TableFits /\ FiltersFit
BY HandledFinite, FiltersFinite DEF TableFits, FiltersFit

LEMMA TypedFitsAfter == TypeInv' => TableFits' /\ FiltersFit'
BY TypedFits, PTL

\* The call that starts a reconnect of its own, and the one that goes back to the loop.
LEMMA CallsRoom ==
  ASSUME Proceeds, ClientStep, NEW m \in Nat, 1 <= m, 2 * m + 1 = sp
  PROVE  /\ sp' = sp + 1 => Room(m)'
         /\ sp' = sp - 1 /\ state' # "CONNECTED" => Room(m)'
<1>1. SubscribeRoom(m) /\ Cur.fn = "subscribe" /\ Cost(m) + Harm <= Limit
  BY RoomFor
<1>2. TypeInv /\ ShapeInv /\ sp \in Nat
  BY DEF Proceeds, TypeInv, CallsOK
<1>3. SUFFICES ASSUME sp' = sp + 1 \/ (sp' = sp - 1 /\ state' # "CONNECTED") PROVE Room(m)'
  OBVIOUS
<1>4. \A p : ~StaysAt(p)
  BY <1>2, <1>3 DEF StaysAt
<1>5. Room(m) => Room(m)'
  BY <1>3, Shrinks DEF Proceeds, NestingInv
<1>6. CASE CheckConnection \/ RequestAnswered
  <2>1. Cur.pc \in {"check", "answered"} /\ state' = state
    BY <1>2, <1>6, RequestPaths DEF CheckConnection, RequestAnswered, client
  <2>2. state # "CONNECTED"
    <3>1. CASE CheckConnection
      BY <1>2, <1>4, <3>1, RequestPaths
    <3>2. CASE RequestAnswered
      BY <1>2, <1>3, <2>1, <3>2, RequestPaths DEF GoesOut
    <3> QED BY <1>6, <3>1, <3>2
  <2> QED BY <1>1, <1>5, <2>1, <2>2 DEF SubscribeRoom
<1>7. CASE ConnectionChecked \/ RequestExited
  BY <1>1, <1>2, <1>5, <1>7, RequestPaths DEF SubscribeRoom
<1>8. CASE SendRequest \/ RequestUnanswered
  BY <1>1, <1>2, <1>4, <1>8, RequestPaths
<1>9. CASE RequestExit
  <2>1. Cur.pc = "exit" /\ sp' = sp + 1
    BY <1>2, <1>9, RequestPaths DEF GoesIn
  <2>2. CASE state # "CONNECTED"
    BY <1>1, <1>5, <2>1, <2>2 DEF SubscribeRoom
  <2>3. CASE state = "CONNECTED"
    <3>1. sock' = "closed" /\ faults' = faults
      BY <1>9, <2>3 DEF RequestExit, Disconnect, CloseConnection
    <3>2. Harm' = faults
      <4>1. ~Lost'
        BY <3>1 DEF Lost
      <4>2. Harm' = faults' + 0
        BY <4>1, Zenon DEF Harm
      <4> QED BY <3>1, <4>2 DEF Proceeds, TypeInv, NetOK
    <3>3. /\ Cost(m)' <= Cost(m) /\ Cost(m) \in Nat /\ Cost(m)' \in Nat /\ faults \in Nat
          /\ Limit \in Nat
      <4>1. 2 * m <= sp /\ 2 * m <= sp'
        BY <2>1
      <4>2. Cost(m)' <= Cost(m) /\ Cost(m) \in Nat /\ Cost(m)' \in Nat
        BY <4>1, Shrinks DEF Proceeds, NestingInv
      <4> QED BY <4>2, HandlersAssumption, BoundsAssumption DEF Proceeds, TypeInv, NetOK, Limit
    <3>4. Cost(m) + faults < Limit
      BY <1>1, <2>1 DEF SubscribeRoom
    <3>5. Cost(m)' + Harm' < Limit
      BY <3>2, <3>3, <3>4
    <3> QED BY <3>5 DEF Room, Limit
  <2> QED BY <2>2, <2>3
<1>10. CASE ReconnectStart \/ SendConnect \/ ConnectAnswered \/ ConnectUnanswered \/ Resubscribe
  BY <1>1, <1>2, <1>10, ReconnectPaths DEF Connecting
<1>11. CASE HandlerReturns \/ ReadPacket \/ ReadNothing \/ ReadError \/ Acknowledge \/ Keepalive
            \/ CycleFailed \/ YieldLoop \/ YieldReconnected \/ YieldReturns
  BY <1>1, <1>2, <1>4, <1>11, CyclePaths
<1> QED BY <1>6, <1>7, <1>8, <1>9, <1>10, <1>11 DEF ClientStep

LEMMA CostStep ==
  ASSUME Proceeds, \A m \in Nat : 1 <= m /\ 2 * m + 1 = sp /\ sp' = sp + 1 => Room(m)'
  PROVE  CostInv' /\ Harm' <= MaxFaults
<1>0. sp \in Nat /\ sp' \in Nat /\ sp' \in {sp - 1, sp, sp + 1} /\ MaxHandlers \in Nat
      /\ MaxFaults \in Nat /\ Limit = MaxHandlers + MaxFaults + 1 /\ Limit' = Limit
  BY HandlersAssumption, BoundsAssumption DEF Proceeds, Steady, TypeInv, CallsOK, Limit
<1>1. Harm' <= MaxFaults /\ Harm' \in Nat
  <2>1. Harm' <= Harm /\ Harm \in Nat /\ Harm <= MaxFaults
    BY HarmFalls DEF Proceeds, Steady, NestingInv
  <2>2. faults' \in Nat
    BY DEF Proceeds, TypeInv, NetOK
  <2>3. Lost' => Harm' = faults' + 1
    BY Zenon DEF Harm
  <2>4. ~Lost' => Harm' = faults' + 0
    BY Zenon DEF Harm
  <2>5. Harm' \in Nat
    BY <2>2, <2>3, <2>4
  <2> QED BY <1>0, <2>1, <2>5
<1>2. ASSUME NEW m \in Nat, 1 <= m, 2 * m <= sp, 2 * m <= sp'
      PROVE  /\ Cost(m)' + Harm' <= Limit
             /\ 2 * m + 2 <= sp' => Room(m)'
  <2>1. m \in 1..sp /\ Cost(m) + Harm <= Limit /\ (2 * m + 2 <= sp => Room(m))
    BY <1>0, <1>2 DEF Proceeds, NestingInv, CostInv
  <2>2. /\ Cost(m)' <= Cost(m) /\ Cost(m) \in Nat /\ Cost(m)' \in Nat
        /\ Harm' <= Harm /\ Harm' \in Nat /\ Harm \in Nat /\ (Room(m) => Room(m)')
    BY <1>2, Shrinks DEF Proceeds, NestingInv
  <2>3. Cost(m)' + Harm' <= Limit
    BY <1>0, <2>1, <2>2
  <2>4. 2 * m + 2 <= sp' => 2 * m + 2 <= sp \/ (2 * m + 1 = sp /\ sp' = sp + 1)
    BY <1>0
  <2> QED BY <1>2, <2>1, <2>2, <2>3, <2>4
<1>3. ASSUME NEW m \in Nat, 1 <= m, 2 * m = sp', sp' = sp + 1
      PROVE  Cost(m)' + Harm' <= Limit
  <2>1. Filters(m)' = Handled'
    <3>1. Filters(m)' = Handled' \cup {stk'[k].topic : k \in {j \in 1..sp' : j >= 2 * m + 1 /\ Asks(stk'[j])}}
      BY DEF Filters, Asked, Asks
    <3>2. {j \in 1..sp' : j >= 2 * m + 1 /\ Asks(stk'[j])} = {}
      BY <1>0, <1>3
    <3> QED BY <3>1, <3>2
  <2>2. Cost(m)' = m + Cardinality(Handled')
    BY <2>1 DEF Cost
  <2>3. TableFits' /\ FiltersFit'
    BY TypedFitsAfter DEF Proceeds
  <2>4. Cardinality(Handled') \in Nat /\ Cardinality(Handled') <= MaxHandlers
    BY <2>3, FS_CardinalityType DEF TableFits
  <2>5. CASE m = 1
    BY <1>0, <1>1, <2>2, <2>4, <2>5
  <2>6. CASE m > 1
    <3> DEFINE n == m - 1
    <3>1. n \in Nat /\ 1 <= n /\ 2 * n + 1 = sp /\ m = n + 1
      BY <1>0, <1>3, <2>6
    <3>2. Room(n)' /\ IsFiniteSet(Filters(n)') /\ Cost(n)' = n + Cardinality(Filters(n)')
      BY <1>3, <2>3, <3>1 DEF FiltersFit, Cost
    <3>3. Handled' \subseteq Filters(n)'
      BY DEF Filters
    <3> HIDE DEF n
    <3>4. /\ Cardinality(Handled') <= Cardinality(Filters(n)')
          /\ Cardinality(Filters(n)') \in Nat
      BY <3>2, <3>3, FS_Subset, FS_CardinalityType
    <3>5. Cost(n)' + Harm' < Limit
      BY <1>0, <3>2 DEF Room
    <3> QED BY <1>0, <1>1, <2>2, <2>4, <3>1, <3>2, <3>4, <3>5
  <2> QED BY <1>3, <2>5, <2>6
<1>4. ASSUME NEW m \in 1..sp', 2 * m <= sp'
      PROVE  Cost(m)' + Harm' <= Limit /\ (2 * m + 2 <= sp' => Room(m)')
  <2>1. m \in Nat /\ 1 <= m /\ (2 * m <= sp \/ (2 * m = sp' /\ sp' = sp + 1))
    BY <1>0, <1>4
  <2> QED BY <1>2, <1>3, <1>4, <2>1
<1>5. CostInv'
  BY <1>4 DEF CostInv, Limit
<1> QED BY <1>1, <1>5

LEMMA ResubscribeRoom ==
  ASSUME Proceeds, ClientStep, NEW m \in Nat, 1 <= m, 2 * m = sp',
         Cur'.pc = "resubscribe", state' # "CONNECTED"
  PROVE  Room(m)'
<1>1. TypeInv /\ ShapeInv /\ sp \in Nat /\ sp' \in {sp - 1, sp, sp + 1}
  BY DEF Proceeds, Steady, TypeInv, CallsOK
<1>2. ~GoesIn
  <2>1. Cur' # HandleReconnect
    BY HandleReconnectFields
  <2>2. SUFFICES ASSUME GoesIn PROVE FALSE
    OBVIOUS
  <2>3. ~GoesOut /\ \A p : ~StaysAt(p)
    BY <1>1, <2>2 DEF GoesIn, GoesOut, StaysAt
  <2> QED BY <1>1, <2>1, <2>3, RequestPaths, ReconnectPaths, CyclePaths DEF ClientStep
<1>3. \A p : StaysAt(p) => p = "resubscribe"
  BY DEF StaysAt
<1>4. GoesOut
  BY <1>1, <1>2, <1>3, RequestPaths, ReconnectPaths, CyclePaths DEF ClientStep
<1>5. 2 * m + 1 = sp /\ sp' = sp - 1
  BY <1>1, <1>4 DEF GoesOut
<1> QED BY <1>5, CallsRoom

LEMMA SubscribeStarts ==
  ASSUME Proceeds, Alternate', ClientStep, NEW m \in Nat, 1 <= m, 2 * m + 1 = sp', sp' = sp + 1
  PROVE  SubscribeRoom(m)'
<1>1. TypeInv /\ ShapeInv /\ sp \in Nat /\ 2 * m = sp /\ m \in 1..sp
  BY DEF Proceeds, TypeInv, CallsOK
<1>2. Cur' # HandleReconnect
  <2>1. sp' \in 1..sp' /\ sp' % 2 # 0 /\ sp' # 0
    BY <1>1
  <2>2. Cur'.fn # "reconnect"
    BY <2>1 DEF Alternate, Cur
  <2> QED BY <2>2, HandleReconnectFields
<1>3. ~GoesOut /\ \A p : ~StaysAt(p)
  BY <1>1 DEF GoesOut, StaysAt
<1>4. Resubscribe
  BY <1>1, <1>2, <1>3, RequestPaths, ReconnectPaths, CyclePaths DEF ClientStep
<1>5. Cur.pc = "resubscribe" /\ Cur'.pc = "check" /\ state' = state
  BY <1>1, <1>3, <1>4, ReconnectPaths DEF Resubscribe, client
<1>6. state # "CONNECTED" => Room(m)
  BY <1>1, <1>5 DEF Proceeds, NestingInv, RoomInv
<1>7. Room(m) => Room(m)'
  BY <1>1, Shrinks DEF Proceeds, NestingInv
<1> QED BY <1>5, <1>6, <1>7 DEF SubscribeRoom, Cycle

LEMMA CallRoom ==
  ASSUME Proceeds, Alternate', ClientStep, NEW m \in Nat, 1 <= m, 2 * m + 1 = sp'
  PROVE  SubscribeRoom(m)'
<1>1. sp \in Nat /\ sp' \in {sp - 1, sp, sp + 1}
  BY DEF Proceeds, Steady, TypeInv, CallsOK
<1>2. CASE sp' = sp
  BY <1>2, StaysRoom
<1>3. CASE sp' = sp + 1
  BY <1>3, SubscribeStarts
<1>4. CASE sp' = sp - 1
  <2>1. m \in 1..sp /\ 2 * m + 2 <= sp /\ 2 * m <= sp /\ 2 * m <= sp'
    BY <1>1, <1>4
  <2>2. Room(m)
    BY <2>1 DEF Proceeds, NestingInv, CostInv
  <2>3. Room(m)'
    BY <2>1, <2>2, Shrinks DEF Proceeds, NestingInv
  <2> QED BY <2>1, <2>3, RoomSuffices
<1> QED BY <1>1, <1>2, <1>3, <1>4

LEMMA IdleRoom ==
  ASSUME Proceeds, Idles, state' = state, sp > 0 => handlers' = handlers
  PROVE  RoomInv'
<1>1. sp \in Nat /\ sp' = sp /\ Cur'.pc = Cur.pc /\ Cur'.topic = Cur.topic
  BY DEF Proceeds, TypeInv, CallsOK, Idles
<1>2. ASSUME NEW m \in 1..sp, 2 * m <= sp
      PROVE  /\ Room(m) => Room(m)'
             /\ Cost(m) + faults < Limit => Cost(m)' + faults' < Limit
  <2>1. m \in Nat /\ 1 <= m /\ 2 * m <= sp'
    BY <1>1, <1>2
  <2>2. /\ Cost(m)' <= Cost(m) /\ Cost(m) \in Nat /\ Cost(m)' \in Nat
        /\ faults' <= faults /\ faults' \in Nat /\ (Room(m) => Room(m)')
    BY <1>2, <2>1, Shrinks DEF Proceeds, NestingInv
  <2>3. faults \in Nat /\ Limit \in Nat
    BY HandlersAssumption, BoundsAssumption DEF Proceeds, TypeInv, NetOK, Limit
  <2> QED BY <2>2, <2>3
<1>3. ASSUME NEW m \in 1..sp, 2 * m = sp, Cur.pc = "resubscribe", state # "CONNECTED"
      PROVE  Room(m)'
  <2>1. Room(m)
    BY <1>3 DEF Proceeds, NestingInv, RoomInv
  <2> QED BY <1>1, <1>2, <1>3, <2>1
<1>4. ASSUME NEW m \in 1..sp, 2 * m + 1 = sp PROVE SubscribeRoom(m)'
  <2>1. SubscribeRoom(m)
    BY <1>4 DEF Proceeds, NestingInv, RoomInv
  <2>2. /\ Room(m) => Room(m)'
        /\ Cost(m) + faults < Limit => Cost(m)' + faults' < Limit
    BY <1>1, <1>2, <1>4
  <2>3. handlers' = handlers /\ (Cur.topic \in Handled => Cur'.topic \in Handled')
    BY <1>1, <1>4 DEF Handled
  <2>4. Limit' = Limit
    BY DEF Limit
  <2> QED BY <1>1, <2>1, <2>2, <2>3, <2>4 DEF SubscribeRoom
<1> QED BY <1>1, <1>3, <1>4 DEF RoomInv

LEMMA RoomStep ==
  ASSUME Proceeds, Alternate', ~Callbacks, [Next]_vars PROVE RoomInv'
<1>1. sp \in Nat /\ sp' \in Nat /\ TypeInv /\ ShapeInv
  BY DEF Proceeds, TypeInv, CallsOK
<1>2. CASE ClientStep
  <2>1. ASSUME NEW m \in 1..sp'
        PROVE  /\ 2 * m = sp' /\ Cur'.pc = "resubscribe" /\ state' # "CONNECTED" => Room(m)'
               /\ 2 * m + 1 = sp' => SubscribeRoom(m)'
    <3>1. m \in Nat /\ 1 <= m
      BY <1>1
    <3> QED BY <1>2, <3>1, ResubscribeRoom, CallRoom
  <2> QED BY <2>1 DEF RoomInv
<1>3. CASE Publish \/ Subscribe \/ Unsubscribe \/ Yield \/ UserDisconnect
  <2>1. sp' \in {0, 1}
    BY <1>1, <1>3, OutsidePaths
  <2>2. \A m \in 1..sp' : 2 * m # sp' /\ 2 * m + 1 # sp'
    BY <2>1
  <2> QED BY <2>2 DEF RoomInv
<1>4. CASE SetAutoReconnect \/ Destroy \/ Environment \/ Elapse \/ UNCHANGED vars
  BY <1>1, <1>4, OutsidePaths, IdleRoom
<1> QED BY <1>2, <1>3, <1>4 DEF Next, Application

LEMMA NestingStep ==
  ASSUME TypeInv, TypeInv', ShapeInv, DownInv, SocketMatchesState, NoDuplicateHandler,
         NestingInv, ~Callbacks, [Next]_vars
  PROVE  NestingInv'
<1>1. Proceeds
  BY SteadyStep DEF Proceeds
<1>2. Alternate'
  BY AlternateStep DEF NestingInv
<1>3. RoomInv'
  BY <1>1, <1>2, RoomStep
<1>4. ASSUME NEW m \in Nat, 1 <= m, 2 * m + 1 = sp, sp' = sp + 1 PROVE Room(m)'
  <2>1. CASE ClientStep
    BY <1>1, <1>4, <2>1, CallsRoom
  <2>2. CASE Publish \/ Subscribe \/ Unsubscribe \/ Yield \/ UserDisconnect
    BY <1>4, <2>2, OutsidePaths
  <2>3. CASE SetAutoReconnect \/ Destroy \/ Environment \/ Elapse \/ UNCHANGED vars
    <3>1. Idles
      BY <2>3, OutsidePaths
    <3> QED BY <1>4, <3>1 DEF Idles
  <2> QED BY <2>1, <2>2, <2>3 DEF Next, Application
<1>5. CostInv' /\ Harm' <= MaxFaults
  BY <1>1, <1>4, CostStep
<1> QED BY <1>2, <1>3, <1>5 DEF NestingInv

LEMMA NestingInit == Init => NestingInv
<1> SUFFICES ASSUME Init PROVE NestingInv
  OBVIOUS
<1>1. sp = 1 /\ sock = "up" /\ faults = MaxFaults /\ stk[1].fn = "connect"
  BY BoundsAssumption DEF Init, Frame
<1>2. Alternate
  BY <1>1 DEF Alternate
<1>3. Harm <= MaxFaults
  <2>1. ~Lost
    BY <1>1 DEF Lost
  <2>2. Harm = faults + 0
    BY <2>1, Zenon DEF Harm
  <2> QED BY <1>1, <2>2, BoundsAssumption
<1>4. \A m \in 1..sp : ~(2 * m <= sp)
  BY <1>1
<1>5. CostInv /\ RoomInv
  BY <1>1, <1>4 DEF CostInv, RoomInv
<1> QED BY <1>2, <1>3, <1>5 DEF NestingInv

LEMMA NestingBounds == ASSUME TypeInv, NestingInv PROVE ReconnectNestingBounded
<1> DEFINE L == sp \div 2
           E == {k \in 1..sp : stk[k].fn = "reconnect"}
<1>1. sp \in Nat /\ L \in Nat /\ 2 * L <= sp /\ sp <= 2 * L + 1
  BY DEF TypeInv, CallsOK
<1>2. \A k \in E : k % 2 = 0
  BY DEF NestingInv, Alternate
<1>3. \A i \in 1..L : 2 * i \in 1..sp /\ (2 * i) % 2 = 0
  BY <1>1
<1>4. \A i \in 1..L : 2 * i \in E
  BY <1>3 DEF NestingInv, Alternate
<1>5. \A k \in E : k \div 2 \in 1..L /\ 2 * (k \div 2) = k
  BY <1>1, <1>2
<1>6. IsFiniteSet(1..L) /\ Cardinality(1..L) = L
  <2> HIDE DEF L
  <2>1. IsFiniteSet(1..L) /\ Cardinality(1..L) = IF 1 > L THEN 0 ELSE L - 1 + 1
    BY <1>1, FS_Interval
  <2> QED BY <1>1, <2>1
<1>7. IsFiniteSet(E) /\ Cardinality(E) <= L
  <2> DEFINE f == [i \in 1..L |-> 2 * i]
  <2>1. f \in [1..L -> E] /\ \A k \in E : \E i \in 1..L : f[i] = k
    <3> HIDE DEF L, E
    <3> QED BY <1>4, <1>5
  <2> HIDE DEF f, L, E
  <2> QED BY <1>6, <2>1, ImageFinite
<1>8. Harm \in Nat /\ Limit \in Nat
  <2>1. Lost => Harm = faults + 1
    BY Zenon DEF Harm
  <2>2. ~Lost => Harm = faults + 0
    BY Zenon DEF Harm
  <2> QED BY <2>1, <2>2, HandlersAssumption, BoundsAssumption DEF TypeInv, NetOK, Limit
<1>9. L <= Limit
  <2> HIDE DEF L
  <2>1. CASE L = 0
    BY <1>8, <2>1
  <2>2. CASE L > 0
    <3>1. Cost(L) + Harm <= Limit
      BY <1>1, <2>2 DEF NestingInv, CostInv
    <3>2. IsFiniteSet(Filters(L))
      BY <1>1, FiltersFinite
    <3>3. Cardinality(Filters(L)) \in Nat
      BY <3>2, FS_CardinalityType
    <3> QED BY <1>1, <1>8, <3>1, <3>3 DEF Cost
  <2> QED BY <1>1, <2>1, <2>2
<1>10. Cardinality(E) \in Nat
  BY <1>7, FS_CardinalityType
<1> HIDE DEF L, E
<1>11. Cardinality(E) <= MaxHandlers + MaxFaults + 1
  BY <1>1, <1>7, <1>8, <1>9, <1>10 DEF Limit
<1> QED BY <1>11 DEF ReconnectNestingBounded, ReconnectNesting, E

\* However the network fails, _handle_reconnect nests in itself at most once for every slot
\* of the handler table, once for every fault and once more.  No counter in the code says so:
\* tc_iot_mqtt_subscribe, called from the re-subscription loop of a reconnect, reconnects in
\* its turn when the connection is gone.  What ends this is that every further level takes
\* away a handler or uses up a fault.
THEOREM NestingStaysBounded == Spec /\ ~Callbacks => []ReconnectNestingBounded
<1> SUFFICES ASSUME ~Callbacks PROVE Spec => []ReconnectNestingBounded
  OBVIOUS
<1>1. Init => RequestInv /\ NestingInv
  BY RequestInit, NestingInit
<1>2. TypeInv /\ RequestInv /\ [Next]_vars => RequestInv'
  BY RequestStep
<1>3. TypeInv /\ TypeInv' /\ RequestInv /\ SocketMatchesState /\ NoDuplicateHandler /\ NestingInv
        /\ [Next]_vars => NestingInv'
  BY NestingStep DEF RequestInv
<1>4. TypeInv /\ NestingInv => ReconnectNestingBounded
  BY NestingBounds
<1> QED BY <1>1, <1>2, <1>3, <1>4, TypeInvHolds, SocketFollowsState, HandlersUnique, PTL DEF Spec

=============================================================================
