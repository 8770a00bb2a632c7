------------------------------ MODULE MqttPings ------------------------------
\* MqttClient with a history of its pings: how long ago the last PINGREQ went out on the
\* present connection, counted from its CONNACK on.
EXTENDS MqttClient

VARIABLE since   \* history: ticks since that PINGREQ, up to KeepAlive; Never without one

Never == -1

PingInit == Init /\ since = Never

PingNext ==
  \/ /\ Elapse
     /\ since' = IF since \in 0..KeepAlive - 1 THEN since + 1 ELSE since
  \/ /\ ClientStep \/ Application \/ Environment
     /\ since' = IF state # "CONNECTED" /\ state' = "CONNECTED" THEN Never
                 ELSE IF ~pingOut /\ pingOut' THEN 0
                 ELSE since

PingSpec == PingInit /\ [][PingNext]_<<vars, since>>
FairPingSpec == PingSpec /\ Fairness

-----------------------------------------------------------------------------
(* Properties *)

\* The keep-alive gives a connection up only for a PINGREQ that was sent on that very
\* connection, after its CONNACK, and that has had a whole keep-alive interval for its
\* answer: nothing a lost connection or a handshake leaves behind - the ping flag, the
\* timers - makes the first keep-alive of a new one fail.
PingHasItsTime ==
  At("post") /\ state = "CONNECTED" /\ KeepaliveDue /\ pingOut => since >= KeepAlive
=============================================================================
